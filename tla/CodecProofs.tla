----------------------------- MODULE CodecProofs ----------------------------
(***************************************************************************)
(* What holds of the pure algorithms for every input: logs of any number,  *)
(* addresses of any bytes, keys of any length, amounts of any width and    *)
(* JSON of any depth.                                                      *)
(***************************************************************************)
EXTENDS Codecs, SetInduction, SequenceTheorems, TLAPS

-----------------------------------------------------------------------------
(* Addresses. *)

\* A formatted address has two parts more, around those it was made of.
Around(f, text, S) ==
    /\ f \in Seq(S) /\ Len(f) = Len(text) + 2
    /\ \A i \in 1 .. Len(text) : f[i + 1] = text[i]

LEMMA FormattedText ==
  ASSUME NEW S, NEW text \in Seq(S), NEW symbol, NEW chain,
         Word(symbol) \in S, Word(chain) \in S
  PROVE  Around(GetFormattedAddress(symbol, text, chain), text, S)
<1> DEFINE first == <<Word(symbol)>>
           third == <<Word(chain)>>
           front == first \o text
<1>1. /\ first \in Seq(S) /\ Len(first) = 1
      /\ third \in Seq(S) /\ Len(third) = 1
      /\ Len(text) \in Nat
  OBVIOUS
<1>2. GetFormattedAddress(symbol, text, chain) = front \o third
  BY DEF GetFormattedAddress
<1> HIDE DEF first, third
<1>3. /\ front \in Seq(S) /\ Len(front) = Len(text) + 1
      /\ \A i \in 1 .. Len(text) : front[i + 1] = text[i]
  <2>1. /\ front \in Seq(S) /\ Len(front) = Len(first) + Len(text)
        /\ \A i \in 1 .. Len(first) + Len(text) :
              front[i] = IF i <= Len(first) THEN first[i] ELSE text[i - Len(first)]
    BY <1>1, ConcatProperties
  <2> HIDE DEF front
  <2>2. QED
    BY <1>1, <2>1
<1> HIDE DEF front
<1>4. /\ front \o third \in Seq(S) /\ Len(front \o third) = Len(text) + 2
      /\ \A i \in 1 .. Len(text) : (front \o third)[i + 1] = front[i + 1]
  <2> DEFINE whole == front \o third
  <2>1. /\ whole \in Seq(S) /\ Len(whole) = Len(front) + Len(third)
        /\ \A i \in 1 .. Len(front) + Len(third) :
              whole[i] = IF i <= Len(front) THEN front[i] ELSE third[i - Len(front)]
    BY <1>1, <1>3, ConcatProperties
  <2> HIDE DEF whole
  <2>2. Len(whole) = Len(text) + 2 /\ \A i \in 1 .. Len(text) : whole[i + 1] = front[i + 1]
    BY <1>1, <1>3, <2>1
  <2>3. QED
    BY <2>1, <2>2 DEF whole
<1>5. QED
  BY <1>2, <1>3, <1>4 DEF Around

\* What has nothing in the middle is no address.
LEMMA HollowRefused ==
  ASSUME NEW text, Len(text) = 3, text[2] = Hollow
  PROVE  ~ DecodeAddress(text).ok
  BY DEF DecodeAddress, ParseAelfAddress, Base58CheckDecode, Bad

LEMMA AddressFormsHold ==
  ASSUME NEW bytes, NEW symbol, NEW chain
  PROVE  AddressForms(bytes, symbol, chain)
<1> DEFINE b == Plain(bytes)
           S == {b, Hollow, Word(symbol), Word(chain)}
           plain == Base58CheckEncode(bytes)
           formatted == GetFormattedAddress(symbol, plain, chain)
           twice == GetFormattedAddress(symbol, formatted, chain)
           hollow == GetFormattedAddress(symbol, <<Hollow>>, chain)
<1>1. b[1] = "base58check" /\ b[2] = bytes /\ b # Hollow
  BY DEF Plain, Word, Hollow
<1>2. plain = <<b>>
  BY DEF Base58CheckEncode
<1> HIDE DEF b
<1>3. /\ plain \in Seq(S) /\ Len(plain) = 1 /\ plain[1] = b
      /\ <<Hollow>> \in Seq(S) /\ Len(<<Hollow>>) = 1 /\ <<Hollow>>[1] = Hollow
      /\ Word(symbol) \in S /\ Word(chain) \in S
  BY <1>2
<1> HIDE DEF S, plain
<1>4. /\ formatted \in Seq(S) /\ Len(formatted) = 3 /\ formatted[2] = b
      /\ hollow \in Seq(S) /\ Len(hollow) = 3 /\ hollow[2] = Hollow
  <2>1. Around(formatted, plain, S) /\ Around(hollow, <<Hollow>>, S)
    BY <1>3, FormattedText
  <2> HIDE DEF formatted, hollow
  <2>2. formatted[1 + 1] = plain[1] /\ hollow[1 + 1] = <<Hollow>>[1]
    BY <1>3, <2>1 DEF Around
  <2>3. QED
    BY <1>3, <2>1, <2>2 DEF Around
<1> HIDE DEF formatted, hollow
<1>5. Len(twice) = 5
  <2>1. Around(twice, formatted, S)
    BY <1>3, <1>4, FormattedText
  <2> HIDE DEF twice
  <2>2. QED
    BY <1>4, <2>1 DEF Around
<1> HIDE DEF twice
<1>6. Len(Tail(formatted)) = 2
  BY <1>4
<1>7. Len(Front(formatted)) = 2
  BY <1>4 DEF Front
<1>8. Len(formatted \o <<Hollow>>) = 4 /\ Len(formatted \o plain) = 4
  <2>1. ASSUME NEW text \in Seq(S), Len(text) = 1 PROVE Len(formatted \o text) = 4
    <3>1. Len(formatted \o text) = Len(formatted) + Len(text)
      BY <1>4, ConcatProperties
    <3>2. QED
      BY <1>4, <2>1, <3>1
  <2>2. QED
    BY <1>3, <2>1
<1>9. DecodeAddress(plain) = Good(bytes)
  BY <1>1, <1>2 DEF DecodeAddress, ParseAelfAddress, Base58CheckDecode
<1>10. DecodeAddress(formatted) = Good(bytes)
  BY <1>1, <1>4 DEF DecodeAddress, ParseAelfAddress, Base58CheckDecode
<1>11. ~ DecodeAddress(hollow).ok
  BY <1>4, HollowRefused
<1>12. /\ ~ DecodeAddress(twice).ok /\ ~ DecodeAddress(Tail(formatted)).ok
       /\ ~ DecodeAddress(Front(formatted)).ok /\ ~ DecodeAddress(formatted \o <<Hollow>>).ok
       /\ ~ DecodeAddress(formatted \o plain).ok
  <2> HIDE DEF formatted, plain
  <2> DEFINE Refused(n) == \A text : Len(text) = n => ~ DecodeAddress(text).ok
  <2>1. Refused(2) /\ Refused(4) /\ Refused(5)
    <3>1. ASSUME NEW n \in {2, 4, 5}, NEW text, Len(text) = n PROVE ~ DecodeAddress(text).ok
      BY <3>1 DEF DecodeAddress, ParseAelfAddress, Base58CheckDecode, Bad
    <3>2. QED
      BY <3>1
  <2>2. ~ DecodeAddress(twice).ok
    BY <1>5, <2>1
  <2>3. ~ DecodeAddress(Tail(formatted)).ok /\ ~ DecodeAddress(Front(formatted)).ok
    BY <1>6, <1>7, <2>1
  <2>4. ~ DecodeAddress(formatted \o <<Hollow>>).ok
    BY <1>8, <2>1
  <2>5. ~ DecodeAddress(formatted \o plain).ok
    BY <1>8, <2>1
  <2>6. QED
    BY <2>2, <2>3, <2>4, <2>5
<1>13. QED
  BY <1>9, <1>10, <1>11, <1>12 DEF AddressForms, formatted, twice, hollow, plain

-----------------------------------------------------------------------------
(* Numbers written with digits.                                            *)

\* The numbers of the prefixes of some digits.
Reads(base, digits, chain) ==
    chain = [i \in 0 .. Len(digits) |-> IF i = 0 THEN 0 ELSE base * chain[i - 1] + digits[i]]

LEMMA NextPrefix == \A base, m, d \in Nat : base * m + d \in Nat
  OBVIOUS

LEMMA ReadsExists ==
  ASSUME NEW base \in Nat, NEW digits \in Seq(Nat)
  PROVE  \E chain \in [0 .. Len(digits) -> Nat] : Reads(base, digits, chain)
<1> DEFINE n == Len(digits)
           step == [p \in (1 .. n) \X Nat |-> base * p[2] + digits[p[1]]]
<1>1. n \in Nat /\ 0 \in Nat /\ \A i \in 1 .. n : digits[i] \in Nat
  OBVIOUS
<1>2. step \in [(1 .. n) \X Nat -> Nat]
  <2>1. ASSUME NEW i \in 1 .. n, NEW m \in Nat PROVE base * m + digits[i] \in Nat
    BY <1>1, NextPrefix
  <2>2. QED
    BY <2>1
<1>3. \A i \in 1 .. n, m \in Nat : step[<<i, m>>] = base * m + digits[i]
  OBVIOUS
<1> HIDE DEF step
<1>4. PICK chain : Chain(chain, n, Nat, 0, step)
  <2> HIDE DEF n
  <2>1. QED
    BY <1>1, <1>2, ChainExists
<1>5. ASSUME NEW i \in 1 .. n PROVE chain[i] = base * chain[i - 1] + digits[i]
  <2>1. i - 1 \in 0 .. n
    BY <1>1
  <2>2. chain[i - 1] \in Nat
    BY <1>4, <2>1 DEF Chain
  <2>3. QED
    BY <1>3, <1>4, <2>2 DEF Chain
<1>6. ASSUME NEW i \in 0 .. n
      PROVE  chain[i] = IF i = 0 THEN 0 ELSE base * chain[i - 1] + digits[i]
  BY <1>1, <1>4, <1>5 DEF Chain
<1>7. Reads(base, digits, chain)
  BY <1>4, <1>6 DEF Reads, Chain
<1>8. QED
  BY <1>4, <1>7 DEF Chain

LEMMA ReadsAt ==
  ASSUME NEW base \in Nat, NEW digits \in Seq(Nat), NEW chain, Reads(base, digits, chain)
  PROVE  /\ chain[0] = 0
         /\ \A i \in 1 .. Len(digits) : chain[i] = base * chain[i - 1] + digits[i]
<1>1. Len(digits) \in Nat
  OBVIOUS
<1> DEFINE value(i) == IF i = 0 THEN 0 ELSE base * chain[i - 1] + digits[i]
<1>2. chain = [i \in 0 .. Len(digits) |-> value(i)]
  BY DEF Reads
<1> HIDE DEF value
<1>3. \A i \in 0 .. Len(digits) : chain[i] = value(i)
  BY <1>2
<1>4. QED
  BY <1>1, <1>3 DEF value

\* One digit after the other.
PrefixNumbers(base, digits, chain) ==
    /\ chain \in [0 .. Len(digits) -> Nat]
    /\ chain[0] = 0
    /\ \A i \in 1 .. Len(digits) : chain[i] = base * chain[i - 1] + digits[i]
    /\ Number(base, digits) = chain[Len(digits)]

LEMMA NumberByPrefix ==
  ASSUME NEW base \in Nat, NEW digits \in Seq(Nat)
  PROVE  \E chain : PrefixNumbers(base, digits, chain)
<1> DEFINE number == CHOOSE chain : Reads(base, digits, chain)
<1>1. Number(base, digits) = number[Len(digits)]
  BY Zenon DEF Number, Reads
<1>2. PICK chain \in [0 .. Len(digits) -> Nat] : Reads(base, digits, chain)
  BY ReadsExists
<1>3. Reads(base, digits, number)
  BY <1>2
<1> HIDE DEF number
<1>4. /\ number[0] = 0
      /\ \A i \in 1 .. Len(digits) : number[i] = base * number[i - 1] + digits[i]
  BY <1>3, ReadsAt
<1>5. number = [i \in 0 .. Len(digits) |-> number[i]]
  BY <1>3 DEF Reads
<1>6. Len(digits) \in Nat /\ \A i \in 1 .. Len(digits) : digits[i] \in Nat
  OBVIOUS
<1> DEFINE S == {i \in Nat : number[i] \in Nat}
<1>7. 0 \in S
  BY <1>4
<1>8. ASSUME NEW i \in 0 .. Len(digits) - 1, i \in S PROVE i + 1 \in S
  <2>1. i + 1 \in 1 .. Len(digits) /\ (i + 1) - 1 = i
    BY <1>6
  <2>2. number[i + 1] = base * number[i] + digits[i + 1] /\ digits[i + 1] \in Nat
    BY <1>4, <1>6, <2>1
  <2>3. base * number[i] \in Nat
    BY <1>8
  <2>4. QED
    BY <1>6, <2>2, <2>3
<1> HIDE DEF S
<1>9. \A i \in 0 .. Len(digits) : i \in S
  BY <1>6, <1>7, <1>8, BoundedInduction
<1>10. number \in [0 .. Len(digits) -> Nat]
  BY <1>5, <1>9 DEF S
<1>11. QED
  BY <1>1, <1>4, <1>10 DEF PrefixNumbers

LEMMA NumberType ==
  ASSUME NEW base \in Nat, NEW digits \in Seq(Nat)
  PROVE  Number(base, digits) \in Nat
  BY NumberByPrefix DEF PrefixNumbers

\* Digits after others that amount to nothing are read as they are on their own.
Carries(t, k, s, n) == \A i \in 1 .. n : t[k + i] = s[i]

LEMMA SameDigits ==
  ASSUME NEW base \in Nat, NEW s \in Seq(Nat), NEW t \in Seq(Nat),
         NEW read, PrefixNumbers(base, s, read), NEW seen, PrefixNumbers(base, t, seen),
         NEW k \in Nat, NEW n \in Nat, n <= Len(s), k + n <= Len(t),
         Carries(t, k, s, n), seen[k] = 0
  PROVE  seen[k + n] = read[n]
<1> DEFINE S == {i \in Nat : seen[k + i] = read[i]}
<1>1. 0 \in S
  BY DEF PrefixNumbers
<1>2. ASSUME NEW i \in 0 .. n - 1, i \in S PROVE i + 1 \in S
  <2>1. /\ i + 1 \in 1 .. n /\ i + 1 \in 1 .. Len(s) /\ (i + 1) - 1 = i
        /\ k + i + 1 \in 1 .. Len(t) /\ (k + i + 1) - 1 = k + i
        /\ k + (i + 1) = k + i + 1
    OBVIOUS
  <2>2. read[i + 1] = base * read[i] + s[i + 1]
    BY <2>1 DEF PrefixNumbers
  <2>3. seen[k + i + 1] = base * seen[k + i] + t[k + i + 1]
    BY <2>1 DEF PrefixNumbers
  <2>4. t[k + i + 1] = s[i + 1] /\ seen[k + i] = read[i]
    BY <1>2, <2>1 DEF Carries
  <2>5. QED
    BY <2>1, <2>2, <2>3, <2>4
<1> HIDE DEF S
<1>3. \A i \in 0 .. n : i \in S
  BY <1>1, <1>2, BoundedInduction
<1>4. QED
  BY <1>3 DEF S

LEMMA NumberAppend ==
  ASSUME NEW base \in Nat, NEW digits \in Seq(Nat), NEW d \in Nat
  PROVE  Number(base, Append(digits, d)) = base * Number(base, digits) + d
<1> DEFINE longer == Append(digits, d)
           n == Len(digits)
<1>1. /\ longer \in Seq(Nat) /\ Len(longer) = n + 1 /\ n \in Nat /\ longer[n + 1] = d
      /\ \A i \in 1 .. n : longer[i] = digits[i]
  BY AppendProperties
<1> HIDE DEF longer
<1>2. PICK read : PrefixNumbers(base, digits, read)
  BY NumberByPrefix
<1>3. PICK seen : PrefixNumbers(base, longer, seen)
  BY <1>1, NumberByPrefix
<1>4. seen[0 + n] = read[n]
  <2>1. n <= Len(digits) /\ 0 + n <= Len(longer) /\ seen[0] = 0
    BY <1>1, <1>3 DEF PrefixNumbers
  <2>2. Carries(longer, 0, digits, n)
    BY <1>1 DEF Carries
  <2>3. QED
    BY <1>1, <1>2, <1>3, <2>1, <2>2, SameDigits
<1>5. seen[n + 1] = base * seen[n] + d
  <2>1. n + 1 \in 1 .. Len(longer) /\ (n + 1) - 1 = n
    BY <1>1
  <2>2. seen[n + 1] = base * seen[n] + longer[n + 1]
    BY <1>3, <2>1 DEF PrefixNumbers
  <2>3. QED
    BY <1>1, <2>2
<1>6. QED
  BY <1>1, <1>2, <1>3, <1>4, <1>5 DEF PrefixNumbers, longer

LEMMA NumberOfOne ==
  ASSUME NEW base \in Nat, NEW d \in Nat
  PROVE  Number(base, <<d>>) = d
<1> DEFINE digits == <<d>>
<1>1. digits \in Seq(Nat) /\ Len(digits) = 1 /\ digits[1] = d
  OBVIOUS
<1> HIDE DEF digits
<1>2. PICK read : PrefixNumbers(base, digits, read)
  BY <1>1, NumberByPrefix
<1>3. read[1] = base * read[1 - 1] + d
  BY <1>1, <1>2 DEF PrefixNumbers
<1>4. QED
  BY <1>1, <1>2, <1>3 DEF PrefixNumbers, digits

LEMMA ZerosType ==
  ASSUME NEW k \in Nat
  PROVE  Zeros(k) \in Seq(Nat) /\ Len(Zeros(k)) = k /\ \A i \in 1 .. k : Zeros(k)[i] = 0
  BY DEF Zeros

LEMMA LeadingZeros ==
  ASSUME NEW base \in Nat, NEW digits \in Seq(Nat), NEW k \in Nat
  PROVE  Number(base, Zeros(k) \o digits) = Number(base, digits)
<1> DEFINE longer == Zeros(k) \o digits
           n == Len(digits)
<1>1. /\ longer \in Seq(Nat) /\ Len(longer) = k + n /\ n \in Nat
      /\ \A i \in 1 .. k : longer[i] = 0
      /\ \A i \in 1 .. n : longer[k + i] = digits[i]
  <2>1. /\ longer \in Seq(Nat) /\ Len(longer) = Len(Zeros(k)) + Len(digits)
        /\ \A i \in 1 .. Len(Zeros(k)) + Len(digits) :
              longer[i] = IF i <= Len(Zeros(k)) THEN Zeros(k)[i] ELSE digits[i - Len(Zeros(k))]
    BY ZerosType, ConcatProperties
  <2> HIDE DEF longer
  <2>2. Len(Zeros(k)) = k /\ (\A i \in 1 .. k : Zeros(k)[i] = 0) /\ n \in Nat
    BY ZerosType
  <2>3. Len(longer) = k + n
    BY <2>1, <2>2
  <2>4. ASSUME NEW i \in 1 .. k PROVE longer[i] = 0
    BY <2>1, <2>2, <2>4
  <2>5. ASSUME NEW i \in 1 .. n PROVE longer[k + i] = digits[i]
    <3>1. k + i \in 1 .. k + n /\ ~ (k + i <= k) /\ (k + i) - k = i
      BY <2>2
    <3>2. QED
      BY <2>1, <2>2, <3>1
  <2>6. QED
    BY <2>1, <2>2, <2>3, <2>4, <2>5
<1> HIDE DEF longer
<1>2. PICK read : PrefixNumbers(base, digits, read)
  BY NumberByPrefix
<1>3. PICK seen : PrefixNumbers(base, longer, seen)
  BY <1>1, NumberByPrefix
<1> DEFINE S == {i \in Nat : seen[i] = 0}
<1>4. 0 \in S
  BY <1>3 DEF PrefixNumbers
<1>5. ASSUME NEW i \in 0 .. k - 1, i \in S PROVE i + 1 \in S
  <2>1. i + 1 \in 1 .. Len(longer) /\ i + 1 \in 1 .. k /\ (i + 1) - 1 = i
    BY <1>1
  <2>2. seen[i + 1] = base * seen[i] + longer[i + 1]
    BY <1>3, <2>1 DEF PrefixNumbers
  <2>3. longer[i + 1] = 0 /\ seen[i] = 0 /\ base * 0 = 0
    BY <1>1, <1>5, <2>1
  <2>4. QED
    BY <1>5, <2>2, <2>3
<1> HIDE DEF S
<1>6. seen[k] = 0
  <2>1. \A i \in 0 .. k : i \in S
    BY <1>4, <1>5, BoundedInduction
  <2>2. QED
    BY <2>1 DEF S
<1>7. seen[k + n] = read[n]
  <2>1. n <= Len(digits) /\ k + n <= Len(longer)
    BY <1>1
  <2>2. Carries(longer, k, digits, n)
    BY <1>1 DEF Carries
  <2>3. QED
    BY <1>1, <1>2, <1>3, <1>6, <2>1, <2>2, SameDigits
<1>8. QED
  BY <1>1, <1>2, <1>3, <1>7 DEF PrefixNumbers, longer

-----------------------------------------------------------------------------
(* Private keys and signatures. *)

LEMMA BitsAreNumbers ==
  ASSUME NEW digits \in Seq({0, 1})
  PROVE  digits \in Seq(Nat)
  BY SeqMonotonic

\* However long a text, its key is the number its digits are.
LEMMA NormalizedKey ==
  ASSUME NEW text, text.digits \in Seq({0, 1})
  PROVE  LET r == NormalizePrivateKeyHex(text)
         IN /\ r.ok <=> text.prefix # "0X" /\ Len(text.digits) <= KeyDigits
            /\ r.ok => r.val = KeyOf(text.digits)
<1> DEFINE digits == text.digits
           r == NormalizePrivateKeyHex(text)
<1>1. digits \in Seq(Nat) /\ Len(digits) \in Nat /\ KeyDigits \in Nat
  BY BitsAreNumbers, KeyAssumption
<1> HIDE DEF digits
<1>2. CASE text.prefix = "0X"
  BY <1>2 DEF NormalizePrivateKeyHex, Bad
<1>3. CASE Len(digits) > KeyDigits
  <2>1. ~ r.ok
    BY <1>3 DEF NormalizePrivateKeyHex, Bad, digits
  <2>2. QED
    BY <1>1, <1>3, <2>1 DEF digits
<1>4. CASE text.prefix # "0X" /\ Len(digits) <= KeyDigits
  <2>1. KeyDigits - Len(digits) \in Nat
    BY <1>1, <1>4
  <2>2. KeyOf(Zeros(KeyDigits - Len(digits)) \o digits) = KeyOf(digits)
    BY <1>1, <2>1, LeadingZeros DEF KeyOf
  <2>3. ~ Len(digits) > KeyDigits
    BY <1>1, <1>4
  <2>4. r = Good(KeyOf(digits))
    BY Zenon, <1>4, <2>2, <2>3 DEF NormalizePrivateKeyHex, digits
  <2>5. QED
    BY <1>4, <2>4 DEF Good, digits
<1>5. QED
  BY <1>1, <1>2, <1>3, <1>4 DEF digits

\* The digits a wallet keeps are those of its key.
LEMMA HexIsKey ==
  ASSUME NEW digits \in Seq({0, 1}), Len(digits) <= KeyDigits
  PROVE  LET h == Hex(KeyOf(digits))
         IN h \in Seq({0, 1}) /\ Len(h) = KeyDigits /\ KeyOf(h) = KeyOf(digits)
<1> DEFINE k == KeyDigits - Len(digits)
           full == Zeros(k) \o digits
           key == KeyOf(digits)
<1>1. k \in Nat /\ Len(digits) \in Nat /\ KeyDigits \in Nat /\ k + Len(digits) = KeyDigits
  BY KeyAssumption
<1> HIDE DEF k
<1>2. Zeros(k) \in Seq({0, 1}) /\ Len(Zeros(k)) = k
  BY <1>1 DEF Zeros
<1>3. full \in Seq({0, 1}) /\ Len(full) = KeyDigits
  BY <1>1, <1>2, ConcatProperties
<1>4. KeyOf(full) = key
  BY <1>1, BitsAreNumbers, LeadingZeros DEF KeyOf
<1> HIDE DEF full, key
<1>5. full \in [1 .. KeyDigits -> {0, 1}]
  BY <1>3, LenProperties
<1>6. Hex(key) \in [1 .. KeyDigits -> {0, 1}] /\ KeyOf(Hex(key)) = key
  BY <1>4, <1>5 DEF Hex
<1>7. Hex(key) \in Seq({0, 1}) /\ Len(Hex(key)) = KeyDigits
  BY <1>1, <1>6
<1>8. QED
  BY <1>6, <1>7 DEF key

\* What a wallet signs with is its key, whichever text it was made of.
LEMMA WalletKeepsKey ==
  ASSUME NEW text, text.digits \in Seq({0, 1})
  PROVE  LET wallet == FromPrivateKey(text)
             key == KeyOf(text.digits)
         IN /\ wallet.ok <=> /\ text.prefix # "0X"
                             /\ Len(text.digits) <= KeyDigits
                             /\ key \in 1 .. Order - 1
            /\ wallet.ok =>
                  /\ wallet.val.publicKey = PublicKey(key)
                  /\ wallet.val.address = AddressFromPublicKey(PublicKey(key))
                  /\ NormalizePrivateKeyHex(wallet.val.privateKey).val = key
<1> DEFINE wallet == FromPrivateKey(text)
           key == KeyOf(text.digits)
           r == NormalizePrivateKeyHex(text)
<1>1. /\ r.ok <=> text.prefix # "0X" /\ Len(text.digits) <= KeyDigits
      /\ r.ok => r.val = key
  BY NormalizedKey
<1>2. CASE ~ r.ok
  <2>1. wallet = r
    BY <1>2 DEF FromPrivateKey
  <2>2. QED
    BY <1>1, <1>2, <2>1
<1>3. CASE r.ok /\ key \notin 1 .. Order - 1
  <2>1. wallet = Bad("InvalidPrivateKey")
    BY <1>1, <1>3 DEF FromPrivateKey
  <2>2. ~ wallet.ok
    BY <2>1 DEF Bad
  <2>3. QED
    BY <1>3, <2>2
<1>4. CASE r.ok /\ key \in 1 .. Order - 1
  <2> DEFINE kept == [prefix |-> "", digits |-> Hex(key)]
  <2>1. kept.prefix # "0X" /\ kept.digits = Hex(key)
    BY Zenon
  <2>2. wallet = Good([privateKey |-> kept, publicKey |-> PublicKey(key),
                       address |-> AddressFromPublicKey(PublicKey(key))])
    BY Zenon, <1>1, <1>4 DEF FromPrivateKey
  <2> HIDE DEF kept
  <2>3. Hex(key) \in Seq({0, 1}) /\ Len(Hex(key)) = KeyDigits /\ KeyOf(Hex(key)) = key
    BY <1>1, <1>4, HexIsKey
  <2>4. NormalizePrivateKeyHex(kept).ok /\ NormalizePrivateKeyHex(kept).val = key
    <3> HIDE DEF key
    <3>1. kept.digits \in Seq({0, 1}) /\ Len(kept.digits) <= KeyDigits
      BY <2>1, <2>3, KeyAssumption
    <3>2. QED
      BY <2>1, <2>3, <3>1, NormalizedKey
  <2>5. /\ wallet.ok /\ wallet.val.publicKey = PublicKey(key)
        /\ wallet.val.address = AddressFromPublicKey(PublicKey(key))
        /\ wallet.val.privateKey = kept
    <3> HIDE DEF wallet, key
    <3>1. QED
      BY <2>2 DEF Good
  <2>6. QED
    BY <1>1, <1>4, <2>4, <2>5
<1>5. QED
  BY <1>2, <1>3, <1>4

LEMMA AnySpellingHolds ==
  ASSUME NEW text, text.digits \in Seq({0, 1}), NEW method
  PROVE  AnySpellingSigns(text, method)
<1> DEFINE wallet == FromPrivateKey(text)
           key == KeyOf(text.digits)
           public == PublicKey(key)
           from == wallet.val.address
           Tx(signature) == [from |-> from, method |-> method, signature |-> signature]
           tx == Tx(NoSignature)
           first == SignPayload(key, tx)
           once == Signed(wallet.val, tx)
           second == SignPayload(key, once)
           twice == Signed(wallet.val, once)
           cleared == [once EXCEPT !.signature = NoSignature]
<1>1. /\ wallet.ok <=> /\ text.prefix # "0X"
                       /\ Len(text.digits) <= KeyDigits
                       /\ key \in 1 .. Order - 1
      /\ wallet.ok =>
            /\ wallet.val.publicKey = public
            /\ from = AddressFromPublicKey(public)
            /\ NormalizePrivateKeyHex(wallet.val.privateKey).val = key
  BY WalletKeepsKey
<1>2. ASSUME wallet.ok
      PROVE  /\ NodeAccepts(once, public)
             /\ ~ NodeAccepts(twice, public)
             /\ Signed(wallet.val, cleared) = once
  <2> HIDE DEF wallet, key, public, from
  <2>1. \A t : SignTransaction(wallet.val, t) = SignPayload(key, t)
    BY <1>1, <1>2 DEF SignTransaction
  <2>2. \A t : Signed(wallet.val, t) = [t EXCEPT !.signature = SignPayload(key, t)]
    BY <2>1 DEF Signed
  <2>3. once = Tx(first)
    BY <2>2
  <2>4. twice = Tx(second)
    BY <2>2, <2>3
  <2>5. cleared = tx /\ [twice EXCEPT !.signature = NoSignature] = tx
    BY <2>3, <2>4
  <2>6. /\ first # NoSignature /\ first[2] = key /\ first[3] = tx
        /\ second # NoSignature /\ second[2] = key /\ second[3] = once
    BY DEF SignPayload, NoSignature
  <2>7. once # tx
    <3>1. once.signature = first /\ tx.signature = NoSignature
      BY <2>3
    <3>2. QED
      BY <2>6, <3>1
  <2>8. /\ once.from = from /\ once.signature = first
        /\ twice.from = from /\ twice.signature = second
    BY <2>3, <2>4
  <2> HIDE DEF tx, first, second, once, twice
  <2>9. VerifySignature(public, tx, first) = Good(TRUE)
    BY <2>6 DEF VerifySignature, public
  <2>10. VerifySignature(public, tx, second) = Good(FALSE)
    BY <2>6, <2>7 DEF VerifySignature, public
  <2>11. Good(TRUE) # Good(FALSE)
    BY DEF Good
  <2>12. NodeAccepts(once, public)
    BY <1>1, <1>2, <2>5, <2>8, <2>9 DEF NodeAccepts
  <2>13. ~ NodeAccepts(twice, public)
    BY <2>5, <2>8, <2>10, <2>11 DEF NodeAccepts
  <2>14. Signed(wallet.val, cleared) = once
    BY <2>5 DEF once
  <2>15. QED
    BY <2>12, <2>13, <2>14
<1>3. QED
  BY <1>1, <1>2 DEF AnySpellingSigns

-----------------------------------------------------------------------------
(* Sequences without some of their elements. *)

\* What is left of the prefixes of s up to the n-th.
KeptUpTo(s, S, n, f) ==
    f = [i \in 0 .. n |-> IF i = 0 THEN <<>>
                          ELSE IF s[i] \in S THEN f[i - 1] ELSE Append(f[i - 1], s[i])]

KeptStep(s, S, f, i) ==
    f[i] = IF s[i] \in S THEN f[i - 1] ELSE Append(f[i - 1], s[i])

LEMMA KeptUpToAt ==
  ASSUME NEW s, NEW S, NEW n \in Nat, NEW f, KeptUpTo(s, S, n, f)
  PROVE  f[0] = <<>> /\ \A i \in 1 .. n : KeptStep(s, S, f, i)
<1> DEFINE left(i) == IF s[i] \in S THEN f[i - 1] ELSE Append(f[i - 1], s[i])
           value(i) == IF i = 0 THEN <<>> ELSE left(i)
<1>1. f = [i \in 0 .. n |-> value(i)]
  BY DEF KeptUpTo
<1> HIDE DEF left
<1>2. f[0] = <<>>
  BY <1>1
<1>3. \A i \in 1 .. n : f[i] = left(i)
  BY <1>1
<1>4. QED
  BY <1>2, <1>3 DEF KeptStep, left

LEMMA KeptUpToBy ==
  ASSUME NEW s, NEW S, NEW n \in Nat, NEW f, f = [i \in 0 .. n |-> f[i]],
         f[0] = <<>>, \A i \in 1 .. n : KeptStep(s, S, f, i)
  PROVE  KeptUpTo(s, S, n, f)
<1> DEFINE left(i) == IF s[i] \in S THEN f[i - 1] ELSE Append(f[i - 1], s[i])
           value(i) == IF i = 0 THEN <<>> ELSE left(i)
<1>1. \A i \in 1 .. n : f[i] = left(i)
  BY DEF KeptStep
<1> HIDE DEF left
<1>2. \A i \in 0 .. n : f[i] = value(i)
  BY <1>1
<1> HIDE DEF value
<1>3. f = [i \in 0 .. n |-> value(i)]
  BY <1>2
<1>4. QED
  BY <1>3 DEF KeptUpTo, value, left

LEMMA KeptUpToExists ==
  ASSUME NEW s, NEW S
  PROVE  \A n \in Nat : \E f : KeptUpTo(s, S, n, f)
<1> DEFINE T == {n \in Nat : \E f : KeptUpTo(s, S, n, f)}
<1>1. 0 \in T
  <2> DEFINE f == [i \in 0 .. 0 |-> <<>>]
  <2>1. f[0] = <<>> /\ f = [i \in 0 .. 0 |-> f[i]] /\ \A i \in 1 .. 0 : KeptStep(s, S, f, i)
    OBVIOUS
  <2> HIDE DEF f
  <2>2. KeptUpTo(s, S, 0, f)
    BY <2>1, KeptUpToBy
  <2>3. QED
    BY <2>2
<1>2. ASSUME NEW n \in Nat, n \in T PROVE n + 1 \in T
  <2>1. PICK f : KeptUpTo(s, S, n, f)
    BY <1>2
  <2>2. f[0] = <<>> /\ \A i \in 1 .. n : KeptStep(s, S, f, i)
    BY <2>1, KeptUpToAt
  <2> DEFINE next == IF s[n + 1] \in S THEN f[n] ELSE Append(f[n], s[n + 1])
             longer == [i \in 0 .. n + 1 |-> IF i = n + 1 THEN next ELSE f[i]]
  <2>3. longer[n + 1] = next /\ \A i \in 0 .. n : longer[i] = f[i]
    OBVIOUS
  <2>4. longer = [i \in 0 .. n + 1 |-> longer[i]]
    OBVIOUS
  <2> HIDE DEF longer
  <2>5. KeptStep(s, S, longer, n + 1)
    <3>1. longer[(n + 1) - 1] = f[n]
      BY <2>3
    <3>2. QED
      BY <2>3, <3>1 DEF KeptStep
  <2>6. ASSUME NEW i \in 1 .. n PROVE KeptStep(s, S, longer, i)
    <3>1. longer[i] = f[i] /\ longer[i - 1] = f[i - 1]
      BY <2>3
    <3>2. QED
      BY <2>2, <3>1 DEF KeptStep
  <2>7. ASSUME NEW i \in 1 .. n + 1 PROVE KeptStep(s, S, longer, i)
    <3>1. i = n + 1 \/ i \in 1 .. n
      OBVIOUS
    <3>2. QED
      BY <2>5, <2>6, <3>1
  <2>8. longer[0] = <<>>
    BY <2>2, <2>3
  <2>9. KeptUpTo(s, S, n + 1, longer)
    BY <2>4, <2>7, <2>8, KeptUpToBy
  <2>10. QED
    BY <2>9
<1> HIDE DEF T
<1>3. \A n \in Nat : n \in T
  BY <1>1, <1>2, NatSetInduction
<1>4. QED
  BY <1>3 DEF T

\* What is left of the prefixes of s.
Keeps(s, S, f) ==
    /\ f[0] = <<>>
    /\ \A i \in 1 .. Len(s) : KeptStep(s, S, f, i)
    /\ Without(s, S) = f[Len(s)]

LEMMA WithoutByPrefix ==
  ASSUME NEW s, Len(s) \in Nat, NEW S
  PROVE  \E f : Keeps(s, S, f)
<1> DEFINE kept == CHOOSE f : KeptUpTo(s, S, Len(s), f)
<1>1. Without(s, S) = kept[Len(s)]
  BY Zenon DEF Without, KeptUpTo
<1>2. KeptUpTo(s, S, Len(s), kept)
  BY KeptUpToExists
<1> HIDE DEF kept
<1>3. kept[0] = <<>> /\ \A i \in 1 .. Len(s) : KeptStep(s, S, kept, i)
  BY <1>2, KeptUpToAt
<1>4. QED
  BY <1>1, <1>3 DEF Keeps

\* The part of t from k + 1 on is s, but for elements left out of both.
Covers(t, k, s, S) ==
    /\ k \in Nat /\ Len(s) \in Nat /\ Len(t) \in Nat /\ k + Len(s) <= Len(t)
    /\ \A i \in 1 .. Len(s) : t[k + i] = s[i] \/ (t[k + i] \in S /\ s[i] \in S)
    /\ \A i \in 1 .. Len(t) : i <= k \/ i > k + Len(s) => t[i] \in S

\* Then as much is left of it as of s.
LEMMA WithoutCovered ==
  ASSUME NEW s, NEW t, NEW S, NEW k, Covers(t, k, s, S)
  PROVE  Without(t, S) = Without(s, S)
<1> DEFINE n == Len(s)
           m == Len(t)
<1>1. /\ k \in Nat /\ n \in Nat /\ m \in Nat /\ k + n <= m
      /\ \A i \in 1 .. n : t[k + i] = s[i] \/ (t[k + i] \in S /\ s[i] \in S)
      /\ \A i \in 1 .. m : i <= k \/ i > k + n => t[i] \in S
  BY DEF Covers
<1>2. PICK f : Keeps(s, S, f)
  BY <1>1, WithoutByPrefix
<1>3. PICK g : Keeps(t, S, g)
  BY <1>1, WithoutByPrefix
<1>4. /\ f[0] = <<>> /\ Without(s, S) = f[n]
      /\ \A i \in 1 .. n : f[i] = IF s[i] \in S THEN f[i - 1] ELSE Append(f[i - 1], s[i])
      /\ g[0] = <<>> /\ Without(t, S) = g[m]
      /\ \A i \in 1 .. m : g[i] = IF t[i] \in S THEN g[i - 1] ELSE Append(g[i - 1], t[i])
  BY <1>2, <1>3 DEF Keeps, KeptStep
<1> HIDE DEF n, m
<1> DEFINE A == {i \in Nat : g[i] = <<>>}
           B == {i \in Nat : g[k + i] = f[i]}
           C == {i \in Nat : g[k + n + i] = f[n]}
<1>5. k \in A
  <2>1. 0 \in A
    BY <1>4
  <2>2. ASSUME NEW i \in 0 .. k - 1, i \in A PROVE i + 1 \in A
    <3>1. i + 1 \in 1 .. m /\ (i + 1) - 1 = i /\ t[i + 1] \in S
      BY <1>1
    <3>2. g[i + 1] = g[i]
      BY <1>4, <3>1
    <3>3. QED
      BY <2>2, <3>2
  <2> HIDE DEF A
  <2>3. \A i \in 0 .. k : i \in A
    BY <1>1, <2>1, <2>2, BoundedInduction
  <2>4. QED
    BY <1>1, <2>3
<1>6. n \in B
  <2>1. 0 \in B
    BY <1>1, <1>4, <1>5
  <2>2. ASSUME NEW i \in 0 .. n - 1, i \in B PROVE i + 1 \in B
    <3>1. /\ i + 1 \in 1 .. n /\ (i + 1) - 1 = i
          /\ k + (i + 1) \in 1 .. m /\ (k + (i + 1)) - 1 = k + i
      BY <1>1
    <3>2. g[k + i] = f[i]
      BY <2>2
    <3>3. /\ f[i + 1] = IF s[i + 1] \in S THEN f[i] ELSE Append(f[i], s[i + 1])
          /\ g[k + (i + 1)] = IF t[k + (i + 1)] \in S THEN g[k + i]
                              ELSE Append(g[k + i], t[k + (i + 1)])
      BY <1>4, <3>1
    <3>4. \/ t[k + (i + 1)] = s[i + 1]
          \/ t[k + (i + 1)] \in S /\ s[i + 1] \in S
      BY <1>1, <3>1
    <3>5. g[k + (i + 1)] = f[i + 1]
      BY Zenon, <3>2, <3>3, <3>4
    <3>6. QED
      BY <3>5
  <2> HIDE DEF B
  <2>3. \A i \in 0 .. n : i \in B
    BY <1>1, <2>1, <2>2, BoundedInduction
  <2>4. QED
    BY <1>1, <2>3
<1>7. m - (k + n) \in C
  <2>1. 0 \in C
    BY <1>1, <1>6
  <2>2. ASSUME NEW i \in 0 .. (m - (k + n)) - 1, i \in C PROVE i + 1 \in C
    <3>1. /\ k + n + (i + 1) \in 1 .. m /\ (k + n + (i + 1)) - 1 = k + n + i
          /\ t[k + n + (i + 1)] \in S
      BY <1>1
    <3>2. g[k + n + (i + 1)] = g[k + n + i]
      BY <1>4, <3>1
    <3>3. QED
      BY <2>2, <3>2
  <2>3. m - (k + n) \in Nat
    BY <1>1
  <2> HIDE DEF C
  <2>4. \A i \in 0 .. m - (k + n) : i \in C
    BY <2>1, <2>2, <2>3, BoundedInduction
  <2>5. QED
    BY <2>3, <2>4
<1>8. g[m] = f[n]
  BY <1>1, <1>7
<1>9. QED
  BY <1>4, <1>8

-----------------------------------------------------------------------------
(* Transaction ids. *)

Soft == {"q", "esc", "sp"}

LEMMA MinAndMax ==
  ASSUME NEW n \in Nat, NEW B, B \subseteq 1 .. n, B # {}
  PROVE  /\ Min(B) \in B /\ Max(B) \in B
         /\ \A x \in B : Min(B) <= x /\ x <= Max(B)
<1>1. \E x \in B : \A y \in B : x <= y
  <2>1. B \subseteq Nat
    OBVIOUS
  <2>2. QED
    BY <2>1, LeastElement
<1>2. \E x \in B : \A y \in B : x >= y
  <2> DEFINE C == {n - x : x \in B}
  <2>1. \A x \in B : n - x \in Nat
    OBVIOUS
  <2>2. C \subseteq Nat /\ C # {}
    BY <2>1
  <2> HIDE DEF C
  <2>3. PICK c \in C : \A d \in C : c <= d
    BY <2>2, LeastElement
  <2>4. PICK x \in B : c = n - x
    BY DEF C
  <2>5. ASSUME NEW y \in B PROVE x >= y
    <3>1. n - y \in C
      BY DEF C
    <3>2. n - x <= n - y
      BY <2>3, <2>4, <3>1
    <3>3. QED
      BY <3>2
  <2>6. QED
    BY <2>5
<1>3. Min(B) \in B /\ \A y \in B : Min(B) <= y
  BY <1>1 DEF Min
<1>4. Max(B) \in B /\ \A y \in B : Max(B) >= y
  BY <1>2 DEF Max
<1>5. QED
  BY <1>3, <1>4

LEMMA PartOfSeq ==
  ASSUME NEW X, NEW s \in Seq(X), NEW a \in 1 .. Len(s) + 1, NEW b \in a - 1 .. Len(s)
  PROVE  LET part == SubSeq(s, a, b)
         IN /\ part \in Seq(X) /\ Len(part) = b - a + 1
            /\ \A i \in 1 .. b - a + 1 : part[i] = s[a - 1 + i]
<1> DEFINE part == SubSeq(s, a, b)
<1>1. a \in Int /\ b \in Int /\ \A i \in a .. b : s[i] \in X
  OBVIOUS
<1>2. /\ part \in Seq(X) /\ Len(part) = IF a <= b THEN b - a + 1 ELSE 0
      /\ \A i \in 1 .. b - a + 1 : part[i] = s[a + i - 1]
  BY <1>1, SubSeqProperties
<1> HIDE DEF part
<1>3. Len(part) = b - a + 1
  BY <1>2
<1>4. ASSUME NEW i \in 1 .. b - a + 1 PROVE part[i] = s[a - 1 + i]
  <2>1. a + i - 1 = a - 1 + i
    OBVIOUS
  <2>2. QED
    BY <1>2, <2>1
<1>5. QED
  BY <1>2, <1>3, <1>4 DEF part

\* Nothing is left to be trimmed.
Trimmed(s) == Len(s) >= 1 => s[1] # "sp" /\ s[Len(s)] # "sp"

LEMMA TrimCovers ==
  ASSUME NEW X, NEW text \in Seq(X)
  PROVE  /\ Trim(text) \in Seq(X) /\ Trimmed(Trim(text))
         /\ \E k : Covers(text, k, Trim(text), Soft)
         /\ \A i \in 1 .. Len(Trim(text)) : \E j \in 1 .. Len(text) : Trim(text)[i] = text[j]
<1> DEFINE solid == {i \in DOMAIN text : text[i] # "sp"}
           n == Len(text)
           t == Trim(text)
<1>1. n \in Nat /\ DOMAIN text = 1 .. n
  OBVIOUS
<1>2. CASE solid = {}
  <2>1. t = <<>>
    BY <1>2 DEF Trim
  <2>2. \A i \in 1 .. n : text[i] \in Soft
    BY <1>1, <1>2 DEF Soft
  <2>3. t \in Seq(X) /\ Len(t) = 0
    BY <2>1
  <2> HIDE DEF t
  <2>4. Covers(text, 0, t, Soft)
    BY <1>1, <2>2, <2>3 DEF Covers
  <2>5. Trimmed(t) /\ \A i \in 1 .. Len(t) : \E j \in 1 .. n : t[i] = text[j]
    BY <2>3 DEF Trimmed
  <2>6. QED
    BY <2>3, <2>4, <2>5 DEF t
<1>3. CASE solid # {}
  <2> DEFINE a == Min(solid)
             b == Max(solid)
  <2>1. t = SubSeq(text, a, b)
    BY Zenon, <1>3 DEF Trim
  <2>2. solid \subseteq 1 .. n
    BY <1>1
  <2> HIDE DEF solid
  <2>3. a \in solid /\ b \in solid /\ \A x \in solid : a <= x /\ x <= b
    BY <1>1, <1>3, <2>2, MinAndMax
  <2> HIDE DEF a, b, n, t
  <2>4. /\ a \in 1 .. n /\ b \in a .. n
        /\ text[a] # "sp" /\ text[b] # "sp"
        /\ \A i \in 1 .. n : i < a \/ i > b => text[i] = "sp"
    BY <1>1, <2>2, <2>3 DEF solid
  <2>5. /\ t \in Seq(X) /\ Len(t) = b - a + 1
        /\ \A i \in 1 .. b - a + 1 : t[i] = text[a - 1 + i]
    <3>1. a \in 1 .. Len(text) + 1 /\ b \in a - 1 .. Len(text)
      BY <1>1, <2>4 DEF n
    <3>2. QED
      BY <2>1, <3>1, PartOfSeq
  <2>6. Covers(text, a - 1, t, Soft)
    <3>1. ASSUME NEW i \in 1 .. n, i <= a - 1 \/ i > a - 1 + Len(t) PROVE text[i] \in Soft
      <4>1. i < a \/ i > b
        BY <1>1, <2>4, <2>5, <3>1
      <4>2. QED
        BY <2>4, <4>1 DEF Soft
    <3>2. /\ a - 1 \in Nat /\ Len(t) \in Nat /\ Len(text) \in Nat
          /\ a - 1 + Len(t) <= Len(text)
      BY <1>1, <2>4, <2>5 DEF n
    <3>3. QED
      BY <2>5, <3>1, <3>2 DEF Covers, n
  <2>7. Trimmed(t)
    <3>1. t[1] = text[a] /\ t[Len(t)] = text[b]
      <4>1. 1 \in 1 .. b - a + 1 /\ Len(t) \in 1 .. b - a + 1
        BY <1>1, <2>4, <2>5
      <4>2. a - 1 + 1 = a /\ a - 1 + Len(t) = b
        BY <1>1, <2>4, <2>5
      <4>3. QED
        BY <2>5, <4>1, <4>2
    <3>2. QED
      BY <2>4, <3>1 DEF Trimmed
  <2>8. ASSUME NEW i \in 1 .. Len(t) PROVE \E j \in 1 .. n : t[i] = text[j]
    <3>1. a - 1 + i \in 1 .. n /\ i \in 1 .. b - a + 1
      BY <1>1, <2>4, <2>5
    <3>2. QED
      BY <2>5, <3>1
  <2>9. QED
    BY <2>5, <2>6, <2>7, <2>8 DEF t, n
<1>4. QED
  BY <1>2, <1>3

LEMMA TrimOfTrimmed ==
  ASSUME NEW X, NEW s \in Seq(X), Trimmed(s)
  PROVE  Trim(s) = s
<1> DEFINE solid == {i \in DOMAIN s : s[i] # "sp"}
           n == Len(s)
<1>1. n \in Nat /\ DOMAIN s = 1 .. n
  OBVIOUS
<1>2. CASE n = 0
  <2>1. s = <<>> /\ solid = {}
    BY <1>1, <1>2
  <2>2. QED
    BY <2>1 DEF Trim
<1>3. CASE n >= 1
  <2>1. 1 \in solid /\ n \in solid /\ solid \subseteq 1 .. n
    BY <1>1, <1>3 DEF Trimmed
  <2>2. Trim(s) = SubSeq(s, Min(solid), Max(solid))
    BY <2>1 DEF Trim
  <2> HIDE DEF solid
  <2>3. Min(solid) = 1 /\ Max(solid) = n
    <3>1. /\ Min(solid) \in solid /\ Max(solid) \in solid
          /\ \A x \in solid : Min(solid) <= x /\ x <= Max(solid)
      BY <1>1, <2>1, MinAndMax
    <3>2. /\ Min(solid) \in 1 .. n /\ Max(solid) \in 1 .. n
          /\ Min(solid) <= 1 /\ n <= Max(solid)
      BY <2>1, <3>1
    <3> HIDE DEF n
    <3>3. QED
      BY <1>1, <3>2
  <2>4. QED
    BY <2>2, <2>3, SubSeqFull
<1>4. QED
  BY <1>1, <1>2, <1>3

\* Quotes around a text are all that is stripped of it besides white space.
LEMMA StripKeeps ==
  ASSUME NEW X, NEW text \in Seq(X)
  PROVE  /\ StripTransactionIdQuotes(text) \in Seq(X)
         /\ Solid(StripTransactionIdQuotes(text)) = Solid(text)
<1> DEFINE t == Trim(text)
           inner == SubSeq(t, 2, Len(t) - 1)
<1>1. t \in Seq(X) /\ Len(t) \in Nat
  BY TrimCovers
<1>2. Solid(t) = Solid(text)
  BY TrimCovers, WithoutCovered DEF Solid, Soft
<1> HIDE DEF t
<1>3. CASE Len(t) >= 2 /\ t[1] = "q" /\ t[Len(t)] = "q"
  <2>1. StripTransactionIdQuotes(text) = inner
    BY <1>3 DEF StripTransactionIdQuotes, t
  <2>2. 2 \in 1 .. Len(t) + 1 /\ Len(t) - 1 \in 2 - 1 .. Len(t) /\ Len(t) - 1 - 2 + 1 = Len(t) - 2
    BY <1>1, <1>3
  <2>3. /\ inner \in Seq(X) /\ Len(inner) = Len(t) - 2
        /\ \A i \in 1 .. Len(t) - 2 : inner[i] = t[2 - 1 + i]
    <3>1. /\ inner \in Seq(X) /\ Len(inner) = Len(t) - 1 - 2 + 1
          /\ \A i \in 1 .. Len(t) - 1 - 2 + 1 : inner[i] = t[2 - 1 + i]
      BY <1>1, <2>2, PartOfSeq
    <3>2. QED
      BY <2>2, <3>1
  <2> HIDE DEF inner
  <2>4. Covers(t, 1, inner, Soft)
    <3>1. ASSUME NEW i \in 1 .. Len(t), i <= 1 \/ i > 1 + Len(inner) PROVE t[i] \in Soft
      <4>1. i = 1 \/ i = Len(t)
        BY <1>1, <2>3, <3>1
      <4>2. QED
        BY <1>3, <4>1 DEF Soft
    <3>2. /\ Len(inner) \in Nat /\ 1 + Len(inner) <= Len(t)
          /\ \A i \in 1 .. Len(inner) : t[1 + i] = inner[i]
      BY <1>1, <1>3, <2>3
    <3>3. QED
      BY <1>1, <3>1, <3>2 DEF Covers
  <2>5. Solid(inner) = Solid(t)
    BY <2>4, WithoutCovered DEF Solid, Soft
  <2>6. QED
    BY <1>2, <2>1, <2>3, <2>5
<1>4. CASE ~ (Len(t) >= 2 /\ t[1] = "q" /\ t[Len(t)] = "q")
  <2>1. StripTransactionIdQuotes(text) = t
    BY Zenon, <1>4 DEF StripTransactionIdQuotes, t
  <2>2. QED
    BY <1>1, <1>2, <2>1
<1>5. QED
  BY <1>3, <1>4

LEMMA JsonKeeps ==
  ASSUME NEW X, "q" \in X, NEW text \in Seq(X)
  PROVE  JsonString(text) \in Seq(X) /\ Solid(JsonString(text)) = Solid(text)
<1> DEFINE inner == StripTransactionIdQuotes(text)
           read == JsonString(text)
<1>1. inner \in Seq(X) /\ Solid(inner) = Solid(text)
  BY StripKeeps
<1>2. read = [i \in DOMAIN inner |-> IF inner[i] = "esc" THEN "q" ELSE inner[i]]
  BY DEF JsonString
<1> HIDE DEF inner, read
<1>3. Len(inner) \in Nat /\ DOMAIN inner = 1 .. Len(inner)
  BY <1>1
<1>4. /\ read \in Seq(X) /\ Len(read) = Len(inner)
      /\ \A i \in 1 .. Len(inner) : read[i] = IF inner[i] = "esc" THEN "q" ELSE inner[i]
  BY <1>1, <1>2, <1>3
<1>5. Covers(inner, 0, read, Soft)
  <2>1. ASSUME NEW i \in 1 .. Len(read)
        PROVE  inner[0 + i] = read[i] \/ (inner[0 + i] \in Soft /\ read[i] \in Soft)
    <3>1. 0 + i = i /\ i \in 1 .. Len(inner)
      BY <1>4
    <3>2. QED
      BY <1>4, <3>1 DEF Soft
  <2>2. ~ \E i \in 1 .. Len(inner) : i <= 0 \/ i > 0 + Len(read)
    BY <1>3, <1>4
  <2>3. QED
    BY <1>3, <1>4, <2>1, <2>2 DEF Covers
<1>6. Solid(read) = Solid(inner)
  BY <1>5, WithoutCovered DEF Solid, Soft
<1>7. QED
  BY <1>1, <1>4, <1>6 DEF read

ValidIds == {<<"hex64">>, <<"0x", "hex64">>, <<"0X", "hex64">>}

LEMMA AppendToOne ==
  ASSUME NEW S, NEW a \in S, NEW b \in S
  PROVE  Append(<<a>>, b) = <<a, b>>
<1> DEFINE two == Append(<<a>>, b)
<1>1. <<a>> \in Seq(S) /\ Len(<<a>>) = 1 /\ <<a>>[1] = a
  OBVIOUS
<1>2. /\ two \in Seq(S) /\ Len(two) = Len(<<a>>) + 1 /\ two[Len(<<a>>) + 1] = b
      /\ \A i \in 1 .. Len(<<a>>) : two[i] = <<a>>[i]
  BY <1>1, AppendProperties
<1> HIDE DEF two
<1>3. two \in Seq(S) /\ Len(two) = 2 /\ two[1] = a /\ two[2] = b
  BY <1>1, <1>2
<1>4. two = <<a, b>>
  BY <1>3
<1>5. QED
  BY <1>4 DEF two

IdTokens == {"hex64", "0x", "0X"}

\* A text of one or two tokens of an id is as it is left by all that is done
\* to a text.
LEMMA ShortTextsStay ==
  ASSUME NEW a \in IdTokens, NEW b \in IdTokens, NEW id \in {<<a>>, <<a, b>>}
  PROVE  StripTransactionIdQuotes(id) = id /\ Solid(id) = id
<1>1. id \in Seq(IdTokens) /\ Len(id) \in 1 .. 2
  <2>1. CASE id = <<a>>
    BY <2>1
  <2>2. CASE id = <<a, b>>
    BY <2>2
  <2>3. QED
    BY <2>1, <2>2
<1>2. \A i \in 1 .. Len(id) : id[i] \notin Soft
  <2>1. \A t \in IdTokens : t \notin Soft
    BY DEF IdTokens, Soft
  <2>2. QED
    BY <1>1, <2>1
<1>3. Trim(id) = id
  <2>1. Trimmed(id)
    BY <1>1, <1>2 DEF Trimmed, Soft
  <2>2. QED
    BY <1>1, <2>1, TrimOfTrimmed
<1>4. id[1] # "q"
  BY <1>1, <1>2 DEF Soft
<1>5. StripTransactionIdQuotes(id) = id
  BY Zenon, <1>3, <1>4 DEF StripTransactionIdQuotes
<1>6. PICK f : Keeps(id, Soft, f)
  BY <1>1, WithoutByPrefix
<1>7. /\ f[0] = <<>> /\ Solid(id) = f[Len(id)]
      /\ \A i \in 1 .. Len(id) : f[i] = Append(f[i - 1], id[i])
  BY <1>2, <1>6 DEF Keeps, KeptStep, Solid, Soft
<1>8. f[1] = Append(<<>>, id[1])
  BY <1>1, <1>7
<1>9. Solid(id) = id
  <2>1. CASE id = <<a>>
    <3>1. Len(id) = 1 /\ id[1] = a
      BY <2>1
    <3>2. Solid(id) = Append(<<>>, a)
      BY <1>7, <1>8, <3>1
    <3>3. Append(<<>>, a) = <<a>>
      OBVIOUS
    <3>4. QED
      BY <2>1, <3>2, <3>3
  <2>2. CASE id = <<a, b>>
    <3>1. Len(id) = 2 /\ id[1] = a /\ id[2] = b /\ 2 - 1 = 1 /\ 2 \in 1 .. 2
      BY <2>2
    <3>2. f[2] = Append(f[1], id[2])
      BY <1>7, <3>1
    <3>3. Solid(id) = Append(Append(<<>>, a), b)
      BY <1>7, <1>8, <3>1, <3>2
    <3>4. Append(<<>>, a) = <<a>>
      OBVIOUS
    <3>5. Append(<<a>>, b) = <<a, b>>
      BY AppendToOne
    <3>6. QED
      BY Zenon, <2>2, <3>3, <3>4, <3>5
  <2>3. QED
    BY <2>1, <2>2
<1>10. QED
  BY <1>5, <1>9

LEMMA ValidIdsStay ==
  ASSUME NEW id \in ValidIds
  PROVE  StripTransactionIdQuotes(id) = id /\ Solid(id) = id
<1>1. /\ "hex64" \in IdTokens /\ "0x" \in IdTokens /\ "0X" \in IdTokens
      /\ id \in {<<"hex64">>, <<"hex64", "hex64">>} \/ id \in {<<"0x">>, <<"0x", "hex64">>}
           \/ id \in {<<"0X">>, <<"0X", "hex64">>}
  BY DEF ValidIds, IdTokens
<1>2. QED
  BY <1>1, ShortTextsStay

LEMMA ValidateSound ==
  ASSUME NEW X, NEW text \in Seq(X), ValidateTransactionId(text).ok
  PROVE  LET id == ValidateTransactionId(text).val
         IN /\ id = StripTransactionIdQuotes(text)
            /\ IsValidTransactionId(Solid(id)) /\ Solid(id) = Solid(text)
<1> DEFINE id == StripTransactionIdQuotes(text)
           core == StripTransactionIdQuotes(id)
<1>1. ValidateTransactionId(text) = Ok(id) /\ IsValidTransactionId(id)
  BY DEF ValidateTransactionId, Ok, Err
<1>2. ValidateTransactionId(text).val = id
  BY <1>1 DEF Ok
<1>3. id \in Seq(X) /\ Solid(id) = Solid(text)
  BY StripKeeps
<1>4. Solid(core) = Solid(id)
  <2> HIDE DEF id
  <2>1. QED
    BY <1>3, StripKeeps
<1>5. core \in ValidIds
  BY <1>1 DEF IsValidTransactionId, ValidIds
<1> HIDE DEF id, core
<1>6. Solid(core) = core /\ StripTransactionIdQuotes(core) = core
  BY <1>5, ValidIdsStay
<1>7. IsValidTransactionId(core)
  BY <1>5, <1>6 DEF IsValidTransactionId, ValidIds
<1>8. QED
  BY <1>2, <1>3, <1>4, <1>6, <1>7 DEF id

\* A text without quotes is only trimmed.
NoQuotes(text) == \A i \in 1 .. Len(text) : text[i] \notin {"q", "esc"}

LEMMA PlainIsTrimmed ==
  ASSUME NEW X, NEW text \in Seq(X), NoQuotes(text)
  PROVE  /\ StripTransactionIdQuotes(text) = Trim(text)
         /\ StripTransactionIdQuotes(Trim(text)) = Trim(text)
         /\ ~ IsJsonString(text)
<1> DEFINE t == Trim(text)
<1>1. /\ t \in Seq(X) /\ Trimmed(t) /\ Len(t) \in Nat
      /\ \A i \in 1 .. Len(t) : \E j \in 1 .. Len(text) : t[i] = text[j]
  BY TrimCovers
<1> HIDE DEF t
<1>2. Trim(t) = t
  BY <1>1, TrimOfTrimmed
<1>3. ~ (Len(t) >= 2 /\ t[1] = "q" /\ t[Len(t)] = "q")
  <2>1. Len(t) >= 2 => t[1] # "q"
    BY <1>1 DEF NoQuotes
  <2>2. QED
    BY <2>1
<1>4. StripTransactionIdQuotes(text) = t
  BY Zenon, <1>3 DEF StripTransactionIdQuotes, t
<1>5. StripTransactionIdQuotes(t) = t
  BY Zenon, <1>2, <1>3 DEF StripTransactionIdQuotes
<1>6. ~ IsJsonString(text)
  BY <1>3 DEF IsJsonString, t
<1>7. QED
  BY <1>4, <1>5, <1>6 DEF t

\* A text put between quotes is read as that text.
LEMMA QuotedIsRead ==
  ASSUME NEW X, "q" \in X, NEW text \in Seq(X), NoQuotes(text)
  PROVE  LET quoted == <<"q">> \o text \o <<"q">>
         IN IsJsonString(quoted) /\ JsonString(quoted) = text
<1> DEFINE q == <<"q">>
           front == q \o text
           quoted == front \o q
           n == Len(text)
<1>1. q \in Seq(X) /\ Len(q) = 1 /\ q[1] = "q" /\ n \in Nat
  OBVIOUS
<1> HIDE DEF q
<1>2. /\ front \in Seq(X) /\ Len(front) = n + 1 /\ front[1] = "q"
      /\ \A i \in 1 .. n : front[1 + i] = text[i]
  <2>1. /\ front \in Seq(X) /\ Len(front) = Len(q) + Len(text)
        /\ \A i \in 1 .. Len(q) + Len(text) :
              front[i] = IF i <= Len(q) THEN q[i] ELSE text[i - Len(q)]
    BY <1>1, ConcatProperties
  <2> HIDE DEF front
  <2>2. ASSUME NEW i \in 1 .. n PROVE front[1 + i] = text[i]
    <3>1. 1 + i \in 1 .. Len(q) + Len(text) /\ ~ 1 + i <= Len(q) /\ (1 + i) - Len(q) = i
      BY <1>1
    <3>2. QED
      BY <2>1, <3>1
  <2>3. Len(front) = n + 1 /\ front[1] = "q"
    BY <1>1, <2>1
  <2>4. QED
    BY <2>1, <2>2, <2>3
<1> HIDE DEF front
<1>3. /\ quoted \in Seq(X) /\ Len(quoted) = n + 2
      /\ quoted[1] = "q" /\ quoted[n + 2] = "q"
      /\ \A i \in 1 .. n : quoted[1 + i] = text[i]
  <2>1. /\ quoted \in Seq(X) /\ Len(quoted) = Len(front) + Len(q)
        /\ \A i \in 1 .. Len(front) + Len(q) :
              quoted[i] = IF i <= Len(front) THEN front[i] ELSE q[i - Len(front)]
    BY <1>1, <1>2, ConcatProperties
  <2> HIDE DEF quoted
  <2>2. Len(quoted) = n + 2
    BY <1>1, <1>2, <2>1
  <2>3. ASSUME NEW i \in 1 .. n + 1 PROVE quoted[i] = front[i]
    <3>1. i \in 1 .. Len(front) + Len(q) /\ i <= Len(front)
      BY <1>1, <1>2
    <3>2. QED
      BY <2>1, <3>1
  <2>4. quoted[n + 2] = "q"
    <3>1. /\ n + 2 \in 1 .. Len(front) + Len(q) /\ ~ n + 2 <= Len(front)
          /\ (n + 2) - Len(front) = 1
      BY <1>1, <1>2
    <3>2. QED
      BY <1>1, <2>1, <3>1
  <2>5. ASSUME NEW i \in 1 .. n PROVE quoted[1 + i] = text[i]
    <3>1. 1 + i \in 1 .. n + 1
      BY <1>1
    <3>2. QED
      BY <1>2, <2>3, <3>1
  <2>6. QED
    BY <1>1, <1>2, <2>1, <2>2, <2>3, <2>4, <2>5
<1> HIDE DEF quoted
<1>4. Trim(quoted) = quoted
  <2>1. Trimmed(quoted)
    BY <1>1, <1>3 DEF Trimmed
  <2>2. QED
    BY <1>3, <2>1, TrimOfTrimmed
<1>5. Len(quoted) >= 2 /\ quoted[1] = "q" /\ quoted[Len(quoted)] = "q"
  BY <1>1, <1>3
<1>6. IsJsonString(quoted)
  <2>1. ASSUME NEW i \in 2 .. Len(quoted) - 1 PROVE quoted[i] # "q"
    <3>1. i - 1 \in 1 .. n /\ 1 + (i - 1) = i
      BY <1>1, <1>3
    <3>2. QED
      BY <1>3, <3>1 DEF NoQuotes
  <2>2. QED
    BY <1>4, <1>5, <2>1 DEF IsJsonString
<1>7. StripTransactionIdQuotes(quoted) = text
  <2> DEFINE inner == SubSeq(quoted, 2, Len(quoted) - 1)
  <2>1. StripTransactionIdQuotes(quoted) = inner
    BY Zenon, <1>4, <1>5 DEF StripTransactionIdQuotes
  <2>2. /\ inner \in Seq(X) /\ Len(inner) = Len(quoted) - 1 - 2 + 1
        /\ \A i \in 1 .. Len(quoted) - 1 - 2 + 1 : inner[i] = quoted[2 - 1 + i]
    <3>1. 2 \in 1 .. Len(quoted) + 1 /\ Len(quoted) - 1 \in 2 - 1 .. Len(quoted)
      BY <1>1, <1>3
    <3>2. QED
      BY <1>3, <3>1, PartOfSeq
  <2> HIDE DEF inner
  <2>3. Len(inner) = n /\ \A i \in 1 .. n : inner[i] = text[i]
    BY <1>1, <1>3, <2>2
  <2>4. inner = text
    BY <2>2, <2>3, SeqEqual
  <2>5. QED
    BY <2>1, <2>4
<1>8. JsonString(quoted) = text
  <2> DEFINE value(i) == IF text[i] = "esc" THEN "q" ELSE text[i]
  <2>1. JsonString(quoted) = [i \in DOMAIN text |-> value(i)]
    BY <1>7 DEF JsonString
  <2>2. \A i \in DOMAIN text : value(i) = text[i]
    BY <1>1 DEF NoQuotes
  <2>3. text = [i \in DOMAIN text |-> text[i]]
    OBVIOUS
  <2> HIDE DEF value
  <2>4. QED
    BY <2>1, <2>2, <2>3
<1>9. QED
  BY <1>6, <1>8 DEF quoted, front, q

LEMMA SameIdHolds ==
  ASSUME NEW response \in SentResponses
  PROVE  SameIdInEveryShape(response)
<1> DEFINE X == STRING \cup {"q"}
           body == response.body
           r == SendTransaction(response)
           quoted == <<"q">> \o body \o <<"q">>
           wrapped == [shape |-> "text", body |-> quoted]
           plain == \A i \in DOMAIN body : body[i] \notin {"q", "esc"}
<1>1. "q" \in X /\ body \in Seq(X)
  BY SeqMonotonic DEF SentResponses
<1> HIDE DEF X
<1>2. DOMAIN body = 1 .. Len(body)
  BY <1>1
<1>3. \/ r = ValidateTransactionId(body)
      \/ r = ValidateTransactionId(JsonString(body))
  BY DEF SendTransaction
<1>4. ASSUME r.ok
      PROVE  IsValidTransactionId(Solid(r.val)) /\ Solid(r.val) = Solid(body)
  <2> HIDE DEF body, r
  <2>1. CASE r = ValidateTransactionId(body)
    BY <1>1, <1>4, <2>1, ValidateSound
  <2>2. CASE r = ValidateTransactionId(JsonString(body))
    <3>1. JsonString(body) \in Seq(X) /\ Solid(JsonString(body)) = Solid(body)
      BY <1>1, JsonKeeps
    <3>2. QED
      BY <1>4, <2>2, <3>1, ValidateSound
  <2>3. QED
    BY <1>3, <2>1, <2>2
<1>5. ASSUME plain
      PROVE  /\ r = ValidateTransactionId(Trim(body))
             /\ r = SendTransaction(wrapped)
             /\ r.ok => r.val = Trim(body)
  <2>1. NoQuotes(body)
    BY <1>2, <1>5 DEF NoQuotes
  <2> HIDE DEF body, plain
  <2>2. /\ StripTransactionIdQuotes(body) = Trim(body)
        /\ StripTransactionIdQuotes(Trim(body)) = Trim(body) /\ ~ IsJsonString(body)
    BY <1>1, <2>1, PlainIsTrimmed
  <2>3. IsJsonString(quoted) /\ JsonString(quoted) = body
    BY <1>1, <2>1, QuotedIsRead
  <2>4. r = ValidateTransactionId(body)
    BY Zenon, <2>2 DEF SendTransaction, r, body
  <2> HIDE DEF r, quoted
  <2>5. ValidateTransactionId(Trim(body)) = ValidateTransactionId(body)
    BY <2>2 DEF ValidateTransactionId
  <2>6. SendTransaction(wrapped) = ValidateTransactionId(body)
    <3>1. wrapped.shape = "text" /\ wrapped.body = quoted
      OBVIOUS
    <3> HIDE DEF wrapped
    <3>2. QED
      BY <2>3, <3>1 DEF SendTransaction
  <2>7. r.ok => r.val = Trim(body)
    BY <1>1, <2>2, <2>4, ValidateSound
  <2>8. QED
    BY <2>4, <2>5, <2>6, <2>7
<1>6. QED
  BY Zenon, <1>4, <1>5 DEF SameIdInEveryShape

-----------------------------------------------------------------------------
(* Block height maps. *)

Occurs(e, s) == \E i \in 1 .. Len(s) : s[i] = e

LEMMA OccursInAppend ==
  ASSUME NEW X, NEW s \in Seq(X), NEW x \in X
  PROVE  /\ Append(s, x) \in Seq(X)
         /\ \A e : Occurs(e, Append(s, x)) <=> Occurs(e, s) \/ e = x
<1> DEFINE t == Append(s, x)
           n == Len(s)
<1>1. /\ n \in Nat /\ t \in Seq(X) /\ Len(t) = n + 1 /\ t[n + 1] = x
      /\ \A i \in 1 .. n : t[i] = s[i]
  BY AppendProperties
<1> HIDE DEF t
<1>2. ASSUME NEW e PROVE Occurs(e, t) <=> Occurs(e, s) \/ e = x
  <2>1. \A i \in 1 .. n + 1 : i \in 1 .. n \/ i = n + 1
    BY <1>1
  <2>2. n + 1 \in 1 .. n + 1 /\ \A i \in 1 .. n : i \in 1 .. n + 1
    BY <1>1
  <2>3. QED
    BY <1>1, <2>1, <2>2 DEF Occurs
<1>3. QED
  BY <1>1, <1>2 DEF t

\* What is left of a sequence is what is not left out.
LEMMA OccursInWithout ==
  ASSUME NEW X, NEW s \in Seq(X), NEW S
  PROVE  /\ Without(s, S) \in Seq(X)
         /\ \A e : Occurs(e, Without(s, S)) <=> Occurs(e, s) /\ e \notin S
<1> DEFINE n == Len(s)
           Left(t, i) ==
              /\ t \in Seq(X)
              /\ \A e : Occurs(e, t) <=> (\E j \in 1 .. i : s[j] = e) /\ e \notin S
<1>1. n \in Nat /\ \A i \in 1 .. n : s[i] \in X
  OBVIOUS
<1>2. PICK f : Keeps(s, S, f)
  BY <1>1, WithoutByPrefix
<1>3. /\ f[0] = <<>> /\ Without(s, S) = f[n]
      /\ \A i \in 1 .. n : f[i] = IF s[i] \in S THEN f[i - 1] ELSE Append(f[i - 1], s[i])
  BY <1>2 DEF Keeps, KeptStep
<1> DEFINE A == {i \in Nat : Left(f[i], i)}
<1>4. 0 \in A
  <2>1. f[0] \in Seq(X) /\ \A e : ~ Occurs(e, f[0])
    BY <1>3 DEF Occurs
  <2>2. Left(f[0], 0)
    BY <2>1
  <2> HIDE DEF Left
  <2>3. QED
    BY <2>2
<1>5. ASSUME NEW i \in 0 .. n - 1, i \in A PROVE i + 1 \in A
  <2>1. i + 1 \in 1 .. n /\ (i + 1) - 1 = i /\ i \in Nat
    BY <1>1
  <2>2. Left(f[i], i)
    BY <1>5
  <2>3. \A j \in 1 .. i + 1 : j \in 1 .. i \/ j = i + 1
    BY <2>1
  <2>4. i + 1 \in 1 .. i + 1 /\ \A j \in 1 .. i : j \in 1 .. i + 1
    BY <2>1
  <2>5. CASE s[i + 1] \in S
    <3>1. f[i + 1] = f[i]
      BY <1>3, <2>1, <2>5
    <3>2. Left(f[i + 1], i + 1)
      BY <2>2, <2>3, <2>4, <2>5, <3>1
    <3>3. QED
      BY <2>1, <3>2
  <2>6. CASE s[i + 1] \notin S
    <3>1. f[i + 1] = Append(f[i], s[i + 1])
      BY <1>3, <2>1, <2>6
    <3>2. /\ f[i + 1] \in Seq(X)
          /\ \A e : Occurs(e, f[i + 1]) <=> Occurs(e, f[i]) \/ e = s[i + 1]
      BY <1>1, <2>1, <2>2, <3>1, OccursInAppend
    <3>3. Left(f[i + 1], i + 1)
      BY <2>2, <2>3, <2>4, <2>6, <3>2
    <3>4. QED
      BY <2>1, <3>3
  <2>7. QED
    BY <2>5, <2>6
<1> HIDE DEF A
<1>6. \A i \in 0 .. n : i \in A
  BY <1>1, <1>4, <1>5, BoundedInduction
<1>7. n \in A
  BY <1>1, <1>6
<1>8. QED
  BY <1>3, <1>7 DEF A, Occurs

\* The keys listed of an object are its own.
LEMMA KeysListed ==
  ASSUME NEW sorted, sorted \in Seq(Range(sorted)), NEW D, D \subseteq Range(sorted)
  PROVE  LET keys == Without(sorted, Range(sorted) \ D)
         IN keys \in Seq(D) /\ \A e \in D : Occurs(e, keys)
<1> DEFINE R == Range(sorted)
           keys == Without(sorted, R \ D)
<1>1. /\ keys \in Seq(R)
      /\ \A e : Occurs(e, keys) <=> Occurs(e, sorted) /\ e \notin R \ D
  BY OccursInWithout
<1>2. \A e \in R : Occurs(e, sorted)
  BY DEF Occurs, Range
<1> HIDE DEF R, keys
<1>3. \A e \in D : Occurs(e, keys)
  BY <1>1, <1>2 DEF R
<1>4. Len(keys) \in Nat /\ \A i \in 1 .. Len(keys) : keys[i] \in D
  <2>1. ASSUME NEW i \in 1 .. Len(keys) PROVE keys[i] \in D
    <3>1. Occurs(keys[i], keys) /\ keys[i] \in R
      BY <1>1 DEF Occurs
    <3>2. QED
      BY <1>1, <3>1
  <2>2. QED
    BY <1>1, <2>1
<1>5. keys \in Seq(D)
  BY <1>1, <1>4
<1>6. QED
  BY <1>3, <1>5 DEF keys, R

\* r is read of entries of map, those of the hashes in D.
HeightsRead(map, D, r) ==
    /\ r = Ok(r.val) /\ r.val \in [D -> Int] /\ \A h \in D : r.val[h] = map[h]

\* The entry of k stands for hash h and its height.
StandsFor(map, k, value, h) ==
    h \in DOMAIN map /\ HeightEntry(k, value) = Ok(<<h, map[h]>>)

LEMMA EntryAdded ==
  ASSUME NEW map, map \in [DOMAIN map -> Int], NEW D, NEW r, HeightsRead(map, D, r),
         NEW k, NEW value, NEW h, StandsFor(map, k, value, h)
  PROVE  HeightsRead(map, D \cup {h}, AddEntry(r, k, value))
<1> DEFINE e == HeightEntry(k, value)
           more == [g \in DOMAIN r.val \cup {e.val[1]} |->
                       IF g = e.val[1] THEN e.val[2] ELSE r.val[g]]
<1>1. e.ok /\ e.val[1] = h /\ e.val[2] = map[h] /\ map[h] \in Int
  BY DEF StandsFor, Ok
<1>2. r.ok /\ r.val \in [D -> Int] /\ \A g \in D : r.val[g] = map[g]
  BY DEF HeightsRead, Ok
<1>3. AddEntry(r, k, value) = Ok(more)
  BY Zenon, <1>1, <1>2 DEF AddEntry
<1> HIDE DEF e
<1>4. more \in [D \cup {h} -> Int] /\ \A g \in D \cup {h} : more[g] = map[g]
  BY <1>1, <1>2
<1> HIDE DEF more
<1>5. QED
  BY <1>3, <1>4 DEF HeightsRead, Ok

\* What is read of some of the entries of map.
PartlyRead(map) ==
    {r \in [ok : {TRUE}, val : UNION {[D -> Int] : D \in SUBSET DOMAIN map}] :
        \E D \in SUBSET DOMAIN map : HeightsRead(map, D, r)}

LEMMA ReadPart ==
  ASSUME NEW map, NEW D \in SUBSET DOMAIN map, NEW r, HeightsRead(map, D, r)
  PROVE  r \in PartlyRead(map)
<1>1. r = [ok |-> TRUE, val |-> r.val] /\ r.val \in [D -> Int]
  BY DEF HeightsRead, Ok
<1>2. r.val \in UNION {[E -> Int] : E \in SUBSET DOMAIN map}
  BY <1>1
<1>3. r \in [ok : {TRUE}, val : UNION {[E -> Int] : E \in SUBSET DOMAIN map}]
  <2> DEFINE V == UNION {[E -> Int] : E \in SUBSET DOMAIN map}
  <2>1. r.val \in V
    BY <1>2
  <2> HIDE DEF V
  <2>2. PICK v : v = r.val
    OBVIOUS
  <2>3. [ok |-> TRUE, val |-> v] \in [ok : {TRUE}, val : V]
    BY <2>1, <2>2
  <2>4. r = [ok |-> TRUE, val |-> v]
    BY Zenon, <1>1, <2>2
  <2>5. QED
    BY Zenon, <2>3, <2>4 DEF V
<1>4. QED
  BY <1>3 DEF PartlyRead

\* The results after each of some keys.
ReadsKeys(keys, object, chain) ==
    chain = [i \in 0 .. Len(keys) |->
                IF i = 0 THEN Ok(<<>>) ELSE AddEntry(chain[i - 1], keys[i], object[keys[i]])]

\* The keys stand one by one for the hashes in stands.
AllStandFor(map, keys, object, stands) ==
    \A i \in 1 .. Len(keys) : StandsFor(map, keys[i], object[keys[i]], stands[i])

EntryErrors == {Err("value"), Err("entry")}

LEMMA ReadsKeysExists ==
  ASSUME NEW map, map \in [DOMAIN map -> Int], NEW keys, Len(keys) \in Nat,
         NEW object, NEW stands,
         \A i \in 1 .. Len(keys) :
            \/ StandsFor(map, keys[i], object[keys[i]], stands[i])
            \/ HeightEntry(keys[i], object[keys[i]]) \in EntryErrors
  PROVE  \E chain : ReadsKeys(keys, object, chain)
<1> DEFINE n == Len(keys)
           V == PartlyRead(map) \cup EntryErrors
           none == Ok(<<>>)
           step == [p \in (1 .. n) \X V |-> AddEntry(p[2], keys[p[1]], object[keys[p[1]]])]
<1>1. none \in V
  <2>1. <<>> \in [{} -> Int] /\ none.val = <<>> /\ none = Ok(none.val)
    BY DEF Ok
  <2>2. HeightsRead(map, {}, none)
    BY <2>1 DEF HeightsRead
  <2>3. {} \in SUBSET DOMAIN map
    OBVIOUS
  <2> HIDE DEF none
  <2>4. QED
    BY <2>2, <2>3, ReadPart
<1>2. ASSUME NEW i \in 1 .. n, NEW r \in V
      PROVE  AddEntry(r, keys[i], object[keys[i]]) \in V
  <2> DEFINE e == HeightEntry(keys[i], object[keys[i]])
  <2>1. \A err \in EntryErrors : ~ err.ok
    BY DEF EntryErrors, Err
  <2>2. CASE r \in EntryErrors
    <3>1. AddEntry(r, keys[i], object[keys[i]]) = r
      BY <2>1, <2>2 DEF AddEntry
    <3>2. QED
      BY <2>2, <3>1
  <2>3. CASE r \in PartlyRead(map) /\ e \in EntryErrors
    <3>1. r.ok
      BY <2>3 DEF PartlyRead
    <3>2. AddEntry(r, keys[i], object[keys[i]]) = e
      BY Zenon, <2>1, <2>3, <3>1 DEF AddEntry
    <3>3. QED
      BY <2>3, <3>2
  <2>4. CASE r \in PartlyRead(map) /\ StandsFor(map, keys[i], object[keys[i]], stands[i])
    <3>1. PICK D \in SUBSET DOMAIN map : HeightsRead(map, D, r)
      BY <2>4 DEF PartlyRead
    <3>2. HeightsRead(map, D \cup {stands[i]}, AddEntry(r, keys[i], object[keys[i]]))
      BY <2>4, <3>1, EntryAdded
    <3>3. D \cup {stands[i]} \in SUBSET DOMAIN map
      BY <2>4 DEF StandsFor
    <3>4. QED
      BY <3>2, <3>3, ReadPart
  <2>5. QED
    BY <2>2, <2>3, <2>4
<1> HIDE DEF V
<1>3. step \in [(1 .. n) \X V -> V]
  BY <1>2
<1>4. \A i \in 1 .. n, r \in V : step[<<i, r>>] = AddEntry(r, keys[i], object[keys[i]])
  OBVIOUS
<1> HIDE DEF step
<1>5. PICK chain : Chain(chain, n, V, none, step)
  <2> HIDE DEF n, none
  <2>1. QED
    BY <1>1, <1>3, ChainExists DEF n
<1>6. ASSUME NEW i \in 1 .. n
      PROVE  chain[i] = AddEntry(chain[i - 1], keys[i], object[keys[i]])
  <2>1. i - 1 \in 0 .. n
    OBVIOUS
  <2>2. chain[i - 1] \in V
    BY <1>5, <2>1 DEF Chain
  <2>3. QED
    BY <1>4, <1>5, <2>2 DEF Chain
<1> DEFINE after(i) == AddEntry(chain[i - 1], keys[i], object[keys[i]])
           value(i) == IF i = 0 THEN none ELSE after(i)
<1>7. \A i \in 1 .. n : chain[i] = after(i)
  BY <1>6
<1> HIDE DEF after, none
<1>8. \A i \in 0 .. n : chain[i] = value(i)
  BY <1>5, <1>7 DEF Chain
<1>9. chain = [i \in 0 .. n |-> value(i)]
  <2> HIDE DEF value
  <2>1. QED
    BY <1>5, <1>8 DEF Chain
<1>10. QED
  BY <1>9 DEF ReadsKeys, after, none

LEMMA ReadsKeysAt ==
  ASSUME NEW keys, Len(keys) \in Nat, NEW object, NEW chain, ReadsKeys(keys, object, chain)
  PROVE  /\ chain[0] = Ok(<<>>)
         /\ \A i \in 1 .. Len(keys) :
               chain[i] = AddEntry(chain[i - 1], keys[i], object[keys[i]])
<1> DEFINE after(i) == AddEntry(chain[i - 1], keys[i], object[keys[i]])
           none == Ok(<<>>)
           value(i) == IF i = 0 THEN none ELSE after(i)
<1>1. chain = [i \in 0 .. Len(keys) |-> value(i)]
  BY DEF ReadsKeys
<1> HIDE DEF after, none
<1>2. chain[0] = none /\ \A i \in 1 .. Len(keys) : chain[i] = after(i)
  BY <1>1
<1>3. QED
  BY <1>2 DEF after, none

\* A map is read of keys that stand for all of its hashes.
LEMMA MapIsRead ==
  ASSUME NEW map, map \in [DOMAIN map -> Int], NEW keys, Len(keys) \in Nat,
         NEW object, NEW stands, AllStandFor(map, keys, object, stands),
         \A h \in DOMAIN map : \E i \in 1 .. Len(keys) : stands[i] = h
  PROVE  BlockHeightMap(keys, object) = Ok(map)
<1> DEFINE n == Len(keys)
           read == CHOOSE chain : ReadsKeys(keys, object, chain)
           first(i) == {stands[j] : j \in 1 .. i}
           A == {i \in Nat : HeightsRead(map, first(i), read[i])}
<1>1. BlockHeightMap(keys, object) = read[n]
  BY Zenon DEF BlockHeightMap, ReadsKeys
<1>2. ReadsKeys(keys, object, read)
  BY ReadsKeysExists DEF AllStandFor
<1> HIDE DEF read
<1>3. /\ read[0] = Ok(<<>>)
      /\ \A i \in 1 .. n : read[i] = AddEntry(read[i - 1], keys[i], object[keys[i]])
  BY <1>2, ReadsKeysAt
<1>4. 0 \in A
  <2>1. <<>> \in [{} -> Int] /\ first(0) = {} /\ read[0].val = <<>>
    BY <1>3 DEF Ok
  <2>2. HeightsRead(map, first(0), read[0])
    BY <1>3, <2>1 DEF HeightsRead
  <2>3. QED
    BY <2>2
<1>5. ASSUME NEW i \in 0 .. n - 1, i \in A PROVE i + 1 \in A
  <2>1. i + 1 \in 1 .. n /\ (i + 1) - 1 = i
    OBVIOUS
  <2>2. HeightsRead(map, first(i), read[i])
    BY <1>5
  <2>3. StandsFor(map, keys[i + 1], object[keys[i + 1]], stands[i + 1])
    BY <2>1 DEF AllStandFor
  <2>4. first(i + 1) = first(i) \cup {stands[i + 1]}
    OBVIOUS
  <2> HIDE DEF first
  <2>5. HeightsRead(map, first(i) \cup {stands[i + 1]},
                    AddEntry(read[i], keys[i + 1], object[keys[i + 1]]))
    BY <2>2, <2>3, EntryAdded
  <2>6. read[i + 1] = AddEntry(read[i], keys[i + 1], object[keys[i + 1]])
    BY <1>3, <2>1
  <2>7. HeightsRead(map, first(i + 1), read[i + 1])
    BY <2>4, <2>5, <2>6
  <2>8. QED
    BY <2>7
<1> HIDE DEF A
<1>6. \A i \in 0 .. n : i \in A
  BY <1>4, <1>5, BoundedInduction
<1>7. n \in A
  BY <1>6
<1>8. HeightsRead(map, first(n), read[n])
  BY <1>7 DEF A
<1>9. first(n) = DOMAIN map
  BY DEF AllStandFor, StandsFor
<1> HIDE DEF first
<1>10. read[n] = Ok(read[n].val) /\ read[n].val = map
  BY <1>8, <1>9 DEF HeightsRead
<1>11. QED
  BY <1>1, <1>10

\* An entry that cannot be read refuses the others.
LEMMA MapIsRefused ==
  ASSUME NEW map, map \in [DOMAIN map -> Int], NEW keys, Len(keys) \in Nat,
         NEW object, NEW stands,
         \A i \in 1 .. Len(keys) :
            \/ StandsFor(map, keys[i], object[keys[i]], stands[i])
            \/ HeightEntry(keys[i], object[keys[i]]) \in EntryErrors,
         NEW j \in 1 .. Len(keys), HeightEntry(keys[j], object[keys[j]]) \in EntryErrors
  PROVE  ~ BlockHeightMap(keys, object).ok
<1> DEFINE n == Len(keys)
           read == CHOOSE chain : ReadsKeys(keys, object, chain)
           A == {i \in Nat : i >= j => ~ read[i].ok}
<1>1. BlockHeightMap(keys, object) = read[n]
  BY Zenon DEF BlockHeightMap, ReadsKeys
<1>2. ReadsKeys(keys, object, read)
  BY ReadsKeysExists
<1> HIDE DEF read
<1>3. \A i \in 1 .. n : read[i] = AddEntry(read[i - 1], keys[i], object[keys[i]])
  BY <1>2, ReadsKeysAt
<1>4. 0 \in A
  OBVIOUS
<1>5. ASSUME NEW i \in 0 .. n - 1, i \in A PROVE i + 1 \in A
  <2>1. i + 1 \in 1 .. n /\ (i + 1) - 1 = i
    OBVIOUS
  <2>2. read[i + 1] = AddEntry(read[i], keys[i + 1], object[keys[i + 1]])
    BY <1>3, <2>1
  <2>3. CASE i + 1 = j
    <3>1. ~ HeightEntry(keys[i + 1], object[keys[i + 1]]).ok
      BY <2>3 DEF EntryErrors, Err
    <3>2. ~ read[i + 1].ok
      BY Zenon, <2>2, <3>1 DEF AddEntry
    <3>3. QED
      BY <3>2
  <2>4. CASE i + 1 > j
    <3>1. ~ read[i].ok
      BY <1>5, <2>4
    <3>2. ~ read[i + 1].ok
      BY Zenon, <2>2, <3>1 DEF AddEntry
    <3>3. QED
      BY <3>2
  <2>5. CASE i + 1 < j
    BY <2>5
  <2>6. QED
    BY <2>3, <2>4, <2>5
<1> HIDE DEF A
<1>6. \A i \in 0 .. n : i \in A
  BY <1>4, <1>5, BoundedInduction
<1>7. n \in A /\ n >= j
  BY <1>6
<1>8. QED
  BY <1>1, <1>7 DEF A

LEMMA UnreadableRefused ==
  ASSUME NEW k, NEW v \in Unreadable(k)
  PROVE  HeightEntry(k, v) \in EntryErrors
<1> DEFINE none == <<"hash", "none">>
<1>1. none[1] # "num"
  OBVIOUS
<1> HIDE DEF none
<1> DEFINE text == <<"text", none>>
<1>2. \/ v = <<"real">> \/ v = <<"other">>
      \/ v = text /\ ~ Parses(k)
  BY DEF Unreadable, none
<1>3. <<"real">>[1] \notin {"number", "text"} /\ <<"other">>[1] \notin {"number", "text"}
      /\ text[1] = "text" /\ text[2] = none
  OBVIOUS
<1> HIDE DEF text
<1>4. CASE v = <<"real">> \/ v = <<"other">>
  <2>1. v[1] # "number" /\ v[1] # "text"
    BY <1>3, <1>4
  <2>2. HeightEntry(k, v) = Err("value")
    BY Zenon, <2>1 DEF HeightEntry
  <2>3. QED
    BY <2>2 DEF EntryErrors
<1>5. CASE v = text /\ ~ Parses(k)
  <2>1. v[1] # "number" /\ v[1] = "text" /\ ~ Parses(v[2])
    BY <1>1, <1>3, <1>5 DEF Parses
  <2>2. HeightEntry(k, v) = Err("entry")
    BY Zenon, <1>5, <2>1 DEF HeightEntry
  <2>3. QED
    BY <2>2 DEF EntryErrors
<1>6. QED
  BY <1>2, <1>4, <1>5

\* The entries a hash and its height may be written as stand for them.
LEMMA WrittenStands ==
  ASSUME NEW map, NEW h \in DOMAIN map, NEW w \in {"number", "text", "inverted"},
         w = "inverted" => h[1] = "hash"
  PROVE  /\ StandsFor(map, Written(h, map[h], w)[1], Written(h, map[h], w)[2], h)
         /\ Written(h, map[h], w)[1] = IF w = "inverted" THEN <<"num", map[h]>> ELSE h
<1> DEFINE n == map[h]
           height == <<"num", n>>
           Is(e, k, v) == e = <<k, v>> /\ HeightEntry(k, v) = Ok(<<h, n>>)
<1>1. height[1] = "num" /\ height[2] = n
  OBVIOUS
<1> HIDE DEF height, n
<1>2. ASSUME w = "number" PROVE Is(Written(h, n, w), h, <<"number", n>>)
  <2> DEFINE v == <<"number", n>>
  <2>1. v[1] = "number" /\ v[2] = n
    OBVIOUS
  <2>2. Written(h, n, w) = <<h, v>>
    BY <1>2 DEF Written
  <2> HIDE DEF v
  <2>3. HeightEntry(h, v) = Ok(<<h, n>>)
    BY Zenon, <2>1 DEF HeightEntry
  <2>4. QED
    BY <2>2, <2>3 DEF v
<1>3. ASSUME w = "text" PROVE Is(Written(h, n, w), h, <<"text", height>>)
  <2> DEFINE v == <<"text", height>>
  <2>1. v[1] = "text" /\ v[2] = height /\ v[1] # "number"
    OBVIOUS
  <2>2. Written(h, n, w) = <<h, v>>
    BY <1>3 DEF Written, height
  <2> HIDE DEF v
  <2>3. HeightEntry(h, v) = Ok(<<h, n>>)
    BY Zenon, <1>1, <2>1 DEF HeightEntry, Parses
  <2>4. QED
    BY <2>2, <2>3 DEF v
<1>4. ASSUME w = "inverted" PROVE Is(Written(h, n, w), height, <<"text", h>>)
  <2> DEFINE v == <<"text", h>>
  <2>1. v[1] = "text" /\ v[2] = h /\ v[1] # "number"
    OBVIOUS
  <2>2. Written(h, n, w) = <<height, v>>
    BY <1>4 DEF Written, height
  <2> HIDE DEF v
  <2>3. h[1] # "num"
    BY <1>4
  <2>4. HeightEntry(height, v) = Ok(<<h, n>>)
    BY Zenon, <1>1, <2>1, <2>3 DEF HeightEntry, Parses
  <2>5. QED
    BY <2>2, <2>4 DEF v
<1>5. PICK k, v : /\ Is(Written(h, n, w), k, v)
                  /\ w = "inverted" => k = height
                  /\ w # "inverted" => k = h
  BY <1>2, <1>3, <1>4
<1>6. Written(h, n, w)[1] = k /\ Written(h, n, w)[2] = v
  BY <1>5
<1>7. StandsFor(map, k, v, h)
  BY <1>5 DEF StandsFor, n
<1>8. QED
  BY <1>5, <1>6, <1>7 DEF n, height

LEMMA HeightsHold ==
  ASSUME NEW in, KnownHeights(in), SortedKeys \in Seq(Range(SortedKeys))
  PROVE  HeightsEitherWay(in.map, in.way, SortedKeys)
<1> DEFINE map == in.map
           way == in.way
           entry(h) == Written(h, map[h], way[h])
           entries == {entry(h) : h \in DOMAIN map}
           named == {e[1] : e \in entries}
           chosen(k) == CHOOSE e \in entries : e[1] = k
           object == [k \in named |-> chosen(k)[2]]
           Keys(o) == Without(SortedKeys, Range(SortedKeys) \ DOMAIN o)
           again == [h \in DOMAIN map |-> <<"number", map[h]>>]
           distinct == \A g, h \in DOMAIN map : entry(g)[1] = entry(h)[1] => g = h
<1>1. /\ map \in [DOMAIN map -> Int]
      /\ \A h \in DOMAIN map :
            /\ way[h] \in {"number", "text", "inverted"}
            /\ way[h] = "inverted" => h[1] = "hash"
            /\ h \in Range(SortedKeys) /\ <<"num", map[h]>> \in Range(SortedKeys)
  BY DEF KnownHeights
<1>2. ASSUME NEW h \in DOMAIN map
      PROVE  /\ StandsFor(map, entry(h)[1], entry(h)[2], h)
             /\ entry(h)[1] = IF way[h] = "inverted" THEN <<"num", map[h]>> ELSE h
  <2>1. way[h] \in {"number", "text", "inverted"} /\ (way[h] = "inverted" => h[1] = "hash")
    BY <1>1
  <2> HIDE DEF map, way
  <2>2. QED
    BY <2>1, WrittenStands
<1> HIDE DEF map, way, entry
<1> DEFINE keys == Keys(object)
           stands == [i \in 1 .. Len(keys) |->
                         CHOOSE h \in DOMAIN map : entry(h) = chosen(keys[i])]
<1>3. named \subseteq Range(SortedKeys) /\ DOMAIN object = named
  <2>1. \A h \in DOMAIN map : entry(h)[1] \in Range(SortedKeys)
    BY <1>1, <1>2
  <2>2. QED
    BY <2>1
<1>4. keys \in Seq(named) /\ \A k \in named : Occurs(k, keys)
  BY <1>3, KeysListed
<1> HIDE DEF keys
<1>5. Len(keys) \in Nat /\ \A i \in 1 .. Len(keys) : keys[i] \in named
  BY <1>4
<1>6. ASSUME NEW k \in named PROVE chosen(k) \in entries /\ chosen(k)[1] = k
  OBVIOUS
<1>7. \A k \in named : object[k] = chosen(k)[2]
  OBVIOUS
<1> HIDE DEF object, chosen
<1>8. ASSUME NEW i \in 1 .. Len(keys)
      PROVE  stands[i] \in DOMAIN map /\ entry(stands[i]) = chosen(keys[i])
  <2>1. \E h \in DOMAIN map : entry(h) = chosen(keys[i])
    BY <1>5, <1>6
  <2>2. QED
    BY <2>1
<1> HIDE DEF stands, entries, named
<1>9. ASSUME NEW i \in 1 .. Len(keys)
      PROVE  StandsFor(map, keys[i], object[keys[i]], stands[i])
  <2>1. entry(stands[i])[1] = keys[i] /\ entry(stands[i])[2] = object[keys[i]]
    BY <1>5, <1>6, <1>7, <1>8
  <2>2. QED
    BY <1>2, <1>8, <2>1
<1>10. ASSUME distinct PROVE BlockHeightMap(keys, object) = Ok(map)
  <2>1. ASSUME NEW h \in DOMAIN map PROVE \E i \in 1 .. Len(keys) : stands[i] = h
    <3>1. entry(h)[1] \in named
      BY DEF named, entries
    <3>2. PICK i \in 1 .. Len(keys) : keys[i] = entry(h)[1]
      BY <1>4, <3>1 DEF Occurs
    <3>3. entry(stands[i])[1] = entry(h)[1]
      BY <1>5, <1>6, <1>8, <3>2
    <3>4. QED
      BY <1>8, <1>10, <3>3
  <2>2. AllStandFor(map, keys, object, stands)
    BY <1>9 DEF AllStandFor
  <2>3. map \in [DOMAIN map -> Int] /\ Len(keys) \in Nat
    BY <1>1, <1>5
  <2>4. \A i \in 1 .. Len(keys) : stands[i] \in DOMAIN map
    BY <1>8
  <2>5. QED
    BY <2>1, <2>2, <2>3, <2>4, MapIsRead
<1>11. BlockHeightMap(Keys(again), again) = Ok(map)
  <2> DEFINE listed == Keys(again)
  <2>1. DOMAIN again = DOMAIN map /\ \A h \in DOMAIN map : again[h] = <<"number", map[h]>>
    OBVIOUS
  <2>2. listed \in Seq(DOMAIN map) /\ \A h \in DOMAIN map : Occurs(h, listed)
    BY <1>1, <2>1, KeysListed
  <2> HIDE DEF listed, again
  <2>3. Len(listed) \in Nat /\ \A i \in 1 .. Len(listed) : listed[i] \in DOMAIN map
    BY <2>2
  <2>4. ASSUME NEW h \in DOMAIN map PROVE StandsFor(map, h, again[h], h)
    <3>1. again[h][1] = "number" /\ again[h][2] = map[h]
      BY <2>1
    <3>2. HeightEntry(h, again[h]) = Ok(<<h, map[h]>>)
      BY Zenon, <3>1 DEF HeightEntry
    <3>3. QED
      BY <3>2 DEF StandsFor
  <2>5. AllStandFor(map, listed, again, listed)
    BY <2>3, <2>4 DEF AllStandFor
  <2>6. QED
    <3>1. \A h \in DOMAIN map : \E i \in 1 .. Len(listed) : listed[i] = h
      BY <2>2 DEF Occurs
    <3>2. BlockHeightMap(listed, again) = Ok(map)
      BY <1>1, <2>3, <2>5, <3>1, MapIsRead
    <3>3. QED
      BY <3>2 DEF listed
<1>12. ASSUME NEW k \in DOMAIN object, NEW v \in Unreadable(k)
       PROVE  ~ BlockHeightMap(keys, [object EXCEPT ![k] = v]).ok
  <2> DEFINE spoilt == [object EXCEPT ![k] = v]
  <2>1. \A g \in named : spoilt[g] = IF g = k THEN v ELSE object[g]
    BY <1>3
  <2>2. PICK j \in 1 .. Len(keys) : keys[j] = k
    BY <1>3, <1>4 DEF Occurs
  <2> HIDE DEF spoilt
  <2>3. ASSUME NEW i \in 1 .. Len(keys)
        PROVE  \/ StandsFor(map, keys[i], spoilt[keys[i]], stands[i])
               \/ HeightEntry(keys[i], spoilt[keys[i]]) \in EntryErrors
    <3>1. CASE keys[i] = k
      BY <1>5, <2>1, <3>1, UnreadableRefused
    <3>2. CASE keys[i] # k
      BY <1>5, <1>9, <2>1, <3>2
    <3>3. QED
      BY <3>1, <3>2
  <2>4. HeightEntry(keys[j], spoilt[keys[j]]) \in EntryErrors
    BY <1>5, <2>1, <2>2, UnreadableRefused
  <2>5. ~ BlockHeightMap(keys, spoilt).ok
    BY <1>1, <1>5, <2>3, <2>4, MapIsRefused
  <2>6. QED
    BY <2>5 DEF spoilt
<1>13. QED
  BY <1>10, <1>11, <1>12 DEF HeightsEitherWay, map, way, entry, keys, object, chosen, named, entries

-----------------------------------------------------------------------------
(* Fees. *)

FeeMaps == UNION {[D -> Nat] : D \in SUBSET STRING}

LEMMA AddFeeType ==
  ASSUME NEW fees \in FeeMaps, NEW log \in FeeLogs
  PROVE  AddFee(fees, log) \in FeeMaps
<1>1. PICK D \in SUBSET STRING : fees \in [D -> Nat]
  BY DEF FeeMaps
<1>2. log.symbol \in STRING /\ log.amount \in Nat
  BY DEF FeeLogs
<1>3. AddFee(fees, log) \in [D -> Nat] \/ AddFee(fees, log) \in [D \cup {log.symbol} -> Nat]
  BY <1>1, <1>2 DEF AddFee
<1>4. D \cup {log.symbol} \in SUBSET STRING
  BY <1>2
<1>5. QED
  BY <1>3, <1>4 DEF FeeMaps

\* The fees of the prefixes of some logs.
Collects(logs, chain) ==
    chain = [i \in 0 .. Len(logs) |->
                IF i = 0 THEN <<>> ELSE AddFee(chain[i - 1], logs[i])]

LEMMA CollectsExists ==
  ASSUME NEW logs \in Seq(FeeLogs)
  PROVE  \E chain : Collects(logs, chain)
<1> DEFINE n == Len(logs)
           none == <<>>
           step == [p \in (1 .. n) \X FeeMaps |-> AddFee(p[2], logs[p[1]])]
<1>1. n \in Nat /\ \A i \in 1 .. n : logs[i] \in FeeLogs
  OBVIOUS
<1>2. none \in FeeMaps
  <2>1. none \in [{} -> Nat] /\ {} \in SUBSET STRING
    OBVIOUS
  <2>2. QED
    BY <2>1 DEF FeeMaps
<1>3. step \in [(1 .. n) \X FeeMaps -> FeeMaps]
  <2>1. ASSUME NEW i \in 1 .. n, NEW f \in FeeMaps PROVE AddFee(f, logs[i]) \in FeeMaps
    BY <1>1, AddFeeType
  <2>2. QED
    BY <2>1
<1>4. \A i \in 1 .. n, f \in FeeMaps : step[<<i, f>>] = AddFee(f, logs[i])
  OBVIOUS
<1> HIDE DEF step
<1>5. PICK chain : Chain(chain, n, FeeMaps, none, step)
  <2> HIDE DEF n, none
  <2>1. QED
    BY <1>1, <1>2, <1>3, ChainExists
<1>6. ASSUME NEW i \in 1 .. n PROVE chain[i] = AddFee(chain[i - 1], logs[i])
  <2>1. i - 1 \in 0 .. n
    BY <1>1
  <2>2. chain[i - 1] \in FeeMaps
    BY <1>5, <2>1 DEF Chain
  <2>3. QED
    BY <1>4, <1>5, <2>2 DEF Chain
<1>7. ASSUME NEW i \in 0 .. n
      PROVE  chain[i] = IF i = 0 THEN <<>> ELSE AddFee(chain[i - 1], logs[i])
  BY <1>1, <1>5, <1>6 DEF Chain
<1>8. Collects(logs, chain)
  BY <1>5, <1>7 DEF Collects, Chain
<1>9. QED
  BY <1>8

LEMMA CollectsAt ==
  ASSUME NEW logs \in Seq(FeeLogs), NEW chain, Collects(logs, chain)
  PROVE  /\ chain[0] = <<>>
         /\ \A i \in 1 .. Len(logs) : chain[i] = AddFee(chain[i - 1], logs[i])
<1>1. Len(logs) \in Nat
  OBVIOUS
<1> DEFINE value(i) == IF i = 0 THEN <<>> ELSE AddFee(chain[i - 1], logs[i])
<1>2. chain = [i \in 0 .. Len(logs) |-> value(i)]
  BY DEF Collects
<1> HIDE DEF value
<1>3. \A i \in 0 .. Len(logs) : chain[i] = value(i)
  BY <1>2
<1>4. value(0) = <<>>
  BY DEF value
<1>5. ASSUME NEW i \in 1 .. Len(logs) PROVE value(i) = AddFee(chain[i - 1], logs[i])
  <2>1. i # 0
    OBVIOUS
  <2>2. QED
    BY Zenon, <2>1 DEF value
<1>6. QED
  BY <1>1, <1>3, <1>4, <1>5

\* Log i charges a fee in s.
Charge(logs, i, s) ==
    logs[i].name \in FeeEvents /\ logs[i].decodes /\ logs[i].symbol = s

\* The last of the first n logs that charges a fee in s.
LastCharge(logs, n, s, i) ==
    /\ i \in 1 .. n /\ Charge(logs, i, s)
    /\ \A j \in 1 .. n : Charge(logs, j, s) => j <= i

\* What a map holds after n logs.
ChargedSoFar(logs, n, fees) ==
    \A s : /\ s \in DOMAIN fees <=> \E i \in 1 .. n : Charge(logs, i, s)
           /\ s \in DOMAIN fees =>
                 \E i : LastCharge(logs, n, s, i) /\ fees[s] = logs[i].amount

LEMMA ChargedByOneMore ==
  ASSUME NEW logs \in Seq(FeeLogs), NEW n \in Nat, n + 1 \in 1 .. Len(logs),
         NEW fees, ChargedSoFar(logs, n, fees)
  PROVE  ChargedSoFar(logs, n + 1, AddFee(fees, logs[n + 1]))
<1> DEFINE log == logs[n + 1]
           next == AddFee(fees, log)
<1> SUFFICES ASSUME NEW s
             PROVE  /\ s \in DOMAIN next <=> \E i \in 1 .. n + 1 : Charge(logs, i, s)
                    /\ s \in DOMAIN next =>
                          \E i : LastCharge(logs, n + 1, s, i) /\ next[s] = logs[i].amount
  BY DEF ChargedSoFar
<1>1. \A i \in 1 .. n + 1 : i \in 1 .. n \/ i = n + 1
  OBVIOUS
<1>2. CASE Charge(logs, n + 1, s)
  <2>1. s \in DOMAIN next /\ next[s] = log.amount
    BY <1>2 DEF Charge, AddFee
  <2>2. LastCharge(logs, n + 1, s, n + 1)
    BY <1>2 DEF LastCharge
  <2>3. QED
    BY <1>2, <2>1, <2>2
<1>3. CASE ~ Charge(logs, n + 1, s)
  <2>1. s \in DOMAIN next <=> s \in DOMAIN fees
    BY <1>3 DEF Charge, AddFee
  <2>2. s \in DOMAIN fees => next[s] = fees[s]
    BY <1>3 DEF Charge, AddFee
  <2>3. (\E i \in 1 .. n + 1 : Charge(logs, i, s)) <=> (\E i \in 1 .. n : Charge(logs, i, s))
    BY <1>1, <1>3
  <2>4. \A i : LastCharge(logs, n, s, i) => LastCharge(logs, n + 1, s, i)
    BY <1>1, <1>3 DEF LastCharge
  <2>5. QED
    BY <2>1, <2>2, <2>3, <2>4 DEF ChargedSoFar
<1>4. QED
  BY <1>2, <1>3

LEMMA FeesAreLastCharges ==
  ASSUME NEW logs \in Seq(FeeLogs)
  PROVE  ChargedSoFar(logs, Len(logs), GetTransactionFees(logs))
<1> DEFINE fees == CHOOSE chain : Collects(logs, chain)
           n == Len(logs)
<1>1. GetTransactionFees(logs) = fees[n]
  BY Zenon DEF GetTransactionFees, Collects
<1>2. Collects(logs, fees)
  BY CollectsExists
<1> HIDE DEF fees
<1>3. fees[0] = <<>> /\ \A i \in 1 .. n : fees[i] = AddFee(fees[i - 1], logs[i])
  BY <1>2, CollectsAt
<1>4. n \in Nat
  OBVIOUS
<1> DEFINE S == {i \in Nat : ChargedSoFar(logs, i, fees[i])}
<1>5. 0 \in S
  <2>1. DOMAIN fees[0] = {}
    BY <1>3
  <2>2. ChargedSoFar(logs, 0, fees[0])
    BY <2>1 DEF ChargedSoFar
  <2>3. QED
    BY <2>2
<1>6. ASSUME NEW i \in 0 .. n - 1, i \in S PROVE i + 1 \in S
  <2>1. i + 1 \in 1 .. n /\ (i + 1) - 1 = i /\ i \in Nat
    BY <1>4
  <2>2. fees[i + 1] = AddFee(fees[i], logs[i + 1])
    BY <1>3, <2>1
  <2>3. ChargedSoFar(logs, i + 1, fees[i + 1])
    BY <1>6, <2>1, <2>2, ChargedByOneMore
  <2>4. QED
    BY <2>1, <2>3
<1> HIDE DEF S, n
<1>7. n \in S
  <2>1. \A i \in 0 .. n : i \in S
    BY <1>4, <1>5, <1>6, BoundedInduction
  <2>2. QED
    BY <1>4, <2>1
<1>8. QED
  BY <1>1, <1>7 DEF S, n

LEMMA FeesHold ==
  ASSUME NEW logs \in Seq(FeeLogs)
  PROVE  FeesAreCharged(logs)
<1> DEFINE fees == GetTransactionFees(logs)
           n == Len(logs)
           Charges(s) == {i \in DOMAIN logs : /\ logs[i].name \in FeeEvents
                                              /\ logs[i].decodes
                                              /\ logs[i].symbol = s}
<1>1. n \in Nat /\ DOMAIN logs = 1 .. n
  OBVIOUS
<1>2. ChargedSoFar(logs, n, fees)
  BY FeesAreLastCharges
<1>3. \A s : Charges(s) = {i \in 1 .. n : Charge(logs, i, s)}
  BY <1>1 DEF Charge
<1> HIDE DEF fees, n
<1> SUFFICES ASSUME NEW s
             PROVE  /\ s \in DOMAIN fees <=> Charges(s) # {}
                    /\ s \in DOMAIN fees => fees[s] = logs[Max(Charges(s))].amount
  BY DEF FeesAreCharged, fees
<1> HIDE DEF Charges
<1>4. s \in DOMAIN fees <=> Charges(s) # {}
  BY <1>2, <1>3 DEF ChargedSoFar
<1>5. ASSUME s \in DOMAIN fees PROVE fees[s] = logs[Max(Charges(s))].amount
  <2>1. PICK i : LastCharge(logs, n, s, i) /\ fees[s] = logs[i].amount
    BY <1>2, <1>5 DEF ChargedSoFar
  <2>2. i \in Charges(s) /\ \A j \in Charges(s) : j \in Int /\ i >= j
    BY <1>1, <1>3, <2>1 DEF LastCharge
  <2>3. Max(Charges(s)) \in Charges(s) /\ \A j \in Charges(s) : Max(Charges(s)) >= j
    BY <2>2 DEF Max
  <2>4. Max(Charges(s)) = i
    BY <2>2, <2>3
  <2>5. QED
    BY <2>1, <2>4
<1>6. QED
  BY <1>4, <1>5

-----------------------------------------------------------------------------
(* Token amounts. *)

LEMMA LastDigit ==
  ASSUME NEW n \in Nat
  PROVE  /\ n \div 10 \in Nat /\ n % 10 \in 0 .. 9
         /\ n = 10 * (n \div 10) + (n % 10)
         /\ n >= 10 => n \div 10 \in 1 .. n - 1
  OBVIOUS

\* The digits of the numbers up to n, which a recursive definition is about.
DigitsUpTo(n, f) ==
    f = [i \in 0 .. n |-> IF i < 10 THEN <<i>> ELSE Append(f[i \div 10], i % 10)]

LEMMA DigitsUpToAt ==
  ASSUME NEW n \in Nat, NEW f, DigitsUpTo(n, f), NEW i \in 0 .. n
  PROVE  /\ i < 10 => f[i] = <<i>>
         /\ i >= 10 => f[i] = Append(f[i \div 10], i % 10)
<1> DEFINE value(j) == IF j < 10 THEN <<j>> ELSE Append(f[j \div 10], j % 10)
<1>1. f = [j \in 0 .. n |-> value(j)]
  BY DEF DigitsUpTo
<1> HIDE DEF value
<1>2. f[i] = value(i)
  BY <1>1
<1>3. CASE i < 10
  BY <1>2, <1>3 DEF value
<1>4. CASE ~ i < 10
  <2>1. value(i) = Append(f[i \div 10], i % 10)
    BY Zenon, <1>4 DEF value
  <2>2. QED
    BY <1>2, <1>4, <2>1
<1>5. QED
  BY <1>3, <1>4

LEMMA DigitsUpToExists == \A n \in Nat : \E f : DigitsUpTo(n, f)
<1> DEFINE S == {n \in Nat : \E f : DigitsUpTo(n, f)}
<1>1. 0 \in S
  <2> DEFINE f == [i \in 0 .. 0 |-> <<i>>]
             value(i) == IF i < 10 THEN <<i>> ELSE Append(f[i \div 10], i % 10)
  <2>1. \A i \in 0 .. 0 : value(i) = <<i>>
    OBVIOUS
  <2>2. f = [i \in 0 .. 0 |-> value(i)]
    <3> HIDE DEF value
    <3>1. QED
      BY <2>1
  <2>3. DigitsUpTo(0, f)
    BY <2>2 DEF DigitsUpTo
  <2>4. QED
    BY <2>3
<1>2. ASSUME NEW n \in Nat, n \in S PROVE n + 1 \in S
  <2>1. PICK f : DigitsUpTo(n, f)
    BY <1>2
  <2> DEFINE next == IF n + 1 < 10 THEN <<n + 1>>
                     ELSE Append(f[(n + 1) \div 10], (n + 1) % 10)
             longer == [i \in 0 .. n + 1 |-> IF i = n + 1 THEN next ELSE f[i]]
             value(i) == IF i < 10 THEN <<i>> ELSE Append(longer[i \div 10], i % 10)
  <2>2. longer[n + 1] = next /\ \A i \in 0 .. n : longer[i] = f[i]
    OBVIOUS
  <2>3. longer = [i \in 0 .. n + 1 |-> longer[i]]
    OBVIOUS
  <2> HIDE DEF longer
  <2>4. ASSUME NEW i \in 0 .. n + 1 PROVE longer[i] = value(i)
    <3>1. i >= 10 => i \div 10 \in 0 .. n
      BY LastDigit
    <3>2. i >= 10 => longer[i \div 10] = f[i \div 10]
      BY <2>2, <3>1
    <3>3. CASE i = n + 1 /\ i < 10
      BY <2>2, <3>3
    <3>4. CASE i = n + 1 /\ i >= 10
      <4>1. ~ i < 10
        BY <3>4
      <4>2. longer[i] = Append(f[i \div 10], i % 10)
        BY Zenon, <2>2, <3>4, <4>1
      <4>3. QED
        BY Zenon, <3>2, <3>4, <4>1, <4>2
    <3>5. CASE i \in 0 .. n /\ i < 10
      BY <2>1, <2>2, <3>5, DigitsUpToAt
    <3>6. CASE i \in 0 .. n /\ i >= 10
      <4>1. ~ i < 10
        BY <3>6
      <4>2. longer[i] = Append(f[i \div 10], i % 10)
        BY <2>1, <2>2, <3>6, DigitsUpToAt
      <4>3. QED
        BY Zenon, <3>2, <3>6, <4>1, <4>2
    <3>7. QED
      BY <3>3, <3>4, <3>5, <3>6
  <2>5. longer = [i \in 0 .. n + 1 |-> value(i)]
    <3> HIDE DEF value
    <3>1. QED
      BY <2>3, <2>4
  <2>6. DigitsUpTo(n + 1, longer)
    BY <2>5 DEF DigitsUpTo
  <2>7. QED
    BY <2>6
<1> HIDE DEF S
<1>3. \A n \in Nat : n \in S
  BY <1>1, <1>2, NatSetInduction
<1>4. QED
  BY <1>3 DEF S

LEMMA DigitsAt ==
  ASSUME NEW n \in 0 .. Limit
  PROVE  /\ n < 10 => Digits[n] = <<n>>
         /\ n >= 10 => Digits[n] = Append(Digits[n \div 10], n % 10)
<1>1. Limit \in Nat
  BY LimitAssumption
<1>2. DigitsUpTo(Limit, Digits)
  <2>1. Digits = CHOOSE f : DigitsUpTo(Limit, f)
    BY Zenon DEF Digits, DigitsUpTo
  <2>2. QED
    BY <1>1, <2>1, DigitsUpToExists
<1>3. QED
  BY <1>1, <1>2, DigitsUpToAt

\* Digits as they are written: the number they are, with no zero too many.
Writes(digits, n) ==
    /\ digits \in Seq(0 .. 9) /\ Len(digits) >= 1
    /\ Number(10, digits) = n
    /\ digits[1] = 0 => n = 0 /\ Len(digits) = 1

LEMMA DigitsWrite == \A n \in 0 .. Limit : Writes(Digits[n], n)
<1> DEFINE S == {n \in Nat : n <= Limit => Writes(Digits[n], n)}
<1>1. ASSUME NEW n \in Nat, \A m \in 0 .. n - 1 : m \in S PROVE n \in S
  <2> SUFFICES ASSUME n <= Limit PROVE Writes(Digits[n], n)
    OBVIOUS
  <2>1. n \in 0 .. Limit
    BY LimitAssumption
  <2>2. CASE n < 10
    <3>1. Digits[n] = <<n>>
      BY <2>1, <2>2, DigitsAt
    <3>2. <<n>> \in Seq(0 .. 9) /\ Len(<<n>>) = 1 /\ <<n>>[1] = n
      BY <2>2
    <3>3. Number(10, <<n>>) = n
      BY NumberOfOne
    <3>4. QED
      BY <3>1, <3>2, <3>3 DEF Writes
  <2>3. CASE n >= 10
    <3> DEFINE q == n \div 10
               r == n % 10
    <3>1. q \in 1 .. n - 1 /\ r \in 0 .. 9 /\ n = 10 * q + r
      BY <2>3, LastDigit
    <3>2. Digits[n] = Append(Digits[q], r)
      BY <2>1, <2>3, DigitsAt
    <3> HIDE DEF q, r
    <3>3. Writes(Digits[q], q)
      <4>1. q \in 0 .. n - 1 /\ q <= Limit
        BY <2>1, <3>1, LimitAssumption
      <4>2. q \in S
        <5> HIDE DEF S
        <5>1. QED
          BY <1>1, <4>1
      <4>3. QED
        BY <4>1, <4>2
    <3>4. Digits[q] \in Seq(Nat)
      BY <3>3, SeqMonotonic DEF Writes
    <3>5. Number(10, Digits[n]) = n
      <4>1. Number(10, Append(Digits[q], r)) = 10 * Number(10, Digits[q]) + r
        BY <3>1, <3>4, NumberAppend
      <4>2. QED
        BY <3>1, <3>2, <3>3, <4>1 DEF Writes
    <3>6. /\ Digits[n] \in Seq(0 .. 9) /\ Len(Digits[n]) >= 1
          /\ Digits[n][1] = Digits[q][1]
      BY <3>1, <3>2, <3>3, AppendProperties DEF Writes
    <3>7. Digits[n][1] # 0
      BY <3>1, <3>3, <3>6 DEF Writes
    <3>8. QED
      BY <3>5, <3>6, <3>7 DEF Writes
  <2>4. QED
    BY <2>2, <2>3
<1> HIDE DEF S
<1>2. \A n \in Nat : n \in S
  BY <1>1, StrongInduction
<1>3. QED
  BY <1>2, LimitAssumption DEF S

LEMMA DigitsAreNumbers ==
  ASSUME NEW digits \in Seq(0 .. 9)
  PROVE  digits \in Seq(Nat) /\ Len(digits) \in Nat
<1>1. 0 .. 9 \subseteq Nat
  OBVIOUS
<1>2. QED
  BY <1>1, SeqMonotonic

\* A text with a point, and its parts before and after it.
Pointed(text, whole, fraction) ==
    /\ whole \in Seq(0 .. 9) /\ fraction \in Seq(0 .. 9) /\ text \in Seq(Nat)
    /\ Len(text) = Len(whole) + 1 + Len(fraction)
    /\ \A i \in 1 .. Len(whole) : text[i] = whole[i]
    /\ text[Len(whole) + 1] = Dot
    /\ \A i \in 1 .. Len(fraction) : text[Len(whole) + 1 + i] = fraction[i]

\* It is cut up into those parts again.
LEMMA PointedParts ==
  ASSUME NEW text, NEW whole, NEW fraction, Pointed(text, whole, fraction)
  PROVE  /\ SubSeq(text, 1, Len(whole)) = whole
         /\ SubSeq(text, Len(whole) + 2, Len(text)) = fraction
<1> DEFINE first == SubSeq(text, 1, Len(whole))
           second == SubSeq(text, Len(whole) + 2, Len(text))
<1>1. /\ Len(whole) \in Nat /\ Len(fraction) \in Nat /\ Len(text) \in Nat
      /\ Len(text) = Len(whole) + 1 + Len(fraction)
      /\ whole \in Seq(Nat) /\ fraction \in Seq(Nat)
  BY DigitsAreNumbers DEF Pointed
<1>2. \A i \in 1 .. Len(text) : text[i] \in Nat
  BY DEF Pointed
<1>3. first = whole
  <2>1. /\ first \in Seq(Nat)
        /\ Len(first) = IF 1 <= Len(whole) THEN Len(whole) - 1 + 1 ELSE 0
        /\ \A i \in 1 .. Len(whole) - 1 + 1 : first[i] = text[1 + i - 1]
    BY <1>1, <1>2, SubSeqProperties
  <2> HIDE DEF first
  <2>2. Len(first) = Len(whole)
    BY <1>1, <2>1
  <2>3. ASSUME NEW i \in 1 .. Len(first) PROVE first[i] = whole[i]
    <3>1. i \in 1 .. Len(whole) - 1 + 1 /\ 1 + i - 1 = i /\ i \in 1 .. Len(whole)
      BY <1>1, <2>2
    <3>2. QED
      BY <2>1, <3>1 DEF Pointed
  <2>4. QED
    BY <1>1, <2>1, <2>2, <2>3, SeqEqual
<1>4. second = fraction
  <2> DEFINE m == Len(whole) + 2
             n == Len(text)
  <2>1. m \in Int /\ n \in Int /\ \A i \in m .. n : text[i] \in Nat
    BY <1>1, <1>2
  <2> HIDE DEF m, n
  <2>2. /\ SubSeq(text, m, n) \in Seq(Nat)
        /\ Len(SubSeq(text, m, n)) = IF m <= n THEN n - m + 1 ELSE 0
        /\ \A i \in 1 .. n - m + 1 : SubSeq(text, m, n)[i] = text[m + i - 1]
    BY <2>1, SubSeqProperties
  <2>3. second = SubSeq(text, m, n)
    BY DEF m, n
  <2> HIDE DEF second
  <2>4. n - m + 1 = Len(fraction)
    BY <1>1 DEF m, n
  <2>5. Len(second) = Len(fraction)
    BY <1>1, <2>1, <2>2, <2>3, <2>4
  <2>6. ASSUME NEW i \in 1 .. Len(second) PROVE second[i] = fraction[i]
    <3>1. i \in 1 .. n - m + 1 /\ i \in 1 .. Len(fraction)
      BY <2>4, <2>5
    <3>2. second[i] = text[m + i - 1]
      BY <2>2, <2>3, <3>1
    <3>3. m + i - 1 = Len(whole) + 1 + i
      BY <1>1 DEF m
    <3>4. QED
      BY <3>1, <3>2, <3>3 DEF Pointed
  <2>7. QED
    BY <1>1, <2>2, <2>3, <2>5, <2>6, SeqEqual
<1>5. QED
  BY <1>3, <1>4

LEMMA PointedConcat ==
  ASSUME NEW whole \in Seq(0 .. 9), NEW fraction \in Seq(0 .. 9)
  PROVE  Pointed(whole \o <<Dot>> \o fraction, whole, fraction)
<1> DEFINE dot == <<Dot>>
           front == whole \o dot
           text == front \o fraction
<1>1. /\ whole \in Seq(Nat) /\ fraction \in Seq(Nat) /\ dot \in Seq(Nat)
      /\ Len(dot) = 1 /\ dot[1] = Dot /\ Len(whole) \in Nat /\ Len(fraction) \in Nat
  BY DigitsAreNumbers DEF Dot
<1> HIDE DEF dot
<1>2. /\ front \in Seq(Nat) /\ Len(front) = Len(whole) + 1
      /\ \A i \in 1 .. Len(whole) : front[i] = whole[i]
      /\ front[Len(whole) + 1] = Dot
  <2>1. /\ front \in Seq(Nat) /\ Len(front) = Len(whole) + Len(dot)
        /\ \A i \in 1 .. Len(whole) + Len(dot) :
              front[i] = IF i <= Len(whole) THEN whole[i] ELSE dot[i - Len(whole)]
    BY <1>1, ConcatProperties
  <2> HIDE DEF front
  <2>2. Len(front) = Len(whole) + 1 /\ \A i \in 1 .. Len(whole) : front[i] = whole[i]
    BY <1>1, <2>1
  <2>3. front[Len(whole) + 1] = Dot
    <3>1. /\ Len(whole) + 1 \in 1 .. Len(whole) + Len(dot)
          /\ ~ Len(whole) + 1 <= Len(whole) /\ (Len(whole) + 1) - Len(whole) = 1
      BY <1>1
    <3>2. QED
      BY <1>1, <2>1, <3>1
  <2>4. QED
    BY <2>1, <2>2, <2>3
<1> HIDE DEF front
<1>3. /\ text \in Seq(Nat) /\ Len(text) = Len(whole) + 1 + Len(fraction)
      /\ \A i \in 1 .. Len(whole) + 1 : text[i] = front[i]
      /\ \A i \in 1 .. Len(fraction) : text[Len(whole) + 1 + i] = fraction[i]
  <2>1. /\ text \in Seq(Nat) /\ Len(text) = Len(front) + Len(fraction)
        /\ \A i \in 1 .. Len(front) + Len(fraction) :
              text[i] = IF i <= Len(front) THEN front[i] ELSE fraction[i - Len(front)]
    BY <1>1, <1>2, ConcatProperties
  <2> HIDE DEF text
  <2>2. ASSUME NEW i \in 1 .. Len(whole) + 1 PROVE text[i] = front[i]
    <3>1. i \in 1 .. Len(front) + Len(fraction) /\ i <= Len(front)
      BY <1>1, <1>2
    <3>2. QED
      BY <2>1, <3>1
  <2>3. ASSUME NEW i \in 1 .. Len(fraction)
        PROVE  text[Len(whole) + 1 + i] = fraction[i]
    <3>1. /\ Len(whole) + 1 + i \in 1 .. Len(front) + Len(fraction)
          /\ ~ Len(whole) + 1 + i <= Len(front)
          /\ (Len(whole) + 1 + i) - Len(front) = i
      BY <1>1, <1>2
    <3>2. QED
      BY <2>1, <3>1
  <2>4. QED
    BY <1>1, <1>2, <2>1, <2>2, <2>3
<1> HIDE DEF text
<1>4. \A i \in 1 .. Len(whole) : i \in 1 .. Len(whole) + 1
  BY <1>1
<1>5. Pointed(text, whole, fraction)
  BY <1>1, <1>2, <1>3, <1>4 DEF Pointed
<1>6. QED
  BY <1>5 DEF text, front, dot

LEMMA OneZero == Zeros(1) = <<0>>
<1> DEFINE zeros == Zeros(1)
<1>1. zeros \in Seq(Nat) /\ Len(zeros) = 1 /\ zeros[1] = 0
  BY DEF Zeros
<1> HIDE DEF zeros
<1>2. zeros = <<0>>
  BY <1>1
<1>3. QED
  BY <1>2 DEF zeros

\* What comes after the sign.
Unsigned(digits, decimals) ==
    IF decimals <= 0 THEN digits
    ELSE IF Len(digits) <= decimals
    THEN <<0, Dot>> \o Zeros(decimals - Len(digits)) \o digits
    ELSE SubSeq(digits, 1, Len(digits) - decimals) \o <<Dot>>
            \o SubSeq(digits, Len(digits) - decimals + 1, Len(digits))

\* With decimals there are a whole number before a point and all the decimals
\* after it, which make up the amount.
Cut(text, whole, fraction, decimals, n) ==
    /\ Pointed(text, whole, fraction)
    /\ Len(whole) >= 1 /\ (whole[1] = 0 => Len(whole) = 1)
    /\ Len(fraction) = decimals
    /\ Number(10, whole \o fraction) = n

LEMMA FewDigitsCut ==
  ASSUME NEW n, NEW digits, Writes(digits, n), NEW decimals \in Nat,
         Len(digits) <= decimals
  PROVE  \E whole, fraction : Cut(<<0, Dot>> \o Zeros(decimals - Len(digits)) \o digits,
                                  whole, fraction, decimals, n)
<1> DEFINE k == decimals - Len(digits)
           fraction == Zeros(k) \o digits
           whole == <<0>>
           dot == <<Dot>>
<1>1. digits \in Seq(0 .. 9) /\ digits \in Seq(Nat) /\ Len(digits) \in Nat
  BY DigitsAreNumbers DEF Writes
<1>2. k \in Nat /\ k + Len(digits) = decimals
  BY <1>1
<1> HIDE DEF k
<1>3. Zeros(k) \in Seq(0 .. 9) /\ Zeros(k) \in Seq(Nat) /\ Len(Zeros(k)) = k
  <2>1. Zeros(k) \in Seq(0 .. 9)
    BY <1>2 DEF Zeros
  <2>2. QED
    BY <1>2, <2>1, ZerosType
<1>4. fraction \in Seq(0 .. 9) /\ Len(fraction) = decimals
  BY <1>1, <1>2, <1>3, ConcatProperties
<1>5. Number(10, fraction) = n
  <2>1. Number(10, fraction) = Number(10, digits)
    BY <1>1, <1>2, LeadingZeros
  <2>2. QED
    BY <2>1 DEF Writes
<1>6. <<0, Dot>> \o Zeros(k) \o digits = whole \o dot \o fraction
  <2>1. <<0, Dot>> = whole \o dot
    OBVIOUS
  <2>2. /\ whole \in Seq(Nat) /\ dot \in Seq(Nat) /\ whole \o dot \in Seq(Nat)
    BY <2>1 DEF Dot
  <2> DEFINE front == whole \o dot
  <2> HIDE DEF front
  <2>3. front \o Zeros(k) \o digits = front \o fraction
    BY <1>1, <1>3, <2>2, ConcatAssociative DEF front
  <2>4. QED
    BY <2>1, <2>3 DEF front
<1>7. Number(10, whole \o fraction) = n
  <2>1. Zeros(1) = whole
    BY OneZero
  <2> HIDE DEF whole, fraction
  <2>2. Number(10, Zeros(1) \o fraction) = Number(10, fraction)
    BY <1>4, DigitsAreNumbers, LeadingZeros
  <2>3. QED
    BY <1>5, <2>1, <2>2
<1>8. whole \in Seq(0 .. 9) /\ Len(whole) = 1
  OBVIOUS
<1> HIDE DEF whole, fraction, dot
<1>9. Pointed(whole \o dot \o fraction, whole, fraction)
  BY <1>4, <1>8, PointedConcat DEF dot
<1>10. Cut(whole \o dot \o fraction, whole, fraction, decimals, n)
  BY <1>4, <1>7, <1>8, <1>9 DEF Cut
<1>11. QED
  BY <1>6, <1>10 DEF k

LEMMA ManyDigitsCut ==
  ASSUME NEW n, NEW digits, Writes(digits, n), NEW decimals \in Nat \ {0},
         Len(digits) > decimals
  PROVE  \E whole, fraction : Cut(SubSeq(digits, 1, Len(digits) - decimals) \o <<Dot>>
                                    \o SubSeq(digits, Len(digits) - decimals + 1, Len(digits)),
                                  whole, fraction, decimals, n)
<1> DEFINE split == Len(digits) - decimals
           len == Len(digits)
           whole == SubSeq(digits, 1, split)
           fraction == SubSeq(digits, split + 1, len)
<1>1. digits \in Seq(0 .. 9) /\ digits \in Seq(Nat) /\ len \in Nat
  BY DigitsAreNumbers DEF Writes
<1>2. split \in 1 .. len - 1 /\ len - split = decimals
  BY <1>1
<1>3. \A i \in 1 .. len : digits[i] \in 0 .. 9
  BY <1>1
<1> HIDE DEF split, len
<1>4. /\ whole \in Seq(0 .. 9) /\ Len(whole) = split
      /\ whole[1] = digits[1]
  <2>1. \A i \in 1 .. split : digits[i] \in 0 .. 9
    BY <1>1, <1>2, <1>3
  <2>2. /\ whole \in Seq(0 .. 9)
        /\ Len(whole) = IF 1 <= split THEN split - 1 + 1 ELSE 0
        /\ \A i \in 1 .. split - 1 + 1 : whole[i] = digits[1 + i - 1]
    BY <1>2, <2>1, SubSeqProperties
  <2> HIDE DEF whole
  <2>3. QED
    BY <1>1, <1>2, <2>2
<1>5. fraction \in Seq(0 .. 9) /\ Len(fraction) = decimals
  <2> DEFINE m == split + 1
  <2>1. m \in 1 .. len /\ \A i \in m .. len : digits[i] \in 0 .. 9
    BY <1>1, <1>2, <1>3
  <2>2. len - m + 1 = decimals
    BY <1>1, <1>2
  <2> HIDE DEF m
  <2>3. /\ SubSeq(digits, m, len) \in Seq(0 .. 9)
        /\ Len(SubSeq(digits, m, len)) = IF m <= len THEN len - m + 1 ELSE 0
    BY <1>1, <2>1, SubSeqProperties
  <2>4. QED
    BY <1>1, <2>1, <2>2, <2>3 DEF m
<1>6. whole \o fraction = digits
  <2>1. whole \o fraction = SubSeq(digits, 1, len)
    BY <1>1, <1>2, ConcatAdjacentSubSeq DEF len
  <2>2. QED
    BY <1>1, <2>1, SubSeqFull DEF len
<1>7. whole[1] = 0 => Len(whole) = 1
  <2>1. digits[1] # 0
    BY <1>1, <1>2 DEF Writes, len
  <2>2. QED
    BY <1>4, <2>1
<1> HIDE DEF whole, fraction
<1>8. Pointed(whole \o <<Dot>> \o fraction, whole, fraction)
  BY <1>4, <1>5, PointedConcat
<1>9. Cut(whole \o <<Dot>> \o fraction, whole, fraction, decimals, n)
  BY <1>1, <1>2, <1>4, <1>5, <1>6, <1>7, <1>8 DEF Cut, Writes
<1>10. QED
  BY <1>9 DEF whole, fraction, split, len

LEMMA DigitsOnly ==
  ASSUME NEW digits \in Seq(0 .. 9)
  PROVE  \A d \in Range(digits) : d \in 0 .. 9
  BY DEF Range

LEMMA PointedRange ==
  ASSUME NEW whole \in Seq(0 .. 9), NEW fraction \in Seq(0 .. 9)
  PROVE  \A d \in Range(whole \o fraction) : d \in 0 .. 9
<1>1. whole \o fraction \in Seq(0 .. 9)
  BY ConcatProperties
<1>2. QED
  BY <1>1, DigitsOnly

\* What the digits before and after the point are to be, of an unsigned text.
UnsignedIsExact(unsigned, decimals, n) ==
    LET scale == IF decimals > 0 THEN decimals ELSE 0
        point == Len(unsigned) - scale
        whole == IF scale = 0 THEN unsigned ELSE SubSeq(unsigned, 1, point - 1)
        fraction == IF scale = 0 THEN <<>> ELSE SubSeq(unsigned, point + 1, Len(unsigned))
    IN /\ scale > 0 => unsigned[point] = Dot
       /\ Len(whole) >= 1 /\ (whole[1] = 0 => Len(whole) = 1)
       /\ \A d \in Range(whole \o fraction) : d \in 0 .. 9
       /\ Number(10, whole \o fraction) = n

\* A text begins with a digit.
Begins(text) == text \in Seq(Nat) /\ Len(text) >= 1 /\ text[1] \in 0 .. 9

LEMMA UnsignedExact ==
  ASSUME NEW n, NEW digits, Writes(digits, n), NEW decimals \in Int
  PROVE  /\ Begins(Unsigned(digits, decimals))
         /\ UnsignedIsExact(Unsigned(digits, decimals), decimals, n)
<1> DEFINE text == Unsigned(digits, decimals)
<1>1. digits \in Seq(0 .. 9) /\ digits \in Seq(Nat) /\ Len(digits) \in Nat /\ Len(digits) >= 1
  BY DigitsAreNumbers DEF Writes
<1>2. CASE decimals <= 0
  <2>1. text = digits
    BY <1>2 DEF Unsigned
  <2>2. Begins(text)
    BY <1>1, <2>1 DEF Begins
  <2>3. digits \o <<>> = digits
    BY <1>1, ConcatEmptySeq
  <2>4. /\ digits[1] = 0 => Len(digits) = 1
        /\ Number(10, digits) = n /\ \A d \in Range(digits) : d \in 0 .. 9
    BY <1>1, DigitsOnly DEF Writes
  <2>5. UnsignedIsExact(digits, decimals, n)
    <3>1. ~ decimals > 0
      BY <1>2
    <3>2. QED
      BY <1>1, <2>3, <2>4, <3>1 DEF UnsignedIsExact
  <2>6. QED
    BY <2>1, <2>2, <2>5
<1>3. CASE decimals > 0
  <2>1. PICK whole, fraction : Cut(text, whole, fraction, decimals, n)
    <3>1. CASE Len(digits) <= decimals
      <4>1. text = <<0, Dot>> \o Zeros(decimals - Len(digits)) \o digits
        BY <1>3, <3>1 DEF Unsigned
      <4>2. decimals \in Nat
        BY <1>3
      <4>3. QED
        BY <3>1, <4>1, <4>2, FewDigitsCut
    <3>2. CASE Len(digits) > decimals
      <4>1. ~ Len(digits) <= decimals /\ ~ decimals <= 0 /\ decimals \in Nat \ {0}
        BY <1>1, <1>3, <3>2
      <4>2. text = SubSeq(digits, 1, Len(digits) - decimals) \o <<Dot>>
                     \o SubSeq(digits, Len(digits) - decimals + 1, Len(digits))
        BY Zenon, <4>1 DEF Unsigned
      <4>3. QED
        BY <3>2, <4>1, <4>2, ManyDigitsCut
    <3>3. QED
      BY <1>1, <1>3, <3>1, <3>2
  <2> HIDE DEF text
  <2>2. /\ whole \in Seq(0 .. 9) /\ fraction \in Seq(0 .. 9) /\ text \in Seq(Nat)
        /\ Len(whole) \in Nat /\ Len(whole) >= 1 /\ Len(fraction) = decimals
        /\ Len(text) = Len(whole) + 1 + decimals
        /\ text[Len(whole) + 1] = Dot
    BY <2>1, DigitsAreNumbers DEF Cut, Pointed
  <2>3. /\ SubSeq(text, 1, Len(whole)) = whole
        /\ SubSeq(text, Len(whole) + 2, Len(text)) = fraction
    BY <2>1, PointedParts DEF Cut
  <2>4. Begins(text)
    <3>1. text[1] = whole[1] /\ whole[1] \in 0 .. 9
      BY <2>1, <2>2 DEF Cut, Pointed
    <3>2. QED
      BY <1>3, <2>2, <3>1 DEF Begins
  <2> DEFINE point == Len(text) - decimals
  <2>5. point = Len(whole) + 1 /\ point - 1 = Len(whole) /\ point + 1 = Len(whole) + 2
    BY <2>2
  <2>6. \A d \in Range(whole \o fraction) : d \in 0 .. 9
    BY <2>2, PointedRange
  <2>7. /\ text[point] = Dot
        /\ SubSeq(text, 1, point - 1) = whole /\ SubSeq(text, point + 1, Len(text)) = fraction
    BY <2>2, <2>3, <2>5
  <2>8. /\ Len(whole) >= 1 /\ (whole[1] = 0 => Len(whole) = 1)
        /\ Number(10, whole \o fraction) = n
    BY <2>1 DEF Cut
  <2>9. decimals > 0 /\ decimals # 0
    BY <1>3
  <2>10. UnsignedIsExact(text, decimals, n)
    BY Zenon, <2>6, <2>7, <2>8, <2>9 DEF UnsignedIsExact
  <2>11. QED
    BY <2>4, <2>10 DEF text
<1>4. QED
  BY <1>2, <1>3

LEMMA AmountHolds ==
  ASSUME NEW amount \in Amounts, NEW decimals \in Int
  PROVE  AmountIsExact(amount, decimals)
<1> DEFINE n == UnsignedAbs(amount)
           rest == Unsigned(Digits[n], decimals)
           text == FormatTokenAmount(amount, decimals)
           unsigned == IF text[1] = Minus THEN Tail(text) ELSE text
<1>1. n \in 0 .. Limit /\ n = (IF amount < 0 THEN -amount ELSE amount)
  BY LimitAssumption DEF UnsignedAbs, Amounts
<1>2. Begins(rest) /\ UnsignedIsExact(rest, decimals, n)
  BY <1>1, DigitsWrite, UnsignedExact
<1>3. text = IF amount < 0 THEN <<Minus>> \o rest ELSE rest
  BY Zenon DEF FormatTokenAmount, Unsigned
<1> HIDE DEF rest, n, text
<1>4. (text[1] = Minus <=> amount < 0) /\ unsigned = rest
  <2>1. CASE amount < 0
    <3> DEFINE sign == <<Minus>>
    <3>1. text = sign \o rest
      BY <1>3, <2>1
    <3>2. sign \in Seq(Nat) /\ Len(sign) = 1 /\ sign[1] = Minus
      BY DEF Minus
    <3>3. rest \in Seq(Nat)
      BY <1>2 DEF Begins
    <3> HIDE DEF sign
    <3>4. /\ text \in Seq(Nat) /\ Len(text) = Len(rest) + 1
          /\ text[1] = Minus /\ \A i \in 1 .. Len(rest) : text[i + 1] = rest[i]
      <4>1. /\ sign \o rest \in Seq(Nat) /\ Len(sign \o rest) = Len(sign) + Len(rest)
            /\ \A i \in 1 .. Len(sign) + Len(rest) :
                  (sign \o rest)[i] = IF i <= Len(sign) THEN sign[i] ELSE rest[i - Len(sign)]
        BY <3>2, <3>3, ConcatProperties
      <4>2. QED
        BY <3>1, <3>2, <3>3, <4>1
    <3>5. Tail(text) = rest
      <4>1. /\ Tail(text) \in Seq(Nat) /\ Len(Tail(text)) = Len(text) - 1
            /\ \A i \in 1 .. Len(Tail(text)) : Tail(text)[i] = text[i + 1]
        <5>1. text # <<>>
          BY <3>3, <3>4
        <5>2. QED
          BY <3>4, <5>1, HeadTailProperties
      <4>2. Len(Tail(text)) = Len(rest)
        BY <3>3, <3>4, <4>1
      <4>3. QED
        BY <3>3, <3>4, <4>1, <4>2, SeqEqual
    <3>6. QED
      BY <2>1, <3>4, <3>5
  <2>2. CASE ~ amount < 0
    <3>1. text = rest
      BY <1>3, <2>2
    <3>2. text[1] # Minus
      BY <1>2, <3>1 DEF Begins, Minus
    <3>3. QED
      BY <2>2, <3>1, <3>2
  <2>3. QED
    BY <2>1, <2>2
<1>5. UnsignedIsExact(unsigned, decimals, IF amount < 0 THEN -amount ELSE amount)
  BY <1>1, <1>2, <1>4
<1> HIDE DEF unsigned
<1>6. QED
  BY Zenon, <1>4, <1>5 DEF AmountIsExact, UnsignedIsExact, unsigned, text

-----------------------------------------------------------------------------
(* Scrypt. *)

\* What the steps of a recursion keep, holds all along.
LEMMA KeptAlong ==
  ASSUME NEW n \in Nat, NEW V, NEW f, f[0] \in V,
         \A i \in 1 .. n : f[i - 1] \in V => f[i] \in V
  PROVE  \A i \in 0 .. n : f[i] \in V
<1> DEFINE S == {i \in Nat : f[i] \in V}
<1>1. 0 \in S
  OBVIOUS
<1>2. ASSUME NEW i \in 0 .. n - 1, i \in S PROVE i + 1 \in S
  <2>1. i + 1 \in 1 .. n /\ (i + 1) - 1 = i
    OBVIOUS
  <2>2. f[i + 1] \in V
    BY <1>2, <2>1
  <2>3. QED
    BY <2>1, <2>2
<1> HIDE DEF S
<1>3. \A i \in 0 .. n : i \in S
  BY <1>1, <1>2, BoundedInduction
<1>4. QED
  BY <1>3 DEF S

\* A chain, read as the function that its recursion defines.
Steps(f, n, V, base, step) ==
    /\ f = [i \in 0 .. n |-> f[i]] /\ f[0] = base
    /\ \A i \in 1 .. n : f[i - 1] \in V /\ f[i] = step[<<i, f[i - 1]>>]

LEMMA StepsExist ==
  ASSUME NEW n \in Nat, NEW V, NEW base \in V, NEW step \in [(1 .. n) \X V -> V]
  PROVE  \E f : Steps(f, n, V, base, step)
<1>1. PICK f : Chain(f, n, V, base, step)
  BY ChainExists
<1>2. \A i \in 1 .. n : i - 1 \in 0 .. n
  OBVIOUS
<1>3. QED
  BY <1>1, <1>2 DEF Chain, Steps

LEMMA LenOfBlock ==
  ASSUME NEW m \in Nat, NEW S, NEW b \in [1 .. m -> S]
  PROVE  b \in Seq(S) /\ Len(b) = m
  OBVIOUS

\* The results for the blocks of b, one after the other.
Mixes(b, x) ==
    x = [i \in 0 .. Len(b) |-> IF i = 0 THEN b[Len(b)] ELSE Salsa[BitXor(x[i - 1], b[i])]]

Mixed(b) == CHOOSE x : Mixes(b, x)

LEMMA MixedType ==
  ASSUME NEW m \in Nat \ {0}, NEW b \in [1 .. m -> Words]
  PROVE  \A i \in 0 .. m : Mixed(b)[i] \in Words
<1> DEFINE step == [p \in (1 .. m) \X Words |-> Salsa[BitXor(p[2], b[p[1]])]]
           x == Mixed(b)
           after(f, i) == Salsa[BitXor(f[i - 1], b[i])]
           value(f, i) == IF i = 0 THEN b[m] ELSE after(f, i)
<1>1. Len(b) = m
  BY LenOfBlock
<1>2. \A i \in 1 .. m, w \in Words : b[i] \in Words /\ Salsa[BitXor(w, b[i])] \in Words
  BY WordsAssumption
<1>3. step \in [(1 .. m) \X Words -> Words]
  BY <1>2
<1>4. \A i \in 1 .. m, w \in Words : step[<<i, w>>] = Salsa[BitXor(w, b[i])]
  OBVIOUS
<1> HIDE DEF step
<1>5. b[m] \in Words
  BY <1>2
<1>6. \E f : Mixes(b, f)
  <2>1. PICK f : Steps(f, m, Words, b[m], step)
    BY <1>3, <1>5, StepsExist
  <2>2. f = [i \in 0 .. m |-> f[i]] /\ f[0] = b[m] /\ \A i \in 1 .. m : f[i] = after(f, i)
    BY <1>4, <2>1 DEF Steps
  <2> HIDE DEF after
  <2>3. \A i \in 0 .. m : f[i] = value(f, i)
    BY <2>2
  <2> HIDE DEF value
  <2>4. f = [i \in 0 .. m |-> value(f, i)]
    BY <2>2, <2>3
  <2>5. QED
    BY <1>1, <2>4 DEF Mixes, value, after
<1>7. Mixes(b, x)
  BY <1>6 DEF Mixed
<1> HIDE DEF x
<1>8. x = [i \in 0 .. m |-> value(x, i)]
  BY <1>1, <1>7 DEF Mixes
<1> HIDE DEF after
<1>9. x[0] = b[m] /\ \A i \in 1 .. m : x[i] = after(x, i)
  BY <1>8
<1>10. \A i \in 1 .. m : x[i - 1] \in Words => x[i] \in Words
  BY <1>2, <1>9 DEF after
<1>11. \A i \in 0 .. m : x[i] \in Words
  BY <1>5, <1>9, <1>10, KeptAlong
<1>12. QED
  BY <1>11 DEF x

\* The results for the odd blocks are put first, those for the even ones last.
LEMMA Positions ==
  ASSUME NEW r \in Nat \ {0}, NEW k \in 1 .. r
  PROVE  /\ CompatPosition((2 * k - 1) - 1, 2 * r) + 1 = k
         /\ CompatPosition((2 * k) - 1, 2 * r) + 1 = r + k
<1>1. /\ ((2 * k - 1) - 1) % 2 = 0 /\ ((2 * k - 1) - 1) \div 2 = k - 1
      /\ ((2 * k) - 1) % 2 = 1 /\ ((2 * k) - 1) \div 2 = k - 1
      /\ (2 * r) \div 2 = r
  OBVIOUS
<1>2. QED
  BY <1>1 DEF CompatPosition

LEMMA OddOrEven ==
  ASSUME NEW r \in Nat \ {0}, NEW i \in 1 .. 2 * r
  PROVE  \E k \in 1 .. r : i = 2 * k - 1 \/ i = 2 * k
<1> DEFINE k == (i + 1) \div 2
<1>1. k \in 1 .. r /\ (i = 2 * k - 1 \/ i = 2 * k)
  OBVIOUS
<1>2. QED
  BY <1>1

\* Where the result for block i, counted from 1, is put.
Place(r, i) == CompatPosition(i - 1, 2 * r) + 1

LEMMA PlacesDiffer ==
  ASSUME NEW r \in Nat \ {0}
  PROVE  /\ \A i \in 1 .. 2 * r : Place(r, i) \in 1 .. 2 * r
         /\ \A i, j \in 1 .. 2 * r : Place(r, i) = Place(r, j) => i = j
<1>1. ASSUME NEW i \in 1 .. 2 * r
      PROVE  \E k \in 1 .. r : \/ i = 2 * k - 1 /\ Place(r, i) = k
                               \/ i = 2 * k /\ Place(r, i) = r + k
  <2>1. PICK k \in 1 .. r : i = 2 * k - 1 \/ i = 2 * k
    BY OddOrEven
  <2>2. i = 2 * k - 1 => Place(r, i) = k
    BY Positions DEF Place
  <2>3. i = 2 * k => Place(r, i) = r + k
    BY Positions DEF Place
  <2>4. QED
    BY <2>1, <2>2, <2>3
<1>2. QED
  BY <1>1

\* Output with more and more of the results put in their places.
Puts(input, output, out) ==
    out = [i \in 0 .. Len(input) |->
              IF i = 0 THEN output
              ELSE [out[i - 1] EXCEPT
                       ![CompatPosition(i - 1, Len(input)) + 1] = Mixed(input)[i]]]

PutsOneByOne(r, b, output, out) ==
    /\ CompatBlockMix(b, output) = out[2 * r] /\ out[0] = output
    /\ \A i \in 1 .. 2 * r : out[i] = [out[i - 1] EXCEPT ![Place(r, i)] = Mixed(b)[i]]

LEMMA PutsHold ==
  ASSUME NEW r \in Nat \ {0}, NEW b \in [1 .. 2 * r -> Words],
         NEW output \in [1 .. 2 * r -> Words]
  PROVE  \E out : PutsOneByOne(r, b, output, out)
<1> DEFINE m == 2 * r
           x == Mixed(b)
           V == [1 .. m -> Words]
           put(o, i) == [o EXCEPT ![Place(r, i)] = x[i]]
           step == [p \in (1 .. m) \X V |-> put(p[2], p[1])]
           out == CHOOSE f : Puts(b, output, f)
           after(f, i) == [f[i - 1] EXCEPT ![CompatPosition(i - 1, Len(b)) + 1] = x[i]]
           value(f, i) == IF i = 0 THEN output ELSE after(f, i)
<1>1. m \in Nat \ {0} /\ Len(b) = m
  BY LenOfBlock
<1>2. \A i \in 0 .. m : x[i] \in Words
  BY <1>1, MixedType
<1>3. CompatBlockMix(b, output) = out[m]
  BY Zenon, <1>1 DEF CompatBlockMix, Puts, Mixed, Mixes
<1>4. ASSUME NEW f, NEW i \in 1 .. m
      PROVE  after(f, i) = put(f[i - 1], i)
  BY <1>1 DEF Place
<1> HIDE DEF x
<1>5. ASSUME NEW o \in V, NEW i \in 1 .. m
      PROVE  put(o, i) \in V
  <2>1. x[i] \in Words
    BY <1>2
  <2>2. Place(r, i) \in 1 .. m
    BY PlacesDiffer
  <2>3. QED
    BY <2>1, <2>2
<1>6. step \in [(1 .. m) \X V -> V]
  <2> HIDE DEF V, put
  <2>1. QED
    BY <1>5
<1> HIDE DEF put
<1>7. \A i \in 1 .. m, o \in V : step[<<i, o>>] = put(o, i)
  OBVIOUS
<1> HIDE DEF step
<1>8. \E f : Puts(b, output, f)
  <2>1. PICK f : Steps(f, m, V, output, step)
    <3>1. output \in V /\ m \in Nat
      BY <1>1
    <3> HIDE DEF m, V
    <3>2. QED
      BY <1>6, <3>1, StepsExist
  <2>2. f = [i \in 0 .. m |-> f[i]] /\ f[0] = output /\ \A i \in 1 .. m : f[i] = after(f, i)
    <3> HIDE DEF V, after
    <3>1. QED
      BY <1>4, <1>7, <2>1 DEF Steps
  <2> HIDE DEF after
  <2>3. \A i \in 0 .. m : f[i] = value(f, i)
    BY <2>2
  <2> HIDE DEF value
  <2>4. f = [i \in 0 .. m |-> value(f, i)]
    BY <2>2, <2>3
  <2>5. QED
    BY <1>1, <2>4 DEF Puts, value, after, x
<1>9. Puts(b, output, out)
  BY <1>8
<1> HIDE DEF out
<1>10. out = [i \in 0 .. m |-> value(out, i)]
  BY Zenon, <1>1, <1>9 DEF Puts, value, after, x
<1> HIDE DEF after
<1>11. out[0] = output /\ \A i \in 1 .. m : out[i] = after(out, i)
  BY <1>10
<1>12. \A i \in 1 .. m : out[i] = [out[i - 1] EXCEPT ![Place(r, i)] = x[i]]
  BY <1>4, <1>11 DEF put
<1>13. QED
  BY <1>3, <1>11, <1>12 DEF PutsOneByOne, x

\* Whatever output held before, it then holds what RFC 7914 says.
LEMMA BlockMixIsRfc ==
  ASSUME NEW r \in Nat \ {0}, NEW b \in [1 .. 2 * r -> Words],
         NEW output \in [1 .. 2 * r -> Words]
  PROVE  /\ CompatBlockMix(b, output) = RfcBlockMix(b)
         /\ RfcBlockMix(b) \in [1 .. 2 * r -> Words]
<1> DEFINE m == 2 * r
           x == Mixed(b)
           V == [1 .. m -> Words]
           odd == [k \in 1 .. r |-> x[2 * k - 1]]
           even == [k \in 1 .. r |-> x[2 * k]]
<1>1. m \in Nat \ {0} /\ Len(b) = m /\ Len(b) \div 2 = r
  BY LenOfBlock
<1>2. \A i \in 0 .. m : x[i] \in Words
  BY <1>1, MixedType
<1>3. RfcBlockMix(b) = odd \o even
  BY Zenon, <1>1 DEF RfcBlockMix, Mixed, Mixes
<1> HIDE DEF x
<1> PICK out : PutsOneByOne(r, b, output, out)
  BY PutsHold
<1>4. /\ CompatBlockMix(b, output) = out[m] /\ out[0] = output
      /\ \A i \in 1 .. m : out[i] = [out[i - 1] EXCEPT ![Place(r, i)] = x[i]]
  BY DEF PutsOneByOne, x
<1> DEFINE Put(i) == out[i] \in V /\ \A j \in 1 .. i : out[i][Place(r, j)] = x[j]
           S == {i \in Nat : Put(i)}
<1>5. 0 \in S
  BY <1>4
<1>6. ASSUME NEW i \in 0 .. m - 1, i \in S PROVE i + 1 \in S
  <2>1. i + 1 \in 1 .. m /\ (i + 1) - 1 = i /\ i \in Nat
    BY <1>1
  <2>2. Put(i)
    BY <1>6
  <2>3. out[i + 1] = [out[i] EXCEPT ![Place(r, i + 1)] = x[i + 1]]
    BY <1>4, <2>1
  <2>4. x[i + 1] \in Words
    BY <1>2, <2>1
  <2>5. Place(r, i + 1) \in 1 .. m
    BY <2>1, PlacesDiffer
  <2>6. out[i + 1] \in V
    BY <2>2, <2>3, <2>4, <2>5
  <2>7. ASSUME NEW j \in 1 .. i + 1 PROVE out[i + 1][Place(r, j)] = x[j]
    <3>1. j \in 1 .. m
      BY <2>1
    <3>2. Place(r, j) \in 1 .. m /\ (Place(r, j) = Place(r, i + 1) => j = i + 1)
      BY <2>1, <3>1, PlacesDiffer
    <3>3. CASE j = i + 1
      BY <2>2, <2>3, <2>5, <3>3
    <3>4. CASE j # i + 1
      <4>1. j \in 1 .. i
        BY <2>1, <3>4
      <4>2. out[i][Place(r, j)] = x[j]
        BY <2>2, <4>1
      <4>3. QED
        BY <2>2, <2>3, <3>2, <3>4, <4>2
    <3>5. QED
      BY <3>3, <3>4
  <2>8. Put(i + 1)
    BY <2>6, <2>7
  <2> HIDE DEF Put
  <2>9. QED
    BY <2>1, <2>8
<1> HIDE DEF S
<1>7. \A i \in 0 .. m : i \in S
  BY <1>1, <1>5, <1>6, BoundedInduction
<1>8. m \in S
  BY <1>1, <1>7
<1>9. Put(m)
  BY <1>8 DEF S
<1>10. /\ odd \in Seq(Words) /\ Len(odd) = r /\ even \in Seq(Words) /\ Len(even) = r
       /\ \A k \in 1 .. r : odd[k] = x[2 * k - 1] /\ even[k] = x[2 * k]
  <2>1. \A k \in 1 .. r : x[2 * k - 1] \in Words /\ x[2 * k] \in Words
    BY <1>2
  <2>2. odd \in [1 .. r -> Words] /\ even \in [1 .. r -> Words]
    BY <2>1
  <2>3. QED
    BY <2>2, LenOfBlock
<1> HIDE DEF odd, even
<1> DEFINE rfc == odd \o even
<1>11. /\ rfc \in Seq(Words) /\ Len(rfc) = r + r
       /\ \A i \in 1 .. r + r : rfc[i] = IF i <= r THEN odd[i] ELSE even[i - r]
  <2>1. /\ rfc \in Seq(Words) /\ Len(rfc) = Len(odd) + Len(even)
        /\ \A i \in 1 .. Len(odd) + Len(even) :
              rfc[i] = IF i <= Len(odd) THEN odd[i] ELSE even[i - Len(odd)]
    BY <1>10, ConcatProperties
  <2> HIDE DEF rfc
  <2>2. QED
    BY <1>10, <2>1
<1> HIDE DEF rfc
<1>12. r + r = m
  OBVIOUS
<1>13. rfc \in V
  BY <1>11, <1>12
<1>14. ASSUME NEW k \in 1 .. m PROVE out[m][k] = rfc[k]
  <2>1. CASE k <= r
    <3>1. k \in 1 .. r /\ 2 * k - 1 \in 1 .. m
      BY <1>1, <2>1
    <3>2. rfc[k] = x[2 * k - 1]
      BY <1>10, <1>11, <1>12, <2>1, <3>1
    <3>3. Place(r, 2 * k - 1) = k
      BY <3>1, Positions DEF Place
    <3>4. QED
      BY <1>9, <3>1, <3>2, <3>3
  <2>2. CASE k > r
    <3>1. k - r \in 1 .. r /\ 2 * (k - r) \in 1 .. m /\ r + (k - r) = k
      BY <1>1, <2>2
    <3>2. rfc[k] = x[2 * (k - r)]
      BY <1>10, <1>11, <1>12, <2>2, <3>1
    <3>3. Place(r, 2 * (k - r)) = k
      BY <3>1, Positions DEF Place
    <3>4. QED
      BY <1>9, <3>1, <3>2, <3>3
  <2>3. QED
    BY <2>1, <2>2
<1>15. out[m] = rfc
  BY <1>9, <1>13, <1>14
<1>16. QED
  BY <1>3, <1>4, <1>13, <1>15 DEF rfc

Blocks(r) == [1 .. 2 * r -> Words]

\* The chunks of RFC 7914's V, and of its X from a first one on.
RfcFills(b, n, f) == f = [i \in 0 .. n |-> IF i = 0 THEN b ELSE RfcBlockMix(f[i - 1])]

RfcMixes(b, V, n, f) == f = [i \in 0 .. n |-> IF i = 0 THEN b ELSE RfcStep(f[i - 1], V, n)]

RfcFilled(b, n) == CHOOSE f : RfcFills(b, n, f)

RfcMixed(b, V, n) == CHOOSE f : RfcMixes(b, V, n, f)

\* The states of the code's two loops.
Fills(s, n, f) == f = [i \in 0 .. n |-> IF i = 0 THEN s ELSE Fill(f[i - 1], i)]

CompatMixes(b, v, n, f) == f = [i \in 0 .. n |-> IF i = 0 THEN b ELSE Mix(f[i - 1], v, n)]

Filled(s, n) == CHOOSE f : Fills(s, n, f)

CompatMixed(b, v, n) == CHOOSE f : CompatMixes(b, v, n, f)

LEMMA RfcFilledAt ==
  ASSUME NEW r \in Nat \ {0}, NEW n \in Nat, NEW b \in Blocks(r)
  PROVE  LET f == RfcFilled(b, n)
         IN /\ f[0] = b /\ \A i \in 1 .. n : f[i] = RfcBlockMix(f[i - 1])
            /\ \A i \in 0 .. n : f[i] \in Blocks(r)
<1> DEFINE V == Blocks(r)
           f == RfcFilled(b, n)
           step == [p \in (1 .. n) \X V |-> RfcBlockMix(p[2])]
           after(g, i) == RfcBlockMix(g[i - 1])
           value(g, i) == IF i = 0 THEN b ELSE after(g, i)
<1>1. ASSUME NEW s \in V PROVE RfcBlockMix(s) \in V
  BY BlockMixIsRfc DEF Blocks
<1> HIDE DEF V
<1>2. step \in [(1 .. n) \X V -> V] /\ b \in V
  BY <1>1 DEF V
<1>3. \A i \in 1 .. n, s \in V : step[<<i, s>>] = RfcBlockMix(s)
  OBVIOUS
<1> HIDE DEF step
<1>4. PICK g : Steps(g, n, V, b, step)
  BY <1>2, StepsExist
<1>5. g = [i \in 0 .. n |-> g[i]] /\ g[0] = b /\ \A i \in 1 .. n : g[i] = after(g, i)
  BY <1>3, <1>4 DEF Steps
<1> HIDE DEF after
<1>6. \A i \in 0 .. n : g[i] = value(g, i)
  BY <1>5
<1>7. g = [i \in 0 .. n |-> value(g, i)]
  <2> HIDE DEF value
  <2>1. QED
    BY <1>5, <1>6
<1>8. RfcFills(b, n, f)
  BY <1>7 DEF RfcFills, RfcFilled, value, after
<1> HIDE DEF f
<1>9. f = [i \in 0 .. n |-> value(f, i)]
  BY <1>8 DEF RfcFills, value, after
<1>10. f[0] = b /\ \A i \in 1 .. n : f[i] = after(f, i)
  BY <1>9
<1>11. \A i \in 1 .. n : f[i - 1] \in V => f[i] \in V
  BY <1>1, <1>10 DEF after
<1>12. \A i \in 0 .. n : f[i] \in V
  BY <1>2, <1>10, <1>11, KeptAlong
<1>13. QED
  BY <1>10, <1>12 DEF f, after, V

\* v holds the chunks of V, up to the n-th, counted from 1 instead of from 0.
Holds(v, V, n) == \A j \in 0 .. n - 1 : v[j + 1] = V[j]

\* The code mixes as RFC 7914 does, with the chunk the same integer selects.
LEMMA MixIsStep ==
  ASSUME NEW r \in Nat \ {0}, NEW n, HasMask(n), NEW b \in Blocks(r),
         NEW V, \A j \in 0 .. n - 1 : V[j] \in Blocks(r)
  PROVE  /\ RfcStep(b, V, n) \in Blocks(r)
         /\ \A v : Holds(v, V, n) => Mix(b, v, n) = RfcStep(b, V, n)
<1> DEFINE w == b[Len(b)]
           j == w % n
           xored == [k \in DOMAIN b |-> BitXor(b[k], V[j][k])]
<1>1. n \in Nat \ {0} /\ 2 * r \in Nat \ {0}
  BY DEF HasMask
<1>2. Len(b) = 2 * r /\ DOMAIN b = 1 .. 2 * r /\ \A k \in 1 .. 2 * r : b[k] \in Words
  BY <1>1, LenOfBlock DEF Blocks
<1>3. w \in Words /\ w \in Nat
  <2>1. 2 * r \in 1 .. 2 * r /\ w = b[2 * r]
    BY <1>1, <1>2
  <2>2. w \in Words
    BY <1>2, <2>1
  <2> HIDE DEF w
  <2>3. QED
    BY <2>2, WordsAssumption
<1> HIDE DEF w
<1>4. j \in 0 .. n - 1
  BY <1>1, <1>3
<1>5. BitAnd(w, n - 1) = j
  BY <1>3 DEF HasMask
<1>6. V[j] \in Blocks(r)
  BY <1>4
<1>7. RfcStep(b, V, n) = RfcBlockMix(xored)
  BY Zenon DEF RfcStep, w
<1>8. ASSUME NEW v, Holds(v, V, n) PROVE Mix(b, v, n) = CompatBlockMix(xored, b)
  <2>1. v[j + 1] = V[j]
    BY <1>4, <1>8 DEF Holds
  <2>2. CompatIntegerify(b, n) = j
    BY <1>5 DEF CompatIntegerify, w
  <2> HIDE DEF j
  <2>3. v[CompatIntegerify(b, n) + 1] = V[j]
    BY <2>1, <2>2
  <2>4. QED
    BY Zenon, <2>3 DEF Mix, CompatXor
<1> HIDE DEF j
<1>9. xored \in Blocks(r)
  <2>1. \A k \in 1 .. 2 * r : V[j][k] \in Words
    BY <1>6 DEF Blocks
  <2>2. \A k \in 1 .. 2 * r : BitXor(b[k], V[j][k]) \in Words
    BY <1>2, <2>1, WordsAssumption
  <2>3. QED
    BY <1>2, <2>2 DEF Blocks
<1> HIDE DEF xored
<1>10. /\ RfcBlockMix(xored) \in Blocks(r)
       /\ CompatBlockMix(xored, b) = RfcBlockMix(xored)
  BY <1>9, BlockMixIsRfc DEF Blocks
<1>11. QED
  BY <1>7, <1>8, <1>10

LEMMA RfcMixedAt ==
  ASSUME NEW r \in Nat \ {0}, NEW n, HasMask(n), NEW b \in Blocks(r),
         NEW V, \A j \in 0 .. n - 1 : V[j] \in Blocks(r)
  PROVE  LET f == RfcMixed(b, V, n)
         IN /\ f[0] = b /\ \A i \in 1 .. n : f[i] = RfcStep(f[i - 1], V, n)
            /\ \A i \in 0 .. n : f[i] \in Blocks(r)
<1> DEFINE B == Blocks(r)
           f == RfcMixed(b, V, n)
           step == [p \in (1 .. n) \X B |-> RfcStep(p[2], V, n)]
           after(g, i) == RfcStep(g[i - 1], V, n)
           value(g, i) == IF i = 0 THEN b ELSE after(g, i)
<1>1. ASSUME NEW s \in B PROVE RfcStep(s, V, n) \in B
  BY MixIsStep
<1> HIDE DEF B
<1>2. step \in [(1 .. n) \X B -> B] /\ b \in B /\ n \in Nat
  BY <1>1 DEF B, HasMask
<1>3. \A i \in 1 .. n, s \in B : step[<<i, s>>] = RfcStep(s, V, n)
  OBVIOUS
<1> HIDE DEF step
<1>4. PICK g : Steps(g, n, B, b, step)
  BY <1>2, StepsExist
<1>5. g = [i \in 0 .. n |-> g[i]] /\ g[0] = b /\ \A i \in 1 .. n : g[i] = after(g, i)
  BY <1>3, <1>4 DEF Steps
<1> HIDE DEF after
<1>6. \A i \in 0 .. n : g[i] = value(g, i)
  BY <1>2, <1>5
<1>7. g = [i \in 0 .. n |-> value(g, i)]
  <2> HIDE DEF value
  <2>1. QED
    BY <1>5, <1>6
<1>8. RfcMixes(b, V, n, f)
  BY <1>7 DEF RfcMixes, RfcMixed, value, after
<1> HIDE DEF f
<1>9. f = [i \in 0 .. n |-> value(f, i)]
  BY <1>8 DEF RfcMixes, value, after
<1>10. f[0] = b /\ \A i \in 1 .. n : f[i] = after(f, i)
  BY <1>2, <1>9
<1>11. \A i \in 1 .. n : f[i - 1] \in B => f[i] \in B
  BY <1>1, <1>10 DEF after
<1>12. \A i \in 0 .. n : f[i] \in B
  BY <1>2, <1>10, <1>11, KeptAlong
<1>13. QED
  BY <1>10, <1>12 DEF f, after, B

LEMMA CompatMixedAt ==
  ASSUME NEW r \in Nat \ {0}, NEW n, HasMask(n), NEW b \in Blocks(r), NEW v,
         NEW V, \A j \in 0 .. n - 1 : V[j] \in Blocks(r), Holds(v, V, n)
  PROVE  LET f == CompatMixed(b, v, n)
         IN f[0] = b /\ \A i \in 1 .. n : f[i] = Mix(f[i - 1], v, n)
<1> DEFINE f == CompatMixed(b, v, n)
           g == RfcMixed(b, V, n)
           after(h, i) == Mix(h[i - 1], v, n)
           value(h, i) == IF i = 0 THEN b ELSE after(h, i)
<1>1. n \in Nat
  BY DEF HasMask
<1>2. /\ g[0] = b /\ \A i \in 1 .. n : g[i] = RfcStep(g[i - 1], V, n)
      /\ \A i \in 0 .. n : g[i] \in Blocks(r)
  BY RfcMixedAt
<1> HIDE DEF g
<1> DEFINE h == [i \in 0 .. n |-> g[i]]
<1>3. h[0] = b /\ \A i \in 1 .. n : h[i - 1] = g[i - 1] /\ h[i] = g[i]
  BY <1>1, <1>2
<1>4. ASSUME NEW i \in 1 .. n PROVE h[i] = after(h, i)
  <2>1. g[i - 1] \in Blocks(r)
    BY <1>1, <1>2
  <2>2. Mix(g[i - 1], v, n) = RfcStep(g[i - 1], V, n)
    BY <2>1, MixIsStep
  <2>3. QED
    BY <1>2, <1>3, <2>2
<1>5. h = [i \in 0 .. n |-> h[i]]
  OBVIOUS
<1> HIDE DEF h, after
<1>6. \A i \in 0 .. n : h[i] = value(h, i)
  BY <1>1, <1>3, <1>4
<1>7. h = [i \in 0 .. n |-> value(h, i)]
  <2> HIDE DEF value
  <2>1. QED
    BY <1>5, <1>6
<1>8. CompatMixes(b, v, n, f)
  BY <1>7 DEF CompatMixes, CompatMixed, value, after
<1> HIDE DEF f
<1>9. f = [i \in 0 .. n |-> value(f, i)]
  BY <1>8 DEF CompatMixes, value, after
<1>10. f[0] = b /\ \A i \in 1 .. n : f[i] = after(f, i)
  BY <1>1, <1>9
<1>11. QED
  BY <1>10 DEF f, after

FillStates(r, n) == [b : Blocks(r), v : [1 .. n -> Blocks(r)]]

FillsOne(s, i) ==
    /\ Fill(s, i).b = RfcBlockMix(s.b)
    /\ Fill(s, i).v = [s.v EXCEPT ![i] = s.b]

LEMMA FillHolds ==
  ASSUME NEW r \in Nat \ {0}, NEW n \in Nat, NEW s \in FillStates(r, n), NEW i \in 1 .. n
  PROVE  Fill(s, i) \in FillStates(r, n) /\ FillsOne(s, i)
<1> DEFINE B == Blocks(r)
<1>1. s.b \in B /\ s.v \in [1 .. n -> B]
  BY DEF FillStates
<1>2. CompatBlockMix(s.b, s.b) = RfcBlockMix(s.b) /\ RfcBlockMix(s.b) \in B
  BY <1>1, BlockMixIsRfc DEF Blocks
<1> HIDE DEF B
<1>3. [s.v EXCEPT ![i] = s.b] \in [1 .. n -> B]
  BY <1>1
<1>4. QED
  BY <1>2, <1>3 DEF Fill, FillsOne, FillStates, B

LEMMA FilledAt ==
  ASSUME NEW r \in Nat \ {0}, NEW n \in Nat, NEW s \in FillStates(r, n)
  PROVE  LET f == Filled(s, n)
         IN /\ f[0] = s /\ \A i \in 1 .. n : f[i] = Fill(f[i - 1], i)
            /\ \A i \in 0 .. n : f[i] \in FillStates(r, n)
<1> DEFINE V == FillStates(r, n)
           f == Filled(s, n)
           step == [p \in (1 .. n) \X V |-> Fill(p[2], p[1])]
           after(g, i) == Fill(g[i - 1], i)
           value(g, i) == IF i = 0 THEN s ELSE after(g, i)
<1>1. ASSUME NEW i \in 1 .. n, NEW t \in V PROVE Fill(t, i) \in V
  BY FillHolds
<1> HIDE DEF V
<1>2. step \in [(1 .. n) \X V -> V] /\ s \in V
  BY <1>1 DEF V
<1>3. \A i \in 1 .. n, t \in V : step[<<i, t>>] = Fill(t, i)
  OBVIOUS
<1> HIDE DEF step
<1>4. PICK g : Steps(g, n, V, s, step)
  BY <1>2, StepsExist
<1>5. g = [i \in 0 .. n |-> g[i]] /\ g[0] = s /\ \A i \in 1 .. n : g[i] = after(g, i)
  BY <1>3, <1>4 DEF Steps
<1> HIDE DEF after
<1>6. \A i \in 0 .. n : g[i] = value(g, i)
  BY <1>5
<1>7. g = [i \in 0 .. n |-> value(g, i)]
  <2> HIDE DEF value
  <2>1. QED
    BY <1>5, <1>6
<1>8. Fills(s, n, f)
  BY <1>7 DEF Fills, Filled, value, after
<1> HIDE DEF f
<1>9. f = [i \in 0 .. n |-> value(f, i)]
  BY <1>8 DEF Fills, value, after
<1>10. f[0] = s /\ \A i \in 1 .. n : f[i] = after(f, i)
  BY <1>9
<1>11. \A i \in 1 .. n : f[i - 1] \in V => f[i] \in V
  BY <1>1, <1>10 DEF after
<1>12. \A i \in 0 .. n : f[i] \in V
  BY <1>2, <1>10, <1>11, KeptAlong
<1>13. QED
  BY <1>10, <1>12 DEF f, after, V

\* The first loop leaves the chunk as RFC 7914's V[n], and V in the scratch
\* memory, whatever that held before.
LEMMA FilledIsRfc ==
  ASSUME NEW r \in Nat \ {0}, NEW n \in Nat \ {0}, NEW b \in Blocks(r),
         NEW v \in [1 .. n -> Blocks(r)]
  PROVE  LET s == Filled([b |-> b, v |-> v], n)[n]
         IN /\ s \in FillStates(r, n)
            /\ s.b = RfcFilled(b, n)[n] /\ Holds(s.v, RfcFilled(b, n), n)
<1> DEFINE s == [b |-> b, v |-> v]
           f == Filled(s, n)
           V == RfcFilled(b, n)
<1>1. s \in FillStates(r, n) /\ s.b = b
  BY DEF FillStates
<1> HIDE DEF s
<1>2. /\ f[0] = s /\ \A i \in 1 .. n : f[i] = Fill(f[i - 1], i)
      /\ \A i \in 0 .. n : f[i] \in FillStates(r, n)
  BY <1>1, FilledAt
<1>3. V[0] = b /\ \A i \in 1 .. n : V[i] = RfcBlockMix(V[i - 1])
  BY RfcFilledAt
<1> HIDE DEF f, V
<1> DEFINE Same(i) == f[i].b = V[i] /\ \A j \in 0 .. i - 1 : f[i].v[j + 1] = V[j]
           S == {i \in Nat : Same(i)}
<1>4. 0 \in S
  BY <1>1, <1>2, <1>3
<1>5. ASSUME NEW i \in 0 .. n - 1, i \in S PROVE i + 1 \in S
  <2>1. i + 1 \in 1 .. n /\ (i + 1) - 1 = i /\ i \in 0 .. n
    OBVIOUS
  <2>2. Same(i) /\ f[i] \in FillStates(r, n)
    BY <1>2, <1>5, <2>1
  <2>3. f[i + 1] = Fill(f[i], i + 1)
    BY <1>2, <2>1
  <2>4. f[i + 1].b = RfcBlockMix(f[i].b) /\ f[i + 1].v = [f[i].v EXCEPT ![i + 1] = f[i].b]
    <3>1. FillsOne(f[i], i + 1)
      BY <2>1, <2>2, FillHolds
    <3>2. QED
      BY Zenon, <2>3, <3>1 DEF FillsOne
  <2>5. f[i].v \in [1 .. n -> Blocks(r)]
    BY <2>2 DEF FillStates
  <2>6. f[i + 1].b = V[i + 1]
    BY <1>3, <2>1, <2>2, <2>4
  <2>7. ASSUME NEW j \in 0 .. i PROVE f[i + 1].v[j + 1] = V[j]
    <3>1. j = i \/ j \in 0 .. i - 1
      OBVIOUS
    <3>2. j + 1 \in 1 .. n /\ (j # i => j + 1 # i + 1)
      OBVIOUS
    <3>3. QED
      BY <2>1, <2>2, <2>4, <2>5, <3>1, <3>2
  <2>8. Same(i + 1)
    BY <2>1, <2>6, <2>7
  <2> HIDE DEF Same
  <2>9. QED
    BY <2>1, <2>8
<1> HIDE DEF S
<1>6. \A i \in 0 .. n : i \in S
  BY <1>4, <1>5, BoundedInduction
<1>7. n \in S
  BY <1>6
<1>8. Same(n)
  BY <1>7 DEF S
<1>9. f[n] \in FillStates(r, n)
  BY <1>2
<1>10. QED
  BY <1>8, <1>9 DEF Holds, f, V, s

LEMMA RoMixIsRfc ==
  ASSUME NEW r \in Nat \ {0}, NEW n, HasMask(n), NEW b \in Blocks(r),
         NEW v \in [1 .. n -> Blocks(r)]
  PROVE  LET m == CompatRoMix(b, v, n)
         IN /\ m.b = RfcRoMix(b, n) /\ m.b \in Blocks(r)
            /\ m.v \in [1 .. n -> Blocks(r)]
<1> DEFINE s == Filled([b |-> b, v |-> v], n)[n]
           V == RfcFilled(b, n)
           c == CompatMixed(s.b, s.v, n)
           x == RfcMixed(V[n], V, n)
<1>1. n \in Nat \ {0}
  BY DEF HasMask
<1>2. CompatRoMix(b, v, n) = [b |-> c[n], v |-> s.v]
  BY Zenon DEF CompatRoMix, Filled, Fills, CompatMixed, CompatMixes
<1>3. RfcRoMix(b, n) = x[n]
  BY Zenon DEF RfcRoMix, RfcFilled, RfcFills, RfcMixed, RfcMixes
<1>4. s \in FillStates(r, n) /\ s.b = V[n] /\ Holds(s.v, V, n)
  BY <1>1, FilledIsRfc
<1>5. \A i \in 0 .. n : V[i] \in Blocks(r)
  BY <1>1, RfcFilledAt
<1> HIDE DEF s, V
<1>6. V[n] \in Blocks(r) /\ \A j \in 0 .. n - 1 : V[j] \in Blocks(r)
  BY <1>1, <1>5
<1>7. /\ x[0] = V[n] /\ \A i \in 1 .. n : x[i] = RfcStep(x[i - 1], V, n)
      /\ \A i \in 0 .. n : x[i] \in Blocks(r)
  BY <1>6, RfcMixedAt
<1>8. c[0] = s.b /\ \A i \in 1 .. n : c[i] = Mix(c[i - 1], s.v, n)
  <2> DEFINE t == s.b
             w == s.v
  <2>1. t \in Blocks(r) /\ Holds(w, V, n)
    BY <1>4, <1>6
  <2> HIDE DEF t, w
  <2>2. LET f == CompatMixed(t, w, n)
        IN f[0] = t /\ \A i \in 1 .. n : f[i] = Mix(f[i - 1], w, n)
    BY <1>6, <2>1, CompatMixedAt
  <2>3. QED
    BY <2>2 DEF t, w
<1> HIDE DEF c, x
<1> DEFINE S == {i \in Nat : c[i] = x[i]}
<1>9. 0 \in S
  BY <1>4, <1>7, <1>8
<1>10. ASSUME NEW i \in 0 .. n - 1, i \in S PROVE i + 1 \in S
  <2>1. i + 1 \in 1 .. n /\ (i + 1) - 1 = i /\ i \in 0 .. n
    BY <1>1
  <2>2. c[i + 1] = Mix(c[i], s.v, n) /\ x[i + 1] = RfcStep(x[i], V, n)
    BY <1>7, <1>8, <2>1
  <2>3. c[i] = x[i] /\ x[i] \in Blocks(r)
    BY <1>7, <1>10, <2>1
  <2>4. Mix(x[i], s.v, n) = RfcStep(x[i], V, n)
    BY <1>4, <1>6, <2>3, MixIsStep
  <2>5. QED
    BY <2>1, <2>2, <2>3, <2>4
<1> HIDE DEF S
<1>11. \A i \in 0 .. n : i \in S
  BY <1>1, <1>9, <1>10, BoundedInduction
<1>12. n \in S
  BY <1>1, <1>11
<1>13. c[n] = x[n] /\ x[n] \in Blocks(r)
  BY <1>1, <1>7, <1>12 DEF S
<1>14. s.v \in [1 .. n -> Blocks(r)]
  BY <1>4 DEF FillStates
<1>15. QED
  BY <1>2, <1>3, <1>13, <1>14

\* The states of the code's loop over the chunks.
Scrypts(chunks, n, zero, f) ==
    f = [p \in 0 .. Len(chunks) |->
            IF p = 0 THEN [b |-> <<>>, v |-> zero] ELSE Chunk(f[p - 1], chunks[p], n)]

ScryptStates(r, n) == [b : Seq(Blocks(r)), v : [1 .. n -> Blocks(r)]]

LEMMA ChunkHolds ==
  ASSUME NEW r \in Nat \ {0}, NEW n, HasMask(n), NEW s \in ScryptStates(r, n),
         NEW c \in Blocks(r)
  PROVE  /\ Chunk(s, c, n) \in ScryptStates(r, n)
         /\ Len(Chunk(s, c, n).b) = Len(s.b) + 1
         /\ Chunk(s, c, n).b[Len(s.b) + 1] = RfcRoMix(c, n)
         /\ \A q \in 1 .. Len(s.b) : Chunk(s, c, n).b[q] = s.b[q]
<1> DEFINE m == CompatRoMix(c, s.v, n)
           B == Blocks(r)
           done == s.b
           longer == Append(done, m.b)
<1>1. done \in Seq(B) /\ s.v \in [1 .. n -> B]
  BY DEF ScryptStates
<1>2. m.b = RfcRoMix(c, n) /\ m.b \in B /\ m.v \in [1 .. n -> B]
  BY <1>1, RoMixIsRfc
<1>3. Chunk(s, c, n) = [b |-> longer, v |-> m.v]
  BY DEF Chunk
<1> HIDE DEF m, B, done
<1>4. /\ longer \in Seq(B) /\ Len(longer) = Len(done) + 1
      /\ longer[Len(done) + 1] = m.b /\ \A q \in 1 .. Len(done) : longer[q] = done[q]
  BY <1>1, <1>2, AppendProperties
<1> HIDE DEF longer
<1>5. Chunk(s, c, n).b = longer /\ Chunk(s, c, n) \in ScryptStates(r, n)
  BY <1>2, <1>3, <1>4 DEF ScryptStates, B
<1>6. QED
  BY <1>2, <1>4, <1>5 DEF done

LEMMA ScryptHolds ==
  ASSUME NEW r \in Nat \ {0}, NEW n, HasMask(n), NEW chunks \in Chunks(r), chunks # <<>>
  PROVE  ScryptIsRfc(chunks, n)
<1> DEFINE l == Len(chunks)
           zero == [i \in 1 .. n |-> [k \in DOMAIN chunks[1] |-> 0]]
           none == [b |-> <<>>, v |-> zero]
           V == ScryptStates(r, n)
           f == CHOOSE g : Scrypts(chunks, n, zero, g)
           step == [p \in (1 .. l) \X V |-> Chunk(p[2], chunks[p[1]], n)]
           after(g, i) == Chunk(g[i - 1], chunks[i], n)
           value(g, i) == IF i = 0 THEN none ELSE after(g, i)
           rfc == [p \in DOMAIN chunks |-> RfcRoMix(chunks[p], n)]
<1>1. l \in Nat /\ DOMAIN chunks = 1 .. l /\ \A p \in 1 .. l : chunks[p] \in Blocks(r)
  BY DEF Chunks, Blocks
<1>2. n \in Nat
  BY DEF HasMask
<1>3. none \in V /\ none.b = <<>>
  <2>1. chunks[1] \in Blocks(r)
    BY DEF Chunks, Blocks
  <2>2. zero \in [1 .. n -> Blocks(r)]
    BY <2>1, WordsAssumption DEF Blocks
  <2> HIDE DEF zero
  <2>3. QED
    BY <2>2 DEF ScryptStates
<1>4. CompatScrypt(chunks, n) = f[l].b
  BY Zenon DEF CompatScrypt, Scrypts
<1> HIDE DEF none, zero
<1>5. ASSUME NEW p \in 1 .. l, NEW s \in V PROVE Chunk(s, chunks[p], n) \in V
  BY <1>1, ChunkHolds
<1> HIDE DEF V
<1>6. step \in [(1 .. l) \X V -> V]
  BY <1>5
<1>7. \A p \in 1 .. l, s \in V : step[<<p, s>>] = Chunk(s, chunks[p], n)
  OBVIOUS
<1> HIDE DEF step, l
<1>8. PICK g : Steps(g, l, V, none, step)
  BY <1>1, <1>3, <1>6, StepsExist
<1>9. g = [i \in 0 .. l |-> g[i]] /\ g[0] = none /\ \A i \in 1 .. l : g[i] = after(g, i)
  BY <1>7, <1>8 DEF Steps
<1> HIDE DEF after
<1>10. \A i \in 0 .. l : g[i] = value(g, i)
  BY <1>1, <1>9
<1>11. g = [i \in 0 .. l |-> value(g, i)]
  <2> HIDE DEF value
  <2>1. QED
    BY <1>9, <1>10
<1>12. Scrypts(chunks, n, zero, f)
  BY <1>11 DEF Scrypts, value, after, l, none
<1> HIDE DEF f
<1>13. f = [i \in 0 .. l |-> value(f, i)]
  BY <1>12 DEF Scrypts, value, after, l, none
<1>14. f[0] = none /\ \A i \in 1 .. l : f[i] = after(f, i)
  BY <1>1, <1>13
<1> DEFINE Done(i) == /\ f[i] \in V /\ Len(f[i].b) = i
                      /\ \A p \in 1 .. i : f[i].b[p] = RfcRoMix(chunks[p], n)
           S == {i \in Nat : Done(i)}
<1>15. 0 \in S
  BY <1>3, <1>14
<1>16. ASSUME NEW i \in 0 .. l - 1, i \in S PROVE i + 1 \in S
  <2>1. i + 1 \in 1 .. l /\ (i + 1) - 1 = i /\ i \in Nat
    BY <1>1
  <2>2. Done(i)
    BY <1>16
  <2>3. f[i + 1] = Chunk(f[i], chunks[i + 1], n)
    BY <1>14, <2>1 DEF after
  <2>4. chunks[i + 1] \in Blocks(r)
    BY <1>1, <2>1
  <2> DEFINE s == f[i]
             c == chunks[i + 1]
  <2>5. s \in ScryptStates(r, n) /\ Len(s.b) = i
    BY <2>2 DEF V
  <2> HIDE DEF s, c
  <2>6. /\ Chunk(s, c, n) \in ScryptStates(r, n)
        /\ Len(Chunk(s, c, n).b) = Len(s.b) + 1
        /\ Chunk(s, c, n).b[Len(s.b) + 1] = RfcRoMix(c, n)
        /\ \A q \in 1 .. Len(s.b) : Chunk(s, c, n).b[q] = s.b[q]
    BY <2>4, <2>5, ChunkHolds DEF c
  <2>7. /\ f[i + 1] \in V /\ Len(f[i + 1].b) = i + 1
        /\ f[i + 1].b[i + 1] = RfcRoMix(chunks[i + 1], n)
        /\ \A q \in 1 .. i : f[i + 1].b[q] = f[i].b[q]
    BY <2>3, <2>5, <2>6 DEF s, c, V
  <2>8. \A p \in 1 .. i + 1 : p \in 1 .. i \/ p = i + 1
    BY <2>1
  <2>9. Done(i + 1)
    BY <2>2, <2>7, <2>8
  <2> HIDE DEF Done
  <2>10. QED
    BY <2>1, <2>9
<1> HIDE DEF S
<1>17. \A i \in 0 .. l : i \in S
  BY <1>1, <1>15, <1>16, BoundedInduction
<1>18. l \in S
  BY <1>1, <1>17
<1>19. Done(l)
  BY <1>18 DEF S
<1> DEFINE out == f[l].b
<1>20. out \in Seq(Blocks(r)) /\ Len(out) = l /\ \A p \in 1 .. l : out[p] = rfc[p]
  BY <1>1, <1>19 DEF V, ScryptStates
<1> HIDE DEF out
<1>21. out = [p \in 1 .. l |-> out[p]] /\ rfc = [p \in 1 .. l |-> rfc[p]]
  BY <1>1, <1>20
<1> HIDE DEF rfc
<1>22. out = rfc
  BY <1>20, <1>21
<1>23. QED
  BY <1>4, <1>22 DEF ScryptIsRfc, out, rfc

-----------------------------------------------------------------------------
(* JSON values, and the walks down them. *)

\* One level of each recursive function, from the level below.
JsonValues(n, below) ==
    IF n = 0 THEN Flat
    ELSE Flat \cup ({"array"} \X SUBSET (Nat \X below))
              \cup ({"object"} \X SUBSET (Names \X below))

NormalizeLevel(n, below) ==
    [direction \in {"input", "output"} |-> [kind \in Kinds |-> [value \in Json[n] |->
        NormalizeField(kind, value, direction, below[direction])]]]

ReflectLevel(n, below) ==
    [kind \in Kinds |-> [value \in Json[n] |-> ReflectField(kind, value, below)]]

CanonicalLevel(n, below) ==
    [kind \in Kinds |-> [value \in Json[n] |-> CanonicalField(kind, value, below)]]

JsonLevel(walk, n, below) ==
    IF walk = "values" THEN JsonValues(n, below)
    ELSE IF walk = "normalize" THEN NormalizeLevel(n, below)
    ELSE IF walk = "reflect" THEN ReflectLevel(n, below)
    ELSE CanonicalLevel(n, below)

JsonWalk(walk, f) == f = [n \in Nat |-> JsonLevel(walk, n, f[n - 1])]

\* Such functions exist when the lowest level needs no other.
LEMMA JsonWalkExists ==
  ASSUME NEW walk, \A x, y : JsonLevel(walk, 0, x) = JsonLevel(walk, 0, y)
  PROVE  \E f : JsonWalk(walk, f)
<1> DEFINE Upto(g, m) == g = [i \in 0 .. m |-> JsonLevel(walk, i, g[i - 1])]
           S == {m \in Nat : \E g : Upto(g, m)}
<1>1. 0 \in S
  <2> DEFINE g == [i \in 0 .. 0 |-> JsonLevel(walk, 0, 0)]
  <2>1. \A i \in 0 .. 0 : i = 0
    OBVIOUS
  <2>2. g = [i \in 0 .. 0 |-> JsonLevel(walk, i, g[i - 1])]
    <3>1. ASSUME NEW i \in 0 .. 0 PROVE JsonLevel(walk, 0, 0) = JsonLevel(walk, i, g[i - 1])
      <4>1. i = 0
        BY <2>1
      <4> HIDE DEF g
      <4>2. QED
        BY <4>1
    <3>2. QED
      BY <3>1
  <2> HIDE DEF g
  <2>3. QED
    BY <2>2
<1>2. ASSUME NEW m \in Nat, m \in S PROVE m + 1 \in S
  <2>1. PICK g : Upto(g, m)
    BY <1>2
  <2> DEFINE h == [i \in 0 .. m + 1 |-> IF i = m + 1 THEN JsonLevel(walk, m + 1, g[m]) ELSE g[i]]
  <2>2. ASSUME NEW i \in 0 .. m + 1 PROVE h[i] = JsonLevel(walk, i, h[i - 1])
    <3>1. CASE i = m + 1
      <4>1. i - 1 = m /\ m \in 0 .. m + 1 /\ m # m + 1
        BY <3>1
      <4>2. h[i - 1] = g[m] /\ h[i] = JsonLevel(walk, m + 1, g[m])
        BY <3>1, <4>1
      <4> HIDE DEF h
      <4>3. QED
        BY <3>1, <4>2
    <3>2. CASE i = 0
      <4>1. h[i] = g[0] /\ g[0] = JsonLevel(walk, 0, g[0 - 1])
        BY <2>1, <3>2
      <4> HIDE DEF h, Upto
      <4>2. QED
        BY <3>2, <4>1
    <3>3. CASE i # m + 1 /\ i # 0
      <4>1. i \in 0 .. m /\ i - 1 \in 0 .. m /\ i - 1 # m + 1
        BY <3>3
      <4>2. h[i] = g[i] /\ h[i - 1] = g[i - 1] /\ g[i] = JsonLevel(walk, i, g[i - 1])
        BY <2>1, <4>1
      <4> HIDE DEF h, Upto
      <4>3. QED
        BY <4>2
    <3>4. QED
      BY <3>1, <3>2, <3>3
  <2>3. h = [i \in 0 .. m + 1 |-> h[i]]
    OBVIOUS
  <2> HIDE DEF h
  <2>4. Upto(h, m + 1)
    BY <2>2, <2>3
  <2>5. QED
    BY <2>4
<1> HIDE DEF S
<1>3. \A m \in Nat : m \in S
  BY <1>1, <1>2, NatSetInduction
<1>4. ASSUME NEW m \in Nat, NEW g, NEW h, Upto(g, m), Upto(h, m + 1)
      PROVE  g[m] = h[m]
  <2> DEFINE T == {i \in 0 .. m : g[i] = h[i]}
  <2>1. 0 \in T
    <3>1. g[0] = JsonLevel(walk, 0, g[0 - 1]) /\ h[0] = JsonLevel(walk, 0, h[0 - 1])
      BY <1>4
    <3> HIDE DEF Upto
    <3>2. QED
      BY <3>1
  <2>2. ASSUME NEW i \in 0 .. m - 1, i \in T PROVE i + 1 \in T
    <3>1. g[i + 1] = JsonLevel(walk, i + 1, g[(i + 1) - 1])
          /\ h[i + 1] = JsonLevel(walk, i + 1, h[(i + 1) - 1])
      BY <1>4
    <3>2. (i + 1) - 1 = i /\ g[i] = h[i] /\ i + 1 \in 0 .. m
      BY <2>2
    <3> HIDE DEF Upto
    <3>3. QED
      BY <3>1, <3>2
  <2> HIDE DEF T
  <2>3. \A i \in 0 .. m : i \in T
    BY <2>1, <2>2, BoundedInduction
  <2>4. QED
    BY <2>3 DEF T
<1> DEFINE G(m) == CHOOSE g : Upto(g, m)
           f == [m \in Nat |-> G(m)[m]]
<1>5. \A m \in Nat : Upto(G(m), m)
  BY <1>3 DEF S
<1>6. ASSUME NEW n \in Nat PROVE f[n] = JsonLevel(walk, n, f[n - 1])
  <2>1. f[n] = G(n)[n]
    OBVIOUS
  <2>2. G(n)[n] = JsonLevel(walk, n, G(n)[n - 1])
    <3> HIDE DEF G
    <3>1. QED
      BY <1>5
  <2>3. CASE n = 0
    <3> HIDE DEF G, f
    <3>1. QED
      BY <2>1, <2>2, <2>3
  <2>4. CASE n # 0
    <3>1. n - 1 \in Nat /\ f[n - 1] = G(n - 1)[n - 1] /\ (n - 1) + 1 = n
      BY <2>4
    <3>2. Upto(G(n - 1), n - 1) /\ Upto(G(n), (n - 1) + 1)
      <4> HIDE DEF G, Upto
      <4>1. QED
        BY <1>5, <3>1
    <3> HIDE DEF G, f, Upto
    <3>3. G(n - 1)[n - 1] = G(n)[n - 1]
      BY <1>4, <3>1, <3>2
    <3>4. QED
      BY <2>1, <2>2, <3>1, <3>3
  <2>5. QED
    BY <2>3, <2>4
<1>7. f = [n \in Nat |-> f[n]]
  OBVIOUS
<1> HIDE DEF f
<1>8. f = [n \in Nat |-> JsonLevel(walk, n, f[n - 1])]
  BY <1>6, <1>7
<1>9. QED
  BY <1>8 DEF JsonWalk

\* What Json[n] is, of the values one level lower.
LEMMA JsonAt ==
  ASSUME NEW n \in Nat
  PROVE  Json[n] = JsonValues(n, Json[n - 1])
<1>1. \A m, x : JsonLevel("values", m, x) = JsonValues(m, x)
  BY DEF JsonLevel
<1>2. \A x, y : JsonLevel("values", 0, x) = JsonLevel("values", 0, y)
  BY <1>1 DEF JsonValues
<1>3. PICK f : JsonWalk("values", f)
  BY <1>2, JsonWalkExists
<1>4. f = [m \in Nat |-> JsonValues(m, f[m - 1])]
  BY <1>1, <1>3 DEF JsonWalk
<1> DEFINE Walks(g) == g = [m \in Nat |-> JsonValues(m, g[m - 1])]
<1>5. Json = CHOOSE g : Walks(g)
  BY DEF Json, JsonValues
<1>6. Walks(f)
  BY <1>4
<1> HIDE DEF Walks
<1>7. Walks(Json)
  BY <1>5, <1>6
<1>8. QED
  BY <1>7 DEF Walks

\* A value is flat, or its parts are those of a lower level.
JsonParts(value, n) ==
    \/ value \in Flat
    \/ /\ n # 0
       /\ \/ /\ value = <<"array", value[2]>>
             /\ value[2] \subseteq Nat \X Json[n - 1]
          \/ /\ value = Obj(value[2])
             /\ value[2] \subseteq Names \X Json[n - 1]

\* The same, by the tag of a value.
LEMMA JsonForm ==
  ASSUME NEW n \in Nat, NEW value
  PROVE  value \in Json[n] <=> JsonParts(value, n)
<1>1. CASE n = 0
  BY <1>1, JsonAt DEF JsonValues, JsonParts
<1>2. CASE n # 0
  <2> DEFINE J == Json[n - 1]
  <2>1. Json[n] = Flat \cup ({"array"} \X SUBSET (Nat \X J))
                       \cup ({"object"} \X SUBSET (Names \X J))
    BY <1>2, JsonAt DEF JsonValues
  <2>2. value \in {"array"} \X SUBSET (Nat \X J)
          <=> value = <<"array", value[2]>> /\ value[2] \subseteq Nat \X J
    OBVIOUS
  <2>3. value \in {"object"} \X SUBSET (Names \X J)
          <=> value = <<"object", value[2]>> /\ value[2] \subseteq Names \X J
    OBVIOUS
  <2> HIDE DEF J
  <2>4. value \in Json[n] <=> \/ value \in Flat
                              \/ value = <<"array", value[2]>> /\ value[2] \subseteq Nat \X J
                              \/ value = <<"object", value[2]>> /\ value[2] \subseteq Names \X J
    BY <2>1, <2>2, <2>3
  <2>5. QED
    BY <1>2, <2>4 DEF J, JsonParts, Obj
<1>3. QED
  BY <1>1, <1>2

\* What a flat value is.
LEMMA FlatTags ==
  ASSUME NEW value \in Flat
  PROVE  /\ value[1] \in {"string", "number"}
         /\ value[1] = "string" => value = Str(value[2]) /\ value[2] \in Texts
  BY DEF Flat, Str

\* A JSON value is no failure, and its tag says whether it is flat.
LEMMA JsonTags ==
  ASSUME NEW n \in Nat, NEW value \in Json[n]
  PROVE  /\ value[1] \in {"string", "number", "array", "object"}
         /\ ~ Failed(value)
         /\ value \in Flat <=> value[1] \in {"string", "number"}
  BY JsonForm, FlatTags DEF JsonParts, Failed, Obj

\* What is no deeper than n is no deeper than n + 1.
LEMMA JsonGrows == \A n \in Nat : Json[n] \subseteq Json[n + 1]
<1> DEFINE S == {n \in Nat : Json[n] \subseteq Json[n + 1]}
<1>1. 0 \in S
  BY JsonForm DEF JsonParts
<1>2. ASSUME NEW n \in Nat, n \in S PROVE n + 1 \in S
  <2>1. n + 1 \in Nat /\ (n + 1) + 1 \in Nat /\ n + 1 # 0 /\ (n + 1) + 1 # 0
        /\ (n + 1) - 1 = n /\ ((n + 1) + 1) - 1 = n + 1
    OBVIOUS
  <2>2. Json[n] \subseteq Json[n + 1]
    BY <1>2
  <2>3. ASSUME NEW value \in Json[n + 1] PROVE value \in Json[(n + 1) + 1]
    <3>1. JsonParts(value, n + 1)
      BY <2>1, JsonForm
    <3>2. JsonParts(value, (n + 1) + 1)
      BY <2>1, <2>2, <3>1 DEF JsonParts
    <3>3. QED
      BY <2>1, <3>2, JsonForm
  <2>4. QED
    BY <2>3
<1> HIDE DEF S
<1>3. \A n \in Nat : n \in S
  BY <1>1, <1>2, NatSetInduction
<1>4. QED
  BY <1>3 DEF S

\* A flat value has nothing below it.
LEMMA FlatForms ==
  ASSUME NEW kind, NEW value \in Flat, NEW x, NEW y
  PROVE  /\ \A d : NormalizeField(kind, value, d, x) = NormalizeField(kind, value, d, y)
         /\ ReflectField(kind, value, x) = ReflectField(kind, value, y)
         /\ CanonicalField(kind, value, x) = CanonicalField(kind, value, y)
<1>1. value[1] # "object" /\ value[1] # Shape(kind.card)
  BY FlatTags DEF Shape
<1>2. \A d : NormalizeField(kind, value, d, x) = NormalizeField(kind, value, d, y)
  BY <1>1 DEF NormalizeField, NormalizeMessage
<1>3. ReflectField(kind, value, x) = ReflectField(kind, value, y)
  BY <1>1 DEF ReflectField, ReflectMessage
<1>4. CanonicalField(kind, value, x) = CanonicalField(kind, value, y)
  BY <1>1 DEF CanonicalField, CanonicalMessage
<1>5. QED
  BY <1>2, <1>3, <1>4

\* normalize_json_field of a value, by the level below.
LEMMA NormalizeAt ==
  ASSUME NEW n \in Nat, NEW value \in Json[n], NEW kind \in Kinds, NEW direction \in {"input", "output"}
  PROVE  Normalize[n][direction][kind][value] = NormalizeField(kind, value, direction, Normalize[n - 1][direction])
<1> DEFINE Walks(g) == g = [m \in Nat |-> NormalizeLevel(m, g[m - 1])]
<1>1. \A m, x : JsonLevel("normalize", m, x) = NormalizeLevel(m, x)
  BY DEF JsonLevel
<1>2. \A x, y : NormalizeLevel(0, x) = NormalizeLevel(0, y)
  <2>1. \A v \in Json[0] : v \in Flat
    BY JsonForm DEF JsonParts
  <2>2. QED
    BY <2>1, FlatForms DEF NormalizeLevel
<1>3. Normalize = CHOOSE g : Walks(g)
  BY DEF Normalize, NormalizeLevel
<1>4. PICK f : JsonWalk("normalize", f)
  BY <1>1, <1>2, JsonWalkExists
<1>5. Walks(f)
  BY <1>1, <1>4 DEF JsonWalk
<1> HIDE DEF Walks
<1>6. Walks(Normalize)
  BY <1>3, <1>5
<1>7. Normalize[n] = NormalizeLevel(n, Normalize[n - 1])
  BY <1>6 DEF Walks
<1>8. QED
  BY <1>7 DEF NormalizeLevel

\* What a value is read as and written again, by the level below.
LEMMA ReflectAt ==
  ASSUME NEW n \in Nat, NEW value \in Json[n], NEW kind \in Kinds
  PROVE  Reflect[n][kind][value] = ReflectField(kind, value, Reflect[n - 1])
<1> DEFINE Walks(g) == g = [m \in Nat |-> ReflectLevel(m, g[m - 1])]
<1>1. \A m, x : JsonLevel("reflect", m, x) = ReflectLevel(m, x)
  BY DEF JsonLevel
<1>2. \A x, y : ReflectLevel(0, x) = ReflectLevel(0, y)
  <2>1. \A v \in Json[0] : v \in Flat
    BY JsonForm DEF JsonParts
  <2>2. QED
    BY <2>1, FlatForms DEF ReflectLevel
<1>3. Reflect = CHOOSE g : Walks(g)
  BY DEF Reflect, ReflectLevel
<1>4. PICK f : JsonWalk("reflect", f)
  BY <1>1, <1>2, JsonWalkExists
<1>5. Walks(f)
  BY <1>1, <1>4 DEF JsonWalk
<1> HIDE DEF Walks
<1>6. Walks(Reflect)
  BY <1>3, <1>5
<1>7. Reflect[n] = ReflectLevel(n, Reflect[n - 1])
  BY <1>6 DEF Walks
<1>8. QED
  BY <1>7 DEF ReflectLevel

\* The canonical form of a value, by the level below.
LEMMA CanonicalAt ==
  ASSUME NEW n \in Nat, NEW value \in Json[n], NEW kind \in Kinds
  PROVE  Canonical[n][kind][value] = CanonicalField(kind, value, Canonical[n - 1])
<1> DEFINE Walks(g) == g = [m \in Nat |-> CanonicalLevel(m, g[m - 1])]
<1>1. \A m, x : JsonLevel("canonical", m, x) = CanonicalLevel(m, x)
  BY DEF JsonLevel
<1>2. \A x, y : CanonicalLevel(0, x) = CanonicalLevel(0, y)
  <2>1. \A v \in Json[0] : v \in Flat
    BY JsonForm DEF JsonParts
  <2>2. QED
    BY <2>1, FlatForms DEF CanonicalLevel
<1>3. Canonical = CHOOSE g : Walks(g)
  BY DEF Canonical, CanonicalLevel
<1>4. PICK f : JsonWalk("canonical", f)
  BY <1>1, <1>2, JsonWalkExists
<1>5. Walks(f)
  BY <1>1, <1>4 DEF JsonWalk
<1> HIDE DEF Walks
<1>6. Walks(Canonical)
  BY <1>3, <1>5
<1>7. Canonical[n] = CanonicalLevel(n, Canonical[n - 1])
  BY <1>6 DEF Walks
<1>8. QED
  BY <1>7 DEF CanonicalLevel

-----------------------------------------------------------------------------
(* Fields, parts and leaves.                                               *)

\* What a list or map is of is a kind of its own.
LEMMA KindTypes ==
  ASSUME NEW kind \in Kinds
  PROVE  /\ kind.card \in {"one", "list", "map"} /\ kind.type \in Types
         /\ One(kind.type) \in Kinds
         /\ Shape(kind.card) \in {"array", "object"}
  BY DEF Kinds, One, Shape

\* A field found by either name is found again by its JSON name.
LEMMA FieldFound ==
  ASSUME NEW type \in DOMAIN Descriptors, NEW key, FieldOf(type, key) # {}
  PROVE  LET f == Field(type, key)
         IN /\ f.kind \in Kinds /\ f.json \in Names
            /\ FieldOf(type, f.json) # {} /\ Field(type, f.json) = f
<1> DEFINE f == Field(type, key)
<1>1. f \in Descriptors[type]
  <2>1. f \in FieldOf(type, key)
    BY DEF Field
  <2> HIDE DEF f
  <2>2. QED
    BY <2>1 DEF FieldOf
<1> HIDE DEF f
<1>2. f.kind \in Kinds /\ f.json \in Names
  BY <1>1, DescriptorsAssumption
<1>3. {g \in Descriptors[type] : g.json = f.json} = {f}
  BY <1>1, DescriptorsAssumption
<1>4. FieldOf(type, f.json) = {f}
  BY <1>3 DEF FieldOf
<1>5. QED
  BY <1>2, <1>4 DEF f, Field

\* A whole fails exactly if a part of it does.
LEMMA WholeOrFailed ==
  ASSUME NEW tag, NEW parts, tag # "error"
  PROVE  /\ Failed(Whole(tag, parts)) <=> \E p \in parts : Failed(p[2])
         /\ ~ Failed(Whole(tag, parts)) => Whole(tag, parts) = <<tag, parts>>
<1> DEFINE failed == {p \in parts : Failed(p[2])}
<1>1. CASE failed = {}
  <2>1. Whole(tag, parts) = <<tag, parts>>
    BY <1>1 DEF Whole
  <2>2. QED
    BY <1>1, <2>1 DEF Failed
<1>2. CASE failed # {}
  <2> DEFINE first == CHOOSE p \in failed : TRUE
  <2>1. Whole(tag, parts) = first[2]
    BY <1>2 DEF Whole
  <2>2. first \in failed
    BY <1>2
  <2> HIDE DEF first
  <2>3. QED
    BY <2>1, <2>2
<1>3. QED
  BY <1>1, <1>2

\* A text that reads as an address gives the bytes its plain form is made of.
LEMMA AddressTextRead ==
  ASSUME NEW text \in Seq(AddressPart), DecodeAddress(text).ok
  PROVE  /\ DecodeAddress(text).val \in ByteStrings
         /\ ParseAelfAddress(text) = Base58CheckEncode(DecodeAddress(text).val)
<1> DEFINE t == ParseAelfAddress(text)
<1>1. t \in Seq(AddressPart)
  <2>1. Len(text) = 3 => text[2] \in AddressPart
    OBVIOUS
  <2>2. QED
    BY <2>1 DEF ParseAelfAddress
<1> HIDE DEF t
<1>2. Len(t) = 1 /\ t[1][1] = "base58check" /\ DecodeAddress(text).val = t[1][2]
  BY DEF DecodeAddress, Base58CheckDecode, Good, Bad, t
<1>3. t[1] \in {"base58check"} \X ByteStrings
  <2>1. t[1] \in AddressPart
    BY <1>1, <1>2
  <2>2. t[1] \in ({"base58check"} \X ByteStrings) \/ t[1] \in ({"word"} \X STRING)
    BY <2>1 DEF AddressPart
  <2>3. t[1] \in ({"word"} \X STRING) => t[1][1] = "word"
    OBVIOUS
  <2>4. QED
    BY <1>2, <2>2, <2>3
<1>4. t[1] = Plain(t[1][2]) /\ t[1][2] \in ByteStrings
  BY <1>3 DEF Plain
<1>5. t = <<t[1]>>
  BY <1>1, <1>2
<1>6. QED
  BY <1>2, <1>4, <1>5 DEF Base58CheckEncode, t

\* The message of bytes is one, and has those bytes.
LEMMA MessageOfBytes ==
  ASSUME NEW bytes
  PROVE  IsMessage(Message(bytes)) /\ BytesOf(Message(bytes)) = bytes
<1> DEFINE p == <<"value", Str(<<"base64", bytes>>)>>
<1>1. Message(bytes)[1] = "object" /\ Message(bytes)[2] = {p}
  BY DEF Message, Obj
<1>2. p[1] = "value" /\ p[2][1] = "string" /\ p[2][2][1] = "base64" /\ p[2][2][2] = bytes
  BY DEF Str
<1> HIDE DEF p
<1>3. (CHOOSE q \in {p} : TRUE) = p
  OBVIOUS
<1>4. QED
  BY <1>1, <1>2, <1>3 DEF IsMessage, BytesOf

\* It is one deeper than the text that was written for it.
LEMMA MessageIsJson ==
  ASSUME NEW n \in Nat, NEW bytes \in ByteStrings
  PROVE  Message(bytes) \in Json[n + 1]
<1> DEFINE s == Str(<<"base64", bytes>>)
<1>1. <<"base64", bytes>> \in Texts
  BY DEF Texts
<1>2. s \in Flat
  BY <1>1 DEF Flat, Str
<1> HIDE DEF s
<1>3. s \in Json[n]
  BY <1>2, JsonForm DEF JsonParts
<1>4. {<<"value", s>>} \subseteq Names \X Json[n]
  <2>1. "value" \in Names
    BY DescriptorsAssumption
  <2>2. <<"value", s>> \in Names \X Json[n]
    BY <1>3, <2>1
  <2>3. QED
    BY <2>2
<1>5. n + 1 # 0 /\ (n + 1) - 1 = n /\ n + 1 \in Nat
  OBVIOUS
<1>6. JsonParts(Obj({<<"value", s>>}), n + 1)
  BY <1>4, <1>5 DEF JsonParts, Obj
<1>7. QED
  BY <1>5, <1>6, JsonForm DEF Message, s

\* An error is a failure.
LEMMA ErrorFailed == \A e : Failed(Error(e))
  BY DEF Failed, Error

\* The JSON of a message of bytes is read, and read back as their text; what
\* is no such message is refused.
LEMMA LeafRead ==
  ASSUME NEW n \in Nat, NEW type \in Leaves, NEW value \in Json[n]
  PROVE  LET read == Reflect[n][One(type)][value]
         IN IF IsMessage(value)
            THEN read \in Json[n] /\ Normalize[n]["output"][One(type)][read] = LeafOut(type, value)
            ELSE Failed(read)
<1> DEFINE read == Reflect[n][One(type)][value]
           kind == One(type)
<1>1. kind \in Kinds /\ kind.card = "one" /\ kind.type = type /\ type # "scalar"
  BY DEF One, Kinds, Types, Leaves
<1>2. read = ReflectMessage(type, value, Reflect[n - 1])
  <2>1. read = ReflectField(kind, value, Reflect[n - 1])
    BY <1>1, ReflectAt
  <2> HIDE DEF read, kind
  <2>2. QED
    BY <1>1, <2>1 DEF ReflectField
<1>3. CASE ~ IsMessage(value)
  <2>1. read = Error("Json")
    BY <1>2, <1>3 DEF ReflectMessage
  <2>2. QED
    BY <1>3, <2>1, ErrorFailed
<1>4. CASE IsMessage(value)
  <2>1. value[1] = "object"
    BY <1>4 DEF IsMessage
  <2>2. read = IF BytesOf(value) = <<>> THEN Obj({}) ELSE value
    BY <1>2, <1>4, <2>1 DEF ReflectMessage
  <2> HIDE DEF read
  <2>3. n # 0
    BY <2>1, JsonForm, FlatTags DEF JsonParts
  <2>4. Obj({}) \in Json[n]
    <3>1. JsonParts(Obj({}), n)
      BY <2>3 DEF JsonParts, Obj
    <3>2. QED
      BY <3>1, JsonForm
  <2>5. IsMessage(Obj({})) /\ BytesOf(Obj({})) = <<>> /\ Obj({})[1] = "object"
    BY DEF IsMessage, BytesOf, Obj
  <2>6. read \in Json[n] /\ IsMessage(read) /\ BytesOf(read) = BytesOf(value) /\ read[1] = "object"
    BY <1>4, <2>1, <2>2, <2>4, <2>5
  <2>7. Normalize[n]["output"][kind][read] = LeafOut(type, read)
    <3>1. Normalize[n]["output"][kind][read]
            = NormalizeField(kind, read, "output", Normalize[n - 1]["output"])
      BY <1>1, <2>6, NormalizeAt
    <3> HIDE DEF kind
    <3>2. NormalizeField(kind, read, "output", Normalize[n - 1]["output"])
            = NormalizeMessage(type, read, "output", Normalize[n - 1]["output"])
      BY <1>1 DEF NormalizeField
    <3>3. QED
      BY <3>1, <3>2 DEF NormalizeMessage, LeafForm
  <2>8. LeafOut(type, read) = LeafOut(type, value)
    BY <1>4, <2>1, <2>6 DEF LeafOut
  <2>9. QED
    BY <1>4, <2>6, <2>7, <2>8 DEF read
<1>5. QED
  BY <1>3, <1>4

\* What the call makes of a value, step by step.
Input(n, kind, value) == Normalize[n]["input"][kind][value]

Read(n, kind, value) == Reflect[n + 1][kind][Input(n, kind, value)]

Output(n, kind, value) == Normalize[n + 1]["output"][kind][Read(n, kind, value)]

\* It is carried to its canonical form or, having none, refused; and it is a
\* default value after normalisation exactly if it was one before.
Carried(n, kind, value) ==
    LET in == Input(n, kind, value)
        canonical == Canonical[n][kind][value]
    IN /\ ~ Failed(in) => in \in Json[n + 1] /\ (in \in Default(kind) => value \in Default(kind))
       /\ value \in Default(kind) => in = value
       /\ Failed(canonical) => Failed(in) \/ Failed(Read(n, kind, value))
       /\ ~ Failed(canonical) =>
             /\ ~ Failed(in)
             /\ Read(n, kind, value) \in Json[n + 1]
             /\ Output(n, kind, value) = canonical

\* An address or hash is normalised to a message, or has no canonical form.
LEMMA LeafInput ==
  ASSUME NEW n \in Nat, NEW type \in Leaves, NEW value \in Json[n]
  PROVE  LET in == LeafForm(type, value, "input")
             canonical == CanonicalLeaf(type, value)
         IN \/ Failed(in) /\ Failed(canonical)
            \/ /\ ~ Failed(in) /\ in \in Json[n + 1]
               /\ IF IsMessage(in) THEN ~ Failed(canonical) /\ canonical = LeafOut(type, in)
                                   ELSE Failed(canonical)
<1> DEFINE in == LeafForm(type, value, "input")
           canonical == CanonicalLeaf(type, value)
<1>1. in = IF type = "aelf.Address" THEN AddressIn(value) ELSE HashIn(value)
  BY DEF LeafForm
<1>2. ASSUME NEW message, IsMessage(message)
      PROVE  ~ Failed(LeafOut(type, message))
  BY <1>2 DEF LeafOut, IsMessage, Failed, Str
<1>3. CASE value[1] # "string"
  <2>1. in = value
    BY <1>1, <1>3 DEF AddressIn, HashIn
  <2>2. ~ Failed(value) /\ value \in Json[n + 1]
    BY JsonTags, JsonGrows
  <2>3. canonical = IF IsMessage(value) THEN LeafOut(type, value) ELSE Error("Json")
    BY <1>3 DEF CanonicalLeaf
  <2> HIDE DEF in, canonical
  <2>4. QED
    BY <1>2, <2>1, <2>2, <2>3, ErrorFailed DEF in, canonical
<1>4. ASSUME value[1] = "string", NEW bytes \in ByteStrings, in = Message(bytes),
             canonical = LeafOut(type, Message(bytes))
      PROVE  ~ Failed(in) /\ in \in Json[n + 1] /\ IsMessage(in) /\ ~ Failed(canonical)
  <2> HIDE DEF in, canonical
  <2>1. IsMessage(in) /\ in \in Json[n + 1]
    BY <1>4, MessageOfBytes, MessageIsJson
  <2>2. n + 1 \in Nat
    OBVIOUS
  <2>3. QED
    BY <1>2, <1>4, <2>1, <2>2, JsonTags
<1>5. CASE value[1] = "string"
  <2>1. value[2] \in Texts
    BY <1>5, JsonTags, FlatTags
  <2>2. CASE type = "aelf.Address" /\ value[2][1] = "address" /\ DecodeAddress(value[2][2]).ok
    <3> DEFINE text == value[2][2]
               bytes == DecodeAddress(text).val
    <3>1. text \in Seq(AddressPart)
      BY <2>1, <2>2 DEF Texts
    <3>2. bytes \in ByteStrings /\ ParseAelfAddress(text) = Base58CheckEncode(bytes)
      BY <2>2, <3>1, AddressTextRead
    <3>3. in = Message(bytes)
      BY <1>1, <1>5, <2>2 DEF AddressIn
    <3>4. canonical = Str(<<"address", Base58CheckEncode(bytes)>>)
      BY <1>5, <2>2, <3>2 DEF CanonicalLeaf
    <3> HIDE DEF in, canonical, bytes
    <3>5. LeafOut(type, Message(bytes)) = Str(<<"address", Base58CheckEncode(bytes)>>)
      BY <2>2, MessageOfBytes DEF LeafOut, IsMessage
    <3>6. QED
      BY <1>4, <1>5, <3>2, <3>3, <3>4, <3>5 DEF in, canonical
  <2>3. CASE type # "aelf.Address" /\ value[2][1] = "hex"
    <3> DEFINE bytes == value[2][3]
    <3>1. bytes \in ByteStrings
      BY <2>1, <2>3 DEF Texts
    <3>2. in = Message(bytes) /\ canonical = Str(<<"hex", "lower", bytes>>)
      BY <1>1, <1>5, <2>3 DEF HashIn, CanonicalLeaf
    <3> HIDE DEF in, canonical, bytes
    <3>3. LeafOut(type, Message(bytes)) = Str(<<"hex", "lower", bytes>>)
      BY <2>3, MessageOfBytes DEF LeafOut, IsMessage
    <3>4. QED
      BY <1>4, <1>5, <3>1, <3>2, <3>3 DEF in, canonical
  <2>4. CASE ~ (type = "aelf.Address" /\ value[2][1] = "address" /\ DecodeAddress(value[2][2]).ok)
             /\ ~ (type # "aelf.Address" /\ value[2][1] = "hex")
    <3>1. canonical = Error("Json")
      BY <1>5, <2>4 DEF CanonicalLeaf
    <3>2. \E e : in = Error(e)
      BY <1>1, <1>5, <2>4 DEF AddressIn, HashIn
    <3>3. QED
      BY <3>1, <3>2, ErrorFailed
  <2>5. QED
    BY <2>2, <2>3, <2>4
<1>6. QED
  BY <1>3, <1>5

\* Addresses and hashes are carried.
LEMMA LeafCarried ==
  ASSUME NEW n \in Nat, NEW type \in Leaves, NEW value \in Json[n]
  PROVE  Carried(n, One(type), value)
<1> DEFINE kind == One(type)
           in == LeafForm(type, value, "input")
           canonical == CanonicalLeaf(type, value)
<1>1. /\ kind \in Kinds /\ kind.card = "one" /\ kind.type = type /\ type # "scalar"
      /\ kind # One("scalar")
  BY DEF One, Kinds, Types, Leaves
<1>2. Input(n, kind, value) = in
  <2>1. Input(n, kind, value) = NormalizeField(kind, value, "input", Normalize[n - 1]["input"])
    BY <1>1, NormalizeAt DEF Input
  <2> HIDE DEF kind
  <2>2. QED
    BY <1>1, <2>1 DEF NormalizeField, NormalizeMessage
<1>3. Canonical[n][kind][value] = canonical
  <2>1. Canonical[n][kind][value] = CanonicalField(kind, value, Canonical[n - 1])
    BY <1>1, CanonicalAt
  <2> HIDE DEF kind, canonical
  <2>2. QED
    BY <1>1, <2>1 DEF CanonicalField, canonical
<1>4. Default(kind) = {}
  BY <1>1 DEF Default
<1>5. ~ Failed(in) /\ in \in Json[n + 1] =>
        IF IsMessage(in)
        THEN /\ Read(n, kind, value) \in Json[n + 1]
             /\ Output(n, kind, value) = LeafOut(type, in)
        ELSE Failed(Read(n, kind, value))
  <2>1. n + 1 \in Nat
    OBVIOUS
  <2> HIDE DEF in, kind
  <2>2. QED
    BY <1>2, <2>1, LeafRead DEF Read, Output, kind
<1>6. \/ Failed(in) /\ Failed(canonical)
      \/ /\ ~ Failed(in) /\ in \in Json[n + 1]
         /\ IF IsMessage(in) THEN ~ Failed(canonical) /\ canonical = LeafOut(type, in)
                             ELSE Failed(canonical)
  BY LeafInput
<1> HIDE DEF kind, in, canonical
<1>7. Carried(n, kind, value)
  BY <1>2, <1>3, <1>4, <1>5, <1>6 DEF Carried
<1>8. QED
  BY <1>7 DEF kind

\* Scalars are carried.
LEMMA ScalarCarried ==
  ASSUME NEW n \in Nat, NEW value \in Json[n]
  PROVE  Carried(n, One("scalar"), value)
<1> DEFINE kind == One("scalar")
<1>1. kind \in Kinds /\ kind.card = "one" /\ kind.type = "scalar"
  BY DEF One, Kinds, Types
<1>2. n + 1 \in Nat /\ value \in Json[n + 1] /\ ~ Failed(value)
  BY JsonGrows, JsonTags
<1> HIDE DEF kind
<1>3. \A m \in Nat, d \in {"input", "output"} : value \in Json[m] => Normalize[m][d][kind][value] = value
  BY <1>1, NormalizeAt DEF NormalizeField
<1>4. Input(n, kind, value) = value
  BY <1>3 DEF Input
<1>5. Read(n, kind, value) = IF value \in Flat THEN value ELSE Error("Json")
  BY <1>1, <1>2, <1>4, ReflectAt, JsonTags DEF ReflectField, Read
<1>6. Canonical[n][kind][value] = IF value \in Flat THEN value ELSE Error("Json")
  BY <1>1, CanonicalAt DEF CanonicalField, kind
<1>7. Read(n, kind, value) = value => Output(n, kind, value) = value
  BY <1>2, <1>3 DEF Output
<1>8. Carried(n, kind, value)
  BY <1>2, <1>4, <1>5, <1>6, <1>7, ErrorFailed DEF Carried
<1>9. QED
  BY <1>8 DEF kind

\* What becomes of the items of a list or map.
LEMMA EachPart ==
  ASSUME NEW form, NEW value, value[1] # "error"
  PROVE  /\ Failed(Each(form, value)) <=> \E p \in value[2] : Failed(form[p[2]])
         /\ ~ Failed(Each(form, value)) =>
               Each(form, value) = <<value[1], {<<p[1], form[p[2]]>> : p \in value[2]}>>
<1> DEFINE parts == {<<p[1], form[p[2]]>> : p \in value[2]}
<1>1. (\E q \in parts : Failed(q[2])) <=> \E p \in value[2] : Failed(form[p[2]])
  <2>1. \A p \in value[2] : <<p[1], form[p[2]]>> \in parts
    OBVIOUS
  <2>2. \A q \in parts : \E p \in value[2] : q[2] = form[p[2]]
    OBVIOUS
  <2> HIDE DEF parts
  <2>3. \A p \in value[2] : \E q \in parts : q[2] = form[p[2]]
    BY <2>1
  <2>4. QED
    BY <2>2, <2>3
<1> HIDE DEF parts
<1>2. QED
  BY <1>1, WholeOrFailed DEF Each, parts

\* Parts in the places of an array or object make an array or object.
LEMMA PartsAreJson ==
  ASSUME NEW n \in Nat, NEW value \in Json[n], value[1] \in {"array", "object"},
         NEW m \in Nat, NEW parts,
         \A q \in parts : \E p \in value[2], u \in Json[m] : q = <<p[1], u>>
  PROVE  <<value[1], parts>> \in Json[m + 1]
<1>1. value \notin Flat
  BY FlatTags
<1>2. PICK places \in {Nat, Names} : /\ \A p \in value[2] : p[1] \in places
                                     /\ places = IF value[1] = "array" THEN Nat ELSE Names
  BY <1>1, JsonForm DEF JsonParts, Obj
<1>3. parts \subseteq places \X Json[m]
  BY <1>2
<1>4. m + 1 \in Nat /\ m + 1 # 0 /\ (m + 1) - 1 = m
  OBVIOUS
<1>5. JsonParts(<<value[1], parts>>, m + 1)
  BY <1>2, <1>3, <1>4 DEF JsonParts, Obj
<1>6. QED
  BY <1>4, <1>5, JsonForm

\* What is inside an array or object is one level lower.
LEMMA PartsBelow ==
  ASSUME NEW n \in Nat, NEW value \in Json[n + 1], value[1] \in {"array", "object"}
  PROVE  /\ value = <<value[1], value[2]>>
         /\ \A p \in value[2] : p = <<p[1], p[2]>> /\ p[2] \in Json[n]
         /\ value[1] = "object" => \A p \in value[2] : p[1] \in Names
<1>1. n + 1 \in Nat /\ (n + 1) - 1 = n
  OBVIOUS
<1>2. JsonParts(value, n + 1) /\ value \notin Flat
  BY <1>1, FlatTags, JsonForm
<1>3. QED
  BY <1>1, <1>2 DEF JsonParts, Obj

\* A list or map is carried when its items are.
LEMMA ItemsCarried ==
  ASSUME NEW n \in Nat, NEW kind \in Kinds, kind.card # "one",
         \A u \in Json[n] : Carried(n, One(kind.type), u),
         NEW value \in Json[n + 1]
  PROVE  Carried(n + 1, kind, value)
<1> DEFINE one == One(kind.type)
           fin == Normalize[n]["input"][one]
           fread == Reflect[n + 1][one]
           fout == Normalize[n + 1]["output"][one]
           fcan == Canonical[n][one]
           in == Input(n + 1, kind, value)
           read == Read(n + 1, kind, value)
           canonical == Canonical[n + 1][kind][value]
           k == n + 2
<1>1. /\ n + 1 \in Nat /\ (n + 1) - 1 = n
      /\ k \in Nat /\ k - 1 = n + 1 /\ (n + 1) + 1 = k
  OBVIOUS
<1>2. kind \in Kinds /\ kind # One("scalar") /\ Shape(kind.card) \in {"array", "object"}
  BY KindTypes DEF One
<1>3. Default(kind) = {<<Shape(kind.card), {}>>}
  BY DEF Default
<1>4. \A u \in Json[n] :
        /\ ~ Failed(fin[u]) => fin[u] \in Json[n + 1]
        /\ Failed(fcan[u]) => Failed(fin[u]) \/ Failed(fread[fin[u]])
        /\ ~ Failed(fcan[u]) => /\ ~ Failed(fin[u]) /\ fread[fin[u]] \in Json[n + 1]
                                /\ fout[fread[fin[u]]] = fcan[u]
  BY DEF Carried, Input, Read, Output
<1>5. value \in Json[k] /\ ~ Failed(value)
  BY <1>1, JsonGrows, JsonTags
<1> HIDE DEF fin, fread, fout, fcan, k
<1>6. in = IF value[1] = Shape(kind.card) THEN Each(fin, value) ELSE value
  BY <1>1, <1>2, NormalizeAt DEF NormalizeField, Input, fin
<1>7. canonical = IF value[1] = Shape(kind.card) THEN Each(fcan, value) ELSE Error("Json")
  BY <1>1, <1>2, CanonicalAt DEF CanonicalField, fcan
<1>8. in \in Json[k] =>
        read = IF in[1] = Shape(kind.card) THEN Each(fread, in) ELSE Error("Json")
  BY <1>1, <1>2, ReflectAt DEF ReflectField, Read, fread
<1>9. read \in Json[k] /\ read[1] = Shape(kind.card) => Output(n + 1, kind, value) = Each(fout, read)
  BY <1>1, <1>2, NormalizeAt DEF NormalizeField, Output, fout
<1> HIDE DEF in, read, canonical, one
<1>10. CASE value[1] # Shape(kind.card)
  <2>1. in = value /\ Failed(canonical) /\ Failed(read)
    BY <1>5, <1>6, <1>7, <1>8, <1>10, ErrorFailed
  <2>2. QED
    BY <1>1, <1>5, <2>1 DEF Carried, in, read, canonical
<1>11. CASE value[1] = Shape(kind.card)
  <2> DEFINE P == {<<p[1], fin[p[2]]>> : p \in value[2]}
             R == {<<p[1], fread[fin[p[2]]]>> : p \in value[2]}
             C == {<<p[1], fcan[p[2]]>> : p \in value[2]}
             tag == value[1]
  <2>1. /\ value = <<tag, value[2]>>
        /\ \A p \in value[2] : p = <<p[1], p[2]>> /\ p[2] \in Json[n]
    BY <1>2, <1>11, PartsBelow
  <2>2. tag \in {"array", "object"} /\ tag # "error" /\ tag = Shape(kind.card)
    BY <1>2, <1>11
  <2>3. /\ Failed(in) <=> \E p \in value[2] : Failed(fin[p[2]])
        /\ ~ Failed(in) => in = <<tag, P>>
    BY <1>6, <1>11, <2>2, EachPart
  <2>4. /\ Failed(canonical) <=> \E p \in value[2] : Failed(fcan[p[2]])
        /\ ~ Failed(canonical) => canonical = <<tag, C>>
    BY <1>7, <1>11, <2>2, EachPart
  <2> HIDE DEF tag
  <2>5. ASSUME ~ Failed(in) PROVE in = <<tag, P>> /\ in \in Json[k]
    <3>1. \A q \in P : \E p \in value[2], u \in Json[n + 1] : q = <<p[1], u>>
      BY <1>4, <2>1, <2>3, <2>5
    <3> HIDE DEF P
    <3>2. <<tag, P>> \in Json[(n + 1) + 1]
      BY <1>1, <2>2, <3>1, PartsAreJson DEF tag
    <3>3. QED
      BY <1>1, <2>3, <2>5, <3>2
  <2>6. ASSUME ~ Failed(in)
        PROVE  /\ Failed(read) <=> \E p \in value[2] : Failed(fread[fin[p[2]]])
               /\ ~ Failed(read) => read = <<tag, R>>
    <3>1. in[1] = tag /\ in[2] = P
      BY <2>5, <2>6
    <3>2. read = Each(fread, in)
      BY <1>8, <2>2, <2>5, <2>6, <3>1
    <3> DEFINE Q == {<<q[1], fread[q[2]]>> : q \in P}
    <3>3. \A q \in P : \E p \in value[2] : q[1] = p[1] /\ q[2] = fin[p[2]]
      OBVIOUS
    <3>4. \A p \in value[2] : \E q \in P : q[1] = p[1] /\ q[2] = fin[p[2]]
      <4>1. \A p \in value[2] : <<p[1], fin[p[2]]>> \in P
        OBVIOUS
      <4> HIDE DEF P
      <4>2. QED
        BY <4>1
    <3> HIDE DEF P
    <3>5. (\E q \in P : Failed(fread[q[2]])) <=> \E p \in value[2] : Failed(fread[fin[p[2]]])
      BY <3>3, <3>4
    <3>6. Q = R
      <4>1. ASSUME NEW q \in P PROVE <<q[1], fread[q[2]]>> \in R
        BY <3>3
      <4>2. ASSUME NEW p \in value[2] PROVE <<p[1], fread[fin[p[2]]]>> \in Q
        BY <3>4
      <4>3. QED
        BY <4>1, <4>2
    <3> HIDE DEF R
    <3>7. QED
      BY <2>2, <3>1, <3>2, <3>5, <3>6, EachPart
  <2>7. ASSUME ~ Failed(canonical)
        PROVE  ~ Failed(in) /\ read \in Json[k] /\ Output(n + 1, kind, value) = canonical
    <3>1. \A p \in value[2] : /\ ~ Failed(fcan[p[2]]) /\ ~ Failed(fin[p[2]])
                              /\ fread[fin[p[2]]] \in Json[n + 1]
                              /\ fout[fread[fin[p[2]]]] = fcan[p[2]]
      BY <1>4, <2>1, <2>4, <2>7
    <3>2. ~ Failed(in)
      BY <2>3, <3>1
    <3>3. \A p \in value[2] : ~ Failed(fread[fin[p[2]]])
      BY <1>1, <3>1, JsonTags
    <3>4. read = <<tag, R>>
      BY <2>6, <3>2, <3>3
    <3>5. \A q \in R : \E p \in value[2], u \in Json[n + 1] : q = <<p[1], u>>
      BY <3>1
    <3> DEFINE Q == {<<q[1], fout[q[2]]>> : q \in R}
    <3>6. \A q \in R : \E p \in value[2] : q[1] = p[1] /\ q[2] = fread[fin[p[2]]]
      OBVIOUS
    <3>7. \A p \in value[2] : \E q \in R : q[1] = p[1] /\ q[2] = fread[fin[p[2]]]
      <4>1. \A p \in value[2] : <<p[1], fread[fin[p[2]]]>> \in R
        OBVIOUS
      <4> HIDE DEF R
      <4>2. QED
        BY <4>1
    <3>8. Q = C /\ \A q \in R : ~ Failed(fout[q[2]])
      <4> HIDE DEF R
      <4>1. ASSUME NEW q \in R PROVE <<q[1], fout[q[2]]>> \in C /\ ~ Failed(fout[q[2]])
        BY <3>1, <3>6
      <4>2. ASSUME NEW p \in value[2] PROVE <<p[1], fcan[p[2]]>> \in Q
        BY <3>1, <3>7
      <4>3. QED
        BY <4>1, <4>2
    <3> HIDE DEF R, C
    <3>9. read \in Json[k]
      <4>1. <<tag, R>> \in Json[(n + 1) + 1]
        BY <1>1, <2>2, <3>5, PartsAreJson DEF tag
      <4>2. QED
        BY <1>1, <3>4, <4>1
    <3>10. read[1] = tag /\ read[2] = R
      BY <3>4
    <3>11. Output(n + 1, kind, value) = Each(fout, read)
      BY <1>9, <2>2, <3>9, <3>10
    <3>12. Each(fout, read) = <<tag, C>>
      BY <2>2, <3>8, <3>10, EachPart
    <3>13. QED
      BY <2>4, <2>7, <3>2, <3>9, <3>11, <3>12
  <2>8. Failed(canonical) => Failed(in) \/ Failed(read)
    <3>1. ASSUME Failed(canonical), ~ Failed(in) PROVE Failed(read)
      <4>1. PICK p \in value[2] : Failed(fcan[p[2]])
        BY <2>4, <3>1
      <4>2. Failed(fread[fin[p[2]]])
        BY <1>4, <2>1, <2>3, <3>1, <4>1
      <4>3. QED
        BY <2>6, <3>1, <4>2
    <3>2. QED
      BY <3>1
  <2>9. (~ Failed(in) /\ in \in Default(kind)) => value \in Default(kind)
    <3>1. ASSUME in = <<tag, {}>>, in = <<tag, P>> PROVE value[2] = {}
      <4>1. P = {}
        BY <3>1
      <4>2. QED
        BY <4>1
    <3> HIDE DEF P
    <3>2. QED
      BY <1>3, <2>1, <2>2, <2>5, <3>1 DEF tag
  <2>10. value \in Default(kind) => in = value
    <3>1. ASSUME value[2] = {} PROVE P = {} /\ ~ Failed(in)
      BY <2>3, <3>1
    <3> HIDE DEF P
    <3>2. ASSUME value = <<Shape(kind.card), {}>> PROVE in = value
      <4>1. value[2] = {}
        BY <3>2
      <4>2. QED
        BY <2>2, <2>3, <3>1, <3>2, <4>1
    <3>3. QED
      BY <1>3, <3>2
  <2>11. QED
    BY <1>1, <2>5, <2>7, <2>8, <2>9, <2>10 DEF Carried, in, read, canonical
<1>12. QED
  BY <1>10, <1>11

\* A message is carried when its fields are.
LEMMA MessageCarried ==
  ASSUME NEW n \in Nat, NEW type \in Types, type \notin Leaves, type # "scalar",
         \A kind \in Kinds, u \in Json[n] : Carried(n, kind, u),
         NEW value \in Json[n + 1]
  PROVE  Carried(n + 1, One(type), value)
<1> DEFINE one == One(type)
           in == Input(n + 1, one, value)
           read == Read(n + 1, one, value)
           out == Output(n + 1, one, value)
           canonical == Canonical[n + 1][one][value]
           below == Normalize[n]["input"]
           k == n + 2
           Known(p) == FieldOf(type, p[1]) # {}
           Kind(p) == Field(type, p[1]).kind
           In(p) == IF Known(p) THEN below[Kind(p)][p[2]] ELSE p[2]
           Rd(p) == Reflect[n + 1][Kind(p)][In(p)]
           Can(p) == Canonical[n][Kind(p)][p[2]]
           P == {<<p[1], In(p)>> : p \in value[2]}
           Kept == {p \in value[2] : p[2] \notin Default(Kind(p))}
           R == {<<Field(type, p[1]).json, Rd(p)>> : p \in Kept}
           C == {<<Field(type, p[1]).json, Can(p)>> : p \in Kept}
<1>1. /\ n + 1 \in Nat /\ (n + 1) - 1 = n
      /\ k \in Nat /\ k - 1 = n + 1 /\ (n + 1) + 1 = k
  OBVIOUS
<1>2. /\ one \in Kinds /\ one.card = "one" /\ one.type = type
      /\ one # One("scalar") /\ type \in DOMAIN Descriptors
  BY DEF One, Kinds, Types
<1>3. Default(one) = {}
  BY <1>2 DEF Default
<1>4. value \in Json[k] /\ ~ Failed(value)
  BY <1>1, JsonGrows, JsonTags
<1> HIDE DEF k, one
<1>5. in = IF value[1] # "object" THEN value ELSE Whole("object", P)
  <2>1. in = NormalizeField(one, value, "input", below)
    BY <1>1, <1>2, NormalizeAt DEF Input
  <2> HIDE DEF in, below
  <2>2. in = NormalizeMessage(type, value, "input", below)
    BY <1>2, <2>1 DEF NormalizeField
  <2>3. QED
    BY <2>2 DEF NormalizeMessage
<1>6. canonical = IF value[1] # "object" \/ \E p \in value[2] : ~ Known(p) THEN Error("Json")
                  ELSE Whole("object", C)
  <2>1. canonical = CanonicalField(one, value, Canonical[n])
    BY <1>1, <1>2, CanonicalAt
  <2> HIDE DEF canonical
  <2>2. canonical = CanonicalMessage(type, value, Canonical[n])
    BY <1>2, <2>1 DEF CanonicalField
  <2>3. QED
    BY <2>2 DEF CanonicalMessage
<1>7. in \in Json[k] => read = ReflectMessage(type, in, Reflect[n + 1])
  <2>1. in \in Json[k] => read = ReflectField(one, in, Reflect[n + 1])
    BY <1>1, <1>2, ReflectAt DEF Read
  <2> HIDE DEF in, read
  <2>2. QED
    BY <1>2, <2>1 DEF ReflectField
<1>8. read \in Json[k] => out = NormalizeMessage(type, read, "output", Normalize[n + 1]["output"])
  <2>1. read \in Json[k] => out = NormalizeField(one, read, "output", Normalize[n + 1]["output"])
    BY <1>1, <1>2, NormalizeAt DEF Output
  <2> HIDE DEF read, out
  <2>2. QED
    BY <1>2, <2>1 DEF NormalizeField
<1> HIDE DEF in, read, out, canonical
<1>9. ASSUME value[1] # "object" PROVE Carried(n + 1, one, value)
  <2>1. in = value /\ Failed(canonical)
    BY <1>5, <1>6, <1>9, ErrorFailed
  <2>2. read = Error("Json")
    BY <1>4, <1>7, <1>9, <2>1 DEF ReflectMessage
  <2>3. QED
    BY <1>1, <1>3, <1>4, <2>1, <2>2, ErrorFailed DEF Carried, in, read, canonical
<1>10. ASSUME value[1] = "object" PROVE Carried(n + 1, one, value)
  <2>1. \A p \in value[2] : p = <<p[1], p[2]>> /\ p[2] \in Json[n] /\ p[1] \in Names
    BY <1>10, PartsBelow
  <2>2. \A p \in value[2] : Known(p) =>
          /\ Kind(p) \in Kinds /\ Field(type, p[1]).json \in Names
          /\ FieldOf(type, Field(type, p[1]).json) # {}
          /\ Field(type, Field(type, p[1]).json) = Field(type, p[1])
    BY <1>2, FieldFound
  <2>3. \A p \in value[2] : Known(p) =>
          /\ ~ Failed(In(p)) => In(p) \in Json[n + 1]
          /\ ~ Failed(In(p)) /\ In(p) \in Default(Kind(p)) => p[2] \in Default(Kind(p))
          /\ p[2] \in Default(Kind(p)) => In(p) = p[2]
          /\ Failed(Can(p)) => Failed(In(p)) \/ Failed(Rd(p))
          /\ ~ Failed(Can(p)) => /\ ~ Failed(In(p)) /\ Rd(p) \in Json[n + 1]
                                 /\ Normalize[n + 1]["output"][Kind(p)][Rd(p)] = Can(p)
    <3>1. ASSUME NEW p \in value[2], Known(p) PROVE Carried(n, Kind(p), p[2])
      <4> HIDE DEF Known, Kind
      <4>1. QED
        BY <2>1, <2>2, <3>1
    <3>2. QED
      BY <3>1 DEF Carried, Input, Read, Output
  <2>4. \A p \in value[2] : ~ Failed(p[2]) /\ p[2] \in Json[n + 1]
    BY <2>1, JsonTags, JsonGrows
  <2>5. \A p \in value[2] : ~ Known(p) => In(p) = p[2]
    OBVIOUS
  <2>6. /\ \A p \in value[2] : <<p[1], In(p)>> \in P
        /\ \A q \in P : \E p \in value[2] : q = <<p[1], In(p)>>
    <3> HIDE DEF In
    <3>1. QED
      OBVIOUS
  <2>7. /\ Failed(in) <=> \E q \in P : Failed(q[2])
        /\ ~ Failed(in) => in = <<"object", P>>
    <3> HIDE DEF P
    <3>1. QED
      BY <1>5, <1>10, WholeOrFailed
  <2> HIDE DEF P
  <2>8. ASSUME ~ Failed(in)
        PROVE  /\ in = Obj(P) /\ in \in Json[k]
               /\ \A p \in value[2] : ~ Failed(In(p))
    <3>1. \A q \in P : ~ Failed(q[2])
      BY <2>7, <2>8
    <3>2. ASSUME NEW p \in value[2] PROVE ~ Failed(In(p))
      <4> HIDE DEF In
      <4>1. <<p[1], In(p)>>[2] = In(p)
        OBVIOUS
      <4>2. QED
        BY <2>6, <3>1, <4>1
    <3>3. \A p \in value[2] : In(p) \in Json[n + 1]
      <4> HIDE DEF In
      <4>1. QED
        BY <2>3, <2>4, <2>5, <3>2
    <3>4. \A q \in P : \E p \in value[2], u \in Json[n + 1] : q = <<p[1], u>>
      <4> HIDE DEF In
      <4>1. QED
        BY <2>6, <3>3
    <3>5. <<value[1], P>> \in Json[(n + 1) + 1]
      BY <1>1, <1>10, <3>4, PartsAreJson
    <3>6. QED
      BY <1>1, <1>10, <2>7, <2>8, <3>2, <3>5 DEF Obj
  <2>9. CASE \E p \in value[2] : ~ Known(p)
    <3>1. Failed(canonical)
      BY <1>6, <2>9, ErrorFailed
    <3>2. ASSUME ~ Failed(in) PROVE Failed(read)
      <4>1. PICK p \in value[2] : FieldOf(type, p[1]) = {}
        BY <2>9
      <4>2. PICK q \in in[2] : q[1] = p[1]
        <5> HIDE DEF In
        <5>1. in[2] = P /\ <<p[1], In(p)>>[1] = p[1]
          BY <2>8, <3>2 DEF Obj
        <5>2. QED
          BY <2>6, <5>1
      <4>3. read = Error("Json")
        <5>1. in[1] = "object"
          BY <2>8, <3>2 DEF Obj
        <5>2. QED
          BY <1>7, <2>8, <3>2, <4>1, <4>2, <5>1 DEF ReflectMessage
      <4>4. QED
        BY <4>3, ErrorFailed
    <3>3. QED
      BY <1>1, <1>3, <2>8, <3>1, <3>2 DEF Carried, in, read, canonical
  <2>10. CASE \A p \in value[2] : Known(p)
    <3> DEFINE written == {q \in P : q[2] \notin Default(Kind(q))}
               W == {<<Field(type, q[1]).json, Reflect[n + 1][Kind(q)][q[2]]>> : q \in written}
    <3>1. ASSUME ~ Failed(in) PROVE read = Whole("object", W)
      <4>1. in[1] = "object" /\ in[2] = P
        BY <2>8, <3>1 DEF Obj
      <4>2. \A q \in P : FieldOf(type, q[1]) # {}
        <5> HIDE DEF In
        <5>1. QED
          BY <2>6, <2>10
      <4>3. QED
        BY <1>2, <1>7, <2>8, <3>1, <4>1, <4>2 DEF ReflectMessage
    <3>2. ASSUME ~ Failed(in) PROVE W = R
      <4>1. ASSUME NEW p \in Kept PROVE <<Field(type, p[1]).json, Rd(p)>> \in W
        <5> DEFINE q == <<p[1], In(p)>>
        <5>1. q \in P /\ In(p) \notin Default(Kind(p))
          <6> HIDE DEF In
          <6>1. QED
            BY <2>3, <2>6, <2>8, <2>10, <3>2, <4>1
        <5>2. q[1] = p[1] /\ q[2] = In(p)
          OBVIOUS
        <5> HIDE DEF q, In
        <5>3. q \in written
          BY <5>1, <5>2
        <5>4. <<Field(type, q[1]).json, Reflect[n + 1][Kind(q)][q[2]]>> \in W
          BY <5>3
        <5>5. QED
          BY <5>2, <5>4
      <4>2. ASSUME NEW q \in written
            PROVE  <<Field(type, q[1]).json, Reflect[n + 1][Kind(q)][q[2]]>> \in R
        <5>1. PICK p \in value[2] : q = <<p[1], In(p)>>
          <6> HIDE DEF In
          <6>1. QED
            BY <2>6, <4>2
        <5>2. q[1] = p[1] /\ q[2] = In(p)
          BY <5>1
        <5> HIDE DEF In
        <5>3. p \in Kept
          BY <2>3, <2>10, <4>2, <5>2
        <5>4. QED
          BY <5>2, <5>3
      <4> HIDE DEF W, R
      <4>3. QED
        BY <4>1, <4>2 DEF W, R
    <3> HIDE DEF W
    <3>3. /\ \A p \in Kept : <<Field(type, p[1]).json, Rd(p)>> \in R
          /\ \A q \in R : \E p \in Kept : q = <<Field(type, p[1]).json, Rd(p)>>
      <4> HIDE DEF In
      <4>1. QED
        OBVIOUS
    <3>4. (\E q \in C : Failed(q[2])) <=> \E p \in Kept : Failed(Can(p))
      <4>1. ASSUME NEW p \in Kept PROVE \E q \in C : q[2] = Can(p)
        <5>1. <<Field(type, p[1]).json, Can(p)>> \in C
          OBVIOUS
        <5> HIDE DEF C
        <5>2. QED
          BY <5>1
      <4>2. ASSUME NEW q \in C PROVE \E p \in Kept : q[2] = Can(p)
        OBVIOUS
      <4> HIDE DEF C, Kept
      <4>3. QED
        BY <4>1, <4>2
    <3>5. /\ Failed(canonical) <=> \E p \in Kept : Failed(Can(p))
          /\ ~ Failed(canonical) => canonical = <<"object", C>>
      <4> HIDE DEF C, Kept
      <4>1. canonical = Whole("object", C)
        BY <1>6, <1>10, <2>10
      <4>2. QED
        BY <3>4, <4>1, WholeOrFailed
    <3>6. Failed(canonical) => Failed(in) \/ Failed(read)
      <4>1. ASSUME Failed(canonical), ~ Failed(in) PROVE Failed(read)
        <5>1. PICK p \in Kept : Failed(Can(p))
          BY <3>5, <4>1
        <5>2. Failed(Rd(p))
          <6> HIDE DEF In, Rd, Can
          <6>1. QED
            BY <2>3, <2>8, <2>10, <4>1, <5>1
        <5>3. <<Field(type, p[1]).json, Rd(p)>> \in R
          BY <3>3
        <5>4. read = Whole("object", R)
          BY <3>1, <3>2, <4>1
        <5> HIDE DEF R, Rd
        <5>5. \E q \in R : Failed(q[2])
          BY <5>2, <5>3
        <5>6. QED
          BY <5>4, <5>5, WholeOrFailed
      <4>2. QED
        BY <4>1
    <3>7. ASSUME ~ Failed(canonical) PROVE ~ Failed(in) /\ read \in Json[k] /\ out = canonical
      <4>1. \A p \in Kept : ~ Failed(Can(p))
        BY <3>5, <3>7
      <4>2. \A p \in value[2] : ~ Failed(In(p))
        <5> HIDE DEF In, Can, Rd
        <5>1. ASSUME NEW p \in value[2], p \notin Kept PROVE ~ Failed(In(p))
          BY <2>3, <2>4, <2>10, <5>1
        <5>2. QED
          BY <2>3, <2>10, <4>1, <5>1
      <4>3. ~ Failed(in)
        <5> HIDE DEF In
        <5>1. QED
          BY <2>6, <2>7, <4>2
      <4>4. \A p \in Kept : /\ Rd(p) \in Json[n + 1]
                            /\ Normalize[n + 1]["output"][Kind(p)][Rd(p)] = Can(p)
        <5> HIDE DEF In, Can, Rd
        <5>1. QED
          BY <2>3, <2>10, <4>1
      <4>5. \A q \in R : \E p \in Kept, u \in Json[n + 1] : q = <<Field(type, p[1]).json, u>>
        <5> HIDE DEF Rd
        <5>1. QED
          BY <3>3, <4>4
      <4>6. R \subseteq Names \X Json[n + 1]
        <5> HIDE DEF R
        <5>1. \A p \in Kept : Field(type, p[1]).json \in Names
          BY <2>2, <2>10
        <5>2. QED
          BY <4>5, <5>1
      <4>7. read = Obj(R)
        <5>1. read = Whole("object", R)
          BY <3>1, <3>2, <4>3
        <5>2. \A q \in R : ~ Failed(q[2])
          <6> HIDE DEF R
          <6>1. QED
            BY <1>1, <4>5, JsonTags
        <5> HIDE DEF R
        <5>3. QED
          BY <5>1, <5>2, WholeOrFailed DEF Obj
      <4>8. read \in Json[k]
        <5> HIDE DEF R
        <5>1. k # 0 /\ read[2] = R
          BY <1>1, <4>7 DEF Obj
        <5>2. JsonParts(read, k)
          BY <1>1, <4>6, <4>7, <5>1 DEF JsonParts
        <5>3. QED
          BY <1>1, <5>2, JsonForm
      <4> DEFINE OutPart(q) == IF FieldOf(type, q[1]) = {} THEN q[2]
                               ELSE Normalize[n + 1]["output"][Kind(q)][q[2]]
                 O == {<<q[1], OutPart(q)>> : q \in R}
      <4>9. out = Whole("object", O)
        <5>1. read[1] = "object" /\ read[2] = R
          BY <4>7 DEF Obj
        <5> HIDE DEF R
        <5>2. QED
          BY <1>8, <4>8, <5>1 DEF NormalizeMessage
      <4>10. \A p \in Kept : LET q == <<Field(type, p[1]).json, Rd(p)>>
                             IN <<q[1], OutPart(q)>> = <<Field(type, p[1]).json, Can(p)>>
        <5> HIDE DEF Rd, Can
        <5>1. QED
          BY <2>2, <2>10, <4>4
      <4>11. O = C
        <5>1. ASSUME NEW q \in R PROVE <<q[1], OutPart(q)>> \in C
          <6>1. PICK p \in Kept : q = <<Field(type, p[1]).json, Rd(p)>>
            BY <3>3
          <6> HIDE DEF Rd, Can, OutPart, R, Kept
          <6>2. QED
            BY <4>10, <6>1
        <5>2. ASSUME NEW p \in Kept PROVE <<Field(type, p[1]).json, Can(p)>> \in O
          <6> DEFINE q == <<Field(type, p[1]).json, Rd(p)>>
          <6>1. q \in R
            BY <3>3
          <6>2. <<q[1], OutPart(q)>> = <<Field(type, p[1]).json, Can(p)>>
            BY <4>10
          <6> HIDE DEF q, R, OutPart, Can
          <6>3. QED
            BY <6>1, <6>2
        <5> HIDE DEF R, Kept, OutPart, Can
        <5>3. QED
          BY <5>1, <5>2
      <4>12. \A q \in C : ~ Failed(q[2])
        BY <3>4, <4>1
      <4> HIDE DEF O, C, R
      <4>13. QED
        BY <3>5, <3>7, <4>3, <4>8, <4>9, <4>11, <4>12, WholeOrFailed
    <3>8. QED
      BY <1>1, <1>3, <2>8, <3>6, <3>7 DEF Carried, in, read, out, canonical
  <2>11. QED
    BY <2>9, <2>10
<1>11. Carried(n + 1, one, value)
  BY <1>9, <1>10
<1>12. QED
  BY <1>11 DEF one

\* What has no parts is no list, no map and no message.
LEMMA FlatCarried ==
  ASSUME NEW kind \in Kinds, kind # One("scalar"),
         kind.card = "one" => kind.type \notin Leaves,
         NEW value \in Json[0]
  PROVE  Carried(0, kind, value)
<1> DEFINE in == Input(0, kind, value)
           read == Read(0, kind, value)
           canonical == Canonical[0][kind][value]
<1>1. 0 \in Nat /\ 0 + 1 = 1 /\ 1 \in Nat
  OBVIOUS
<1>2. value \in Flat /\ value \in Json[1] /\ ~ Failed(value)
  BY <1>1, JsonForm, JsonGrows, JsonTags DEF JsonParts
<1>3. value[1] # "object" /\ value[1] # Shape(kind.card)
  BY <1>2, FlatTags, KindTypes
<1>4. kind.card = "one" => kind.type # "scalar"
  BY DEF Kinds, One
<1>5. in = value
  BY <1>1, <1>3, <1>4, NormalizeAt DEF Input, NormalizeField, NormalizeMessage
<1> HIDE DEF in
<1>6. read = Error("Json")
  <2>1. read = ReflectField(kind, value, Reflect[1 - 1])
    BY <1>1, <1>2, <1>5, ReflectAt DEF Read, in
  <2> HIDE DEF read
  <2>2. QED
    BY <1>3, <1>4, <2>1 DEF ReflectField, ReflectMessage
<1>7. canonical = Error("Json")
  <2>1. canonical = CanonicalField(kind, value, Canonical[0 - 1])
    BY <1>1, CanonicalAt
  <2> HIDE DEF canonical
  <2>2. QED
    BY <1>3, <1>4, <2>1 DEF CanonicalField, CanonicalMessage
<1> HIDE DEF read, canonical
<1>8. QED
  BY <1>1, <1>2, <1>5, <1>6, <1>7, ErrorFailed DEF Carried, in, read, canonical

\* Every value, at any depth, in a field of any kind.
LEMMA AllCarried ==
  \A n \in Nat : \A kind \in Kinds, value \in Json[n] : Carried(n, kind, value)
<1> DEFINE S == {n \in Nat : \A kind \in Kinds, value \in Json[n] : Carried(n, kind, value)}
<1>1. ASSUME NEW n \in Nat, NEW kind \in Kinds, NEW value \in Json[n],
             kind.card = "one", kind.type \in Leaves \cup {"scalar"}
      PROVE  Carried(n, kind, value)
  <2>1. kind = One(kind.type)
    BY <1>1 DEF Kinds, One
  <2>2. QED
    BY <1>1, <2>1, LeafCarried, ScalarCarried
<1>2. 0 \in S
  <2>1. ASSUME NEW kind \in Kinds, NEW value \in Json[0] PROVE Carried(0, kind, value)
    <3>1. CASE kind.card = "one" /\ kind.type \in Leaves \cup {"scalar"}
      BY <1>1, <3>1
    <3>2. CASE ~ (kind.card = "one" /\ kind.type \in Leaves \cup {"scalar"})
      <4>1. kind # One("scalar")
        BY <3>2 DEF One
      <4>2. QED
        BY <3>2, <4>1, FlatCarried
    <3>3. QED
      BY <3>1, <3>2
  <2>2. QED
    BY <2>1
<1>3. ASSUME NEW n \in Nat, n \in S PROVE n + 1 \in S
  <2>1. \A kind \in Kinds, u \in Json[n] : Carried(n, kind, u)
    BY <1>3
  <2>2. ASSUME NEW kind \in Kinds, NEW value \in Json[n + 1] PROVE Carried(n + 1, kind, value)
    <3>1. CASE kind.card # "one"
      <4>1. \A u \in Json[n] : Carried(n, One(kind.type), u)
        BY <2>1, KindTypes
      <4>2. QED
        BY <3>1, <4>1, ItemsCarried
    <3>2. CASE kind.card = "one" /\ kind.type \in Leaves \cup {"scalar"}
      BY <1>1, <3>2
    <3>3. CASE kind.card = "one" /\ kind.type \notin Leaves \cup {"scalar"}
      <4>1. kind = One(kind.type) /\ kind.type \in Types
        BY <3>3 DEF Kinds, One
      <4>2. Carried(n + 1, One(kind.type), value)
        BY <2>1, <3>3, <4>1, MessageCarried
      <4>3. QED
        BY <4>1, <4>2
    <3>4. QED
      BY <3>1, <3>2, <3>3
  <2> HIDE DEF S
  <2>3. QED
    BY <2>2 DEF S
<1> HIDE DEF S
<1>4. \A n \in Nat : n \in S
  BY <1>2, <1>3, NatSetInduction
<1>5. QED
  BY <1>4 DEF S

\* A call brings every value to its canonical form or refuses it.
LEMMA JsonHolds ==
  ASSUME NEW type \in Types, NEW value \in Json[Depth]
  PROVE  SameAfterCall(type, value)
<1> DEFINE kind == One(type)
           in == Input(Depth, kind, value)
           read == Read(Depth, kind, value)
           canonical == Canonical[Depth][kind][value]
<1>1. Depth \in Nat /\ Depth + 1 \in Nat
  BY DescriptorsAssumption
<1>2. kind \in Kinds
  BY DEF Kinds, One
<1>3. Carried(Depth, kind, value)
  BY <1>1, <1>2, AllCarried
<1>4. InputMessage(type, value) = IF Failed(in) THEN in ELSE read
  BY DEF InputMessage, Input, Read
<1>5. ~ Failed(canonical) => ~ Failed(in) /\ ~ Failed(read) /\ Output(Depth, kind, value) = canonical
  BY <1>1, <1>3, JsonTags DEF Carried
<1>6. Failed(canonical) => Failed(in) \/ Failed(read)
  BY <1>3 DEF Carried
<1>7. ~ Failed(canonical) => CallJson(type, value) = canonical
  BY <1>4, <1>5 DEF CallJson, Output
<1>8. QED
  BY <1>4, <1>6, <1>7 DEF SameAfterCall

-----------------------------------------------------------------------------
(* Every input an algorithm is given. *)

InputChosen ==
    case = None \/ \E a \in DOMAIN Inputs : \E in \in Inputs[a] : case = [of |-> a, in |-> in]

\* What is checked next was chosen from the inputs of the algorithm.
LEMMA InputsOnly == Spec => []InputChosen
<1>1. Init => InputChosen
  BY DEF Init, InputChosen
<1>2. InputChosen /\ [Next]_case => InputChosen'
  BY DEF Next, InputChosen
<1>3. QED
  BY <1>1, <1>2, PTL DEF Spec

LEMMA InputOf ==
  ASSUME InputChosen, NEW a, case.of = a, a # "none"
  PROVE  case.in \in Inputs[a]
  BY DEF InputChosen, None

\* A transaction id is returned only of a response that consists of one, and is
\* the same in whichever of its three shapes the node answers, whatever texts it
\* sends (send_transaction, validate_transaction_id).
THEOREM IdsRead == Spec => []TransactionIds
<1>1. InputChosen => TransactionIds
  <2> SUFFICES ASSUME InputChosen, case.of = "response" PROVE SameIdInEveryShape(case.in)
    BY DEF TransactionIds
  <2>1. case.in \in Inputs.response
    BY InputOf
  <2>2. QED
    BY <2>1, InputsAssumption, SameIdHolds
<1>2. QED
  BY <1>1, InputsOnly, PTL

\* A block height map is read as it was written, whichever way the node writes
\* each of its entries, or refused if one of them cannot be read, for any hashes
\* and heights (BlockHeightMap).
THEOREM HeightsAreRead == Spec => []BlockHeights
<1>1. InputChosen => BlockHeights
  <2> SUFFICES ASSUME InputChosen, case.of = "heights"
               PROVE  HeightsEitherWay(case.in.map, case.in.way, SortedKeys)
    BY DEF BlockHeights
  <2>1. case.in \in Inputs.heights
    BY InputOf
  <2>2. KnownHeights(case.in) /\ SortedKeys \in Seq(Range(SortedKeys))
    BY <2>1, InputsAssumption
  <2>3. QED
    BY <2>2, HeightsHold
<1>2. QED
  BY <1>1, InputsOnly, PTL

\* The fees of a transaction are those of the symbols it was charged in, each
\* with the amount of its last event, whatever logs the result has, of any
\* number (get_transaction_fees).
THEOREM FeesCharged == Spec => []Fees
<1>1. InputChosen => Fees
  <2> SUFFICES ASSUME InputChosen, case.of = "fees" PROVE FeesAreCharged(case.in)
    BY DEF Fees
  <2>1. case.in \in Inputs.fees
    BY InputOf
  <2>2. QED
    BY <2>1, InputsAssumption, FeesHold
<1>2. QED
  BY <1>1, InputsOnly, PTL

\* Plain and formatted addresses of any bytes are read as those bytes, and
\* what is formatted twice, cut or empty is refused (parse_aelf_address).
THEOREM AddressesRead == Spec => []AddressTexts
<1>1. InputChosen => AddressTexts
  BY AddressFormsHold DEF AddressTexts
<1>2. QED
  BY <1>1, InputsOnly, PTL

\* Every text of a private key, of any length, gives the wallet that signs for
\* the address of that key, and a transaction signed twice is not accepted
\* (normalize_private_key_hex, from_private_key, sign_transaction).
THEOREM KeysSign == Spec => []KeyTextsSign
<1>1. InputChosen => KeyTextsSign
  <2> SUFFICES ASSUME InputChosen, case.of = "key"
               PROVE  AnySpellingSigns(case.in[1], case.in[2])
    BY DEF KeyTextsSign
  <2>1. case.in \in Inputs.key
    BY InputOf
  <2>2. case.in[1] \in PrivateKeyTexts
    BY <2>1, InputsAssumption
  <2>3. case.in[1].digits \in Seq({0, 1})
    BY <2>2 DEF PrivateKeyTexts
  <2>4. QED
    BY <2>3, AnySpellingHolds
<1>2. QED
  BY <1>1, InputsOnly, PTL

\* Whatever the descriptors, JSON of any depth passes through a contract call
\* unchanged but for being brought to its canonical form, and what has none is
\* refused (call_json, normalize_json_message, normalize_json_field).
THEOREM JsonPassesThrough == Spec => []JsonThroughCalls
<1>1. InputChosen => JsonThroughCalls
  <2> SUFFICES ASSUME InputChosen, case.of = "json"
               PROVE  SameAfterCall(case.in[1], case.in[2])
    BY DEF JsonThroughCalls
  <2>1. case.in \in Inputs.json
    BY InputOf
  <2>2. case.in[1] \in Types /\ case.in[2] \in Json[Depth]
    BY <2>1, InputsAssumption
  <2>3. QED
    BY <2>2, JsonHolds
<1>2. QED
  BY <1>1, InputsOnly, PTL

\* An amount of a token is written to the digit, with as many decimals as the
\* token has, the least amount included, whatever the width of an amount
\* (format_token_amount).
THEOREM AmountsExact == Spec => []AmountTexts
<1>1. InputChosen => AmountTexts
  <2> SUFFICES ASSUME InputChosen, case.of = "amount"
               PROVE  AmountIsExact(case.in[1], case.in[2])
    BY DEF AmountTexts
  <2>1. case.in \in Inputs.amount
    BY InputOf
  <2>2. case.in[1] \in Amounts /\ case.in[2] \in Int
    BY <2>1, InputsAssumption
  <2>3. QED
    BY <2>2, AmountHolds
<1>2. QED
  BY <1>1, InputsOnly, PTL

\* The second implementation of scrypt computes what RFC 7914 says, for any
\* number of chunks of any length, any power of two n and whatever Salsa20/8
\* and the exclusive or are (compat_scrypt).
THEOREM ScryptIsScrypt == Spec => []Scrypt
<1>1. InputChosen => Scrypt
  <2> SUFFICES ASSUME InputChosen, case.of = "scrypt"
               PROVE  ScryptIsRfc(case.in[1], case.in[2])
    BY DEF Scrypt
  <2>1. case.in \in Inputs.scrypt
    BY InputOf
  <2>2. /\ case.in[1] # <<>> /\ HasMask(case.in[2])
        /\ \E r \in 1 .. Len(case.in[1][1]) : case.in[1] \in Chunks(r)
    BY <2>1, InputsAssumption
  <2>3. PICK r \in 1 .. Len(case.in[1][1]) : case.in[1] \in Chunks(r)
    BY <2>2
  <2>4. r \in Nat \ {0}
    OBVIOUS
  <2>5. QED
    BY <2>2, <2>3, <2>4, ScryptHolds
<1>2. QED
  BY <1>1, InputsOnly, PTL

=============================================================================
