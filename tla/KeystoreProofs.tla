---------------------------- MODULE KeystoreProofs --------------------------
(***************************************************************************)
(* What holds of a keystore file for any passwords, wallets, options and   *)
(* files of other SDKs, and any number of alterations.                     *)
(***************************************************************************)
EXTENDS Keystore, SetInduction, FiniteSetTheorems, SequenceTheorems, TLAPS

DerivedKey(pw, kdf) == <<pw, kdf.salt, kdf.n, kdf.r, kdf.p>>

IsFile(f) ==
    /\ f = [cipher |-> f.cipher, ciphertext |-> f.ciphertext, iv |-> f.iv,
            mnemonic |-> f.mnemonic, kdf |-> f.kdf, mac |-> f.mac,
            capitals |-> f.capitals, dkNames |-> f.dkNames,
            notHex |-> f.notHex, address |-> f.address]
    /\ f.kdf \in Kdfs

\* A file as it was made holds what its wallet has, under its password.
Sealed(m) ==
    LET f == m.file
        spec == Parse(f.cipher)
        dk == DerivedKey(m.pw, f.kdf)
        key == <<dk, 0, spec.keyLen>>
    IN /\ spec \in CipherSpec
       /\ EnsureDerivedKeyLen(f.kdf.dklen, spec)
       /\ f.iv[2] = 16
       /\ Fits(f.kdf) => DeriveKey(m.pw, f.kdf) = Ok(dk)
       /\ Cardinality(f.dkNames) = 1 /\ f.notHex = {} /\ f.address = m.wallet
       /\ f.ciphertext = Encrypt(spec, key, f.iv, PrivateKey(m.wallet))
       /\ f.mac = Keccak(MacInput(dk, f.kdf, f.ciphertext))
       /\ m.mnemonic \in {Mnemonic(m.wallet), <<>>}
       /\ \/ f.mnemonic = Encrypt(spec, key, f.iv, m.mnemonic)
          \/ f.mnemonic = <<>> /\ m.mnemonic = <<>>

\* What has come of the last operation is what the file, as it is, gives.
LastTrue ==
    \/ last = None
    \/ last.op = "encrypt"
    \/ /\ made # None
       /\ last.op = "unlock"
       /\ last.res \in UnlockJs(file, last.pw)
    \/ last.op = "check"

\* What an alteration may make of a MAC: it has no derived key to make one of.
Unkeyed(mac) == mac = Keccak(<<>>) \/ \E text : mac = Keccak(<<<<>>, text>>)

FileTrue ==
    made # None =>
        /\ IsFile(made.file) /\ IsFile(file)
        /\ Sealed(made)
        /\ file.mac = made.file.mac \/ Unkeyed(file.mac)

IInv == TypeOK /\ FileTrue /\ LastTrue

-----------------------------------------------------------------------------
(* Ciphers. *)

LEMMA ParseType == \A name : Parse(name) \in CipherSpec \cup {Unsupported}
  BY DEF Parse, CipherSpec

LEMMA SpecType ==
  /\ Unsupported \notin CipherSpec
  /\ \A spec \in CipherSpec : spec.keyLen \in {16, 24, 32} /\ spec.mode \in {"ctr", "cbc"}
  BY DEF CipherSpec, Unsupported

\* The name written into a file is one of the cipher it was made with.
LEMMA AsStrParses ==
  ASSUME NEW spec \in CipherSpec
  PROVE  Parse(AsStr(spec)) = spec
<1>1. \E name \in CanonicalNames : Parse(name) = spec
  <2>1. spec = [keyLen |-> spec.keyLen, mode |-> spec.mode]
        /\ spec.keyLen \in {16, 24, 32} /\ spec.mode \in {"ctr", "cbc"}
    BY DEF CipherSpec
  <2>2. /\ Parse("aes-128-ctr") = [keyLen |-> 16, mode |-> "ctr"]
        /\ Parse("aes-192-ctr") = [keyLen |-> 24, mode |-> "ctr"]
        /\ Parse("aes-256-ctr") = [keyLen |-> 32, mode |-> "ctr"]
        /\ Parse("aes-128-cbc") = [keyLen |-> 16, mode |-> "cbc"]
        /\ Parse("aes-192-cbc") = [keyLen |-> 24, mode |-> "cbc"]
        /\ Parse("aes-256-cbc") = [keyLen |-> 32, mode |-> "cbc"]
    BY DEF Parse
  <2>3. QED
    BY <2>1, <2>2 DEF CanonicalNames
<1>2. QED
  BY <1>1 DEF AsStr

LEMMA XorTwice == \A a, b : Xor(Xor(a, b), b) = a
  BY DEF Xor

LEMMA OkErr ==
  /\ \A v : Ok(v).ok /\ Ok(v).val = v
  /\ \A e : ~ Err(e).ok /\ Err(e).err = e
  /\ \A v, e : Ok(v) # Err(e)
  BY DEF Ok, Err

LEMMA StreamTwice ==
  ASSUME NEW key, NEW iv, NEW S, NEW text \in Seq(S)
  PROVE  Stream(key, iv, Stream(key, iv, text)) = text
<1>1. \A i \in DOMAIN text : Xor(Xor(text[i], {<<"stream", key, iv, i>>}),
                                 {<<"stream", key, iv, i>>}) = text[i]
  BY XorTwice
<1>2. text = [i \in DOMAIN text |-> text[i]]
  OBVIOUS
<1>3. QED
  BY <1>1, <1>2 DEF Stream

\* One block of EncryptCbc, and the chain of them, which is well defined.
CbcBlock(key, plain, before) == {<<"aes", key, Xor(plain, before)>>}

CbcChain(key, iv, padded, chain, n) ==
    chain = [i \in 0 .. n |->
                IF i = 0 THEN {iv} ELSE CbcBlock(key, padded[i], chain[i - 1])]

LEMMA CbcChainAt ==
  ASSUME NEW key, NEW iv, NEW padded, NEW chain, NEW n \in Nat,
         CbcChain(key, iv, padded, chain, n)
  PROVE  /\ chain[0] = {iv}
         /\ \A i \in 1 .. n : chain[i] = CbcBlock(key, padded[i], chain[i - 1])
<1> DEFINE block(j) == IF j = 0 THEN {iv} ELSE CbcBlock(key, padded[j], chain[j - 1])
<1>1. chain = [j \in 0 .. n |-> block(j)]
  BY DEF CbcChain
<1> HIDE DEF block
<1>2. \A i \in 0 .. n : chain[i] = block(i)
  BY <1>1
<1>3. block(0) = {iv} /\ \A i \in 1 .. n : block(i) = CbcBlock(key, padded[i], chain[i - 1])
  BY DEF block
<1>4. QED
  BY <1>2, <1>3

LEMMA CbcChainExists ==
  ASSUME NEW key, NEW iv, NEW padded
  PROVE  \A n \in Nat : \E chain : CbcChain(key, iv, padded, chain, n)
<1> DEFINE S == {n \in Nat : \E chain : CbcChain(key, iv, padded, chain, n)}
<1>1. 0 \in S
  <2>1. CbcChain(key, iv, padded, [i \in 0 .. 0 |-> {iv}], 0)
    BY DEF CbcChain
  <2>2. QED
    BY <2>1
<1>2. ASSUME NEW n \in Nat, n \in S PROVE n + 1 \in S
  <2>1. PICK chain : CbcChain(key, iv, padded, chain, n)
    BY <1>2
  <2>2. /\ chain[0] = {iv}
        /\ \A i \in 1 .. n : chain[i] = CbcBlock(key, padded[i], chain[i - 1])
    BY <2>1, CbcChainAt
  <2> DEFINE next == CbcBlock(key, padded[n + 1], chain[n])
             longer == [i \in 0 .. n + 1 |-> IF i = n + 1 THEN next ELSE chain[i]]
             block(i) == IF i = 0 THEN {iv} ELSE CbcBlock(key, padded[i], longer[i - 1])
  <2>3. longer[n + 1] = next /\ \A i \in 0 .. n : longer[i] = chain[i]
    OBVIOUS
  <2> HIDE DEF longer
  <2>4. \A i \in 1 .. n : i - 1 \in 0 .. n /\ longer[i] = CbcBlock(key, padded[i], longer[i - 1])
    BY <2>2, <2>3
  <2>5. longer[0] = {iv}
    BY <2>2, <2>3
  <2>6. longer[n + 1] = CbcBlock(key, padded[n + 1], longer[n])
    BY <2>3
  <2>7. \A i \in 0 .. n + 1 : longer[i] = block(i)
    BY <2>4, <2>5, <2>6
  <2>8. longer = [i \in 0 .. n + 1 |-> longer[i]]
    BY DEF longer
  <2>9. longer = [i \in 0 .. n + 1 |-> block(i)]
    <3> HIDE DEF block
    <3>1. QED
      BY <2>7, <2>8
  <2>10. CbcChain(key, iv, padded, longer, n + 1)
    BY <2>9 DEF CbcChain
  <2>11. QED
    BY <2>10
<1> HIDE DEF S
<1>3. \A n \in Nat : n \in S
  BY <1>1, <1>2, NatSetInduction
<1>4. QED
  BY <1>3 DEF S

LEMMA InverseOfAes ==
  ASSUME NEW key, NEW block
  PROVE  InvertBlock(key, {<<"aes", key, block>>}) = block
<1> DEFINE t == <<"aes", key, block>>
<1>1. Cardinality({t}) = 1
  BY FS_Singleton
<1>2. (CHOOSE u \in {t} : TRUE) = t
  OBVIOUS
<1>3. QED
  BY <1>1, <1>2 DEF InvertBlock

\* What EncryptCbc gives, block by block.
CbcText(key, iv, padded, n, chain, cipher) ==
    /\ chain[0] = {iv}
    /\ \A i \in 1 .. n + 1 : chain[i] = CbcBlock(key, padded[i], chain[i - 1])
    /\ DOMAIN cipher = 1 .. n + 1
    /\ \A i \in 1 .. n + 1 : cipher[i] = chain[i]

LEMMA EncryptCbcBlocks ==
  ASSUME NEW key, NEW iv, NEW text, NEW n \in Nat,
         DOMAIN Append(text, Pad) = 1 .. n + 1, Len(Append(text, Pad)) = n + 1
  PROVE  \E chain : CbcText(key, iv, Append(text, Pad), n, chain, EncryptCbc(key, iv, text))
<1> DEFINE padded == Append(text, Pad)
           chain == CHOOSE c : CbcChain(key, iv, padded, c, Len(padded))
<1>1. EncryptCbc(key, iv, text) = [i \in DOMAIN padded |-> chain[i]]
  BY Zenon DEF EncryptCbc, CbcChain, CbcBlock
<1> HIDE DEF padded
<1>2. Len(padded) = n + 1 /\ DOMAIN padded = 1 .. n + 1
  BY DEF padded
<1>3. CbcChain(key, iv, padded, chain, n + 1)
  <2>1. \E c : CbcChain(key, iv, padded, c, n + 1)
    BY CbcChainExists
  <2>2. QED
    BY <1>2, <2>1
<1> HIDE DEF chain
<1>4. /\ chain[0] = {iv}
      /\ \A i \in 1 .. n + 1 : chain[i] = CbcBlock(key, padded[i], chain[i - 1])
  BY <1>3, CbcChainAt
<1>5. QED
  BY <1>1, <1>2, <1>4 DEF padded, CbcText

\* What was encrypted is decrypted, with the same key and initialisation vector.
LEMMA DecryptEncrypt ==
  ASSUME NEW spec \in CipherSpec, NEW key, NEW iv, NEW S, NEW text \in Seq(S)
  PROVE  Decrypt(spec, key, iv, Encrypt(spec, key, iv, text)) = {Ok(text)}
<1>1. CASE spec.mode = "ctr"
  BY <1>1, StreamTwice DEF Decrypt, Encrypt
<1>2. CASE spec.mode = "cbc"
  <2> DEFINE n == Len(text)
             padded == Append(text, Pad)
             cipher == EncryptCbc(key, iv, text)
             Before(i) == IF i = 1 THEN {iv} ELSE cipher[i - 1]
             plain == [i \in DOMAIN cipher |->
                          Xor(InvertBlock(key, cipher[i]), Before(i))]
  <2>1. n \in Nat /\ padded \in Seq(S \cup {Pad}) /\ Len(padded) = n + 1
        /\ padded[n + 1] = Pad /\ \A i \in 1 .. n : padded[i] = text[i]
    BY AppendProperties
  <2>2. PICK chain : CbcText(key, iv, padded, n, chain, cipher)
    <3>1. /\ DOMAIN Append(text, Pad) = 1 .. n + 1
          /\ Len(Append(text, Pad)) = n + 1
          /\ n \in Nat
      BY <2>1
    <3> HIDE DEF n, plain, Before
    <3>2. QED
      BY <3>1, EncryptCbcBlocks
  <2> HIDE DEF cipher, padded, n
  <2>3. DOMAIN cipher = 1 .. n + 1
    BY <2>2 DEF CbcText
  <2>4. \A i \in 1 .. n + 1 : plain[i] = padded[i]
    <3> SUFFICES ASSUME NEW i \in 1 .. n + 1 PROVE plain[i] = padded[i]
      OBVIOUS
    <3>1. cipher[i] = CbcBlock(key, padded[i], chain[i - 1])
      <4>1. cipher[i] = chain[i]
        BY <2>2 DEF CbcText
      <4>2. chain[i] = CbcBlock(key, padded[i], chain[i - 1])
        BY <2>2 DEF CbcText
      <4>3. QED
        BY <4>1, <4>2
    <3>2. Before(i) = chain[i - 1]
      <4>1. CASE i = 1
        BY <2>2, <4>1 DEF CbcText
      <4>2. CASE i # 1
        <5>1. i - 1 \in 1 .. n + 1
          BY <2>1, <4>2
        <5>2. cipher[i - 1] = chain[i - 1]
          BY <2>2, <5>1 DEF CbcText
        <5>3. QED
          BY <4>2, <5>2
      <4>3. QED
        BY <4>1, <4>2
    <3>3. plain[i] = Xor(InvertBlock(key, cipher[i]), Before(i))
      BY <2>3
    <3>4. InvertBlock(key, cipher[i]) = Xor(padded[i], chain[i - 1])
      BY <3>1, InverseOfAes DEF CbcBlock
    <3> HIDE DEF plain, Before
    <3>5. QED
      BY <3>2, <3>3, <3>4, XorTwice
  <2>5. plain = padded
    <3>1. plain = [i \in 1 .. n + 1 |-> plain[i]]
      BY <2>3
    <3>2. padded = [i \in 1 .. n + 1 |-> padded[i]]
      BY <2>1
    <3> HIDE DEF plain
    <3>3. QED
      BY <2>4, <3>1, <3>2
  <2>6. cipher # <<>>
    BY <2>1, <2>3
  <2> HIDE DEF plain
  <2>7. plain[Len(plain)] = Pad /\ Len(plain) - 1 = n
    BY <2>1, <2>5
  <2>8. SubSeq(plain, 1, Len(plain) - 1) = text
    <3>1. text \in Seq(S \cup {Pad}) /\ Len(text) = n
      BY DEF n
    <3>2. SubSeq(padded, 1, n) = text
      BY <2>1, <3>1, SubSeqProperties
    <3>3. QED
      BY <2>5, <2>7, <3>2
  <2>9. DecryptCbc(key, iv, cipher) = {Ok(text)}
    BY <2>6, <2>7, <2>8 DEF DecryptCbc, plain
  <2>10. QED
    BY <1>2, <2>9 DEF Decrypt, Encrypt, cipher
<1>3. QED
  BY <1>1, <1>2, SpecType

-----------------------------------------------------------------------------
(* The derived key and the MAC. *)

\* No slice of a key that is long enough is out of range.
LEMMA Slices ==
  ASSUME NEW dk, NEW dklen \in Nat, NEW spec \in CipherSpec, EnsureDerivedKeyLen(dklen, spec)
  PROVE  /\ Slice(dk, 0, spec.keyLen, dklen) = Ok(<<dk, 0, spec.keyLen>>)
         /\ Slice(dk, 16, dklen, dklen) = Ok(IF dklen = 16 THEN <<>> ELSE <<dk, 16, dklen>>)
<1>1. dklen >= 16 /\ dklen >= spec.keyLen /\ spec.keyLen \in {16, 24, 32}
  BY SpecType DEF EnsureDerivedKeyLen
<1>2. QED
  BY <1>1 DEF Slice

\* Whether a key can be derived does not depend on the password.
LEMMA DeriveKeyGives ==
  ASSUME NEW pw, NEW kdf
  PROVE  \/ DeriveKey(pw, kdf) = Err("InvalidScryptParams")
         \/ DeriveKey(pw, kdf) = Err(Allocation(kdf)) /\ ~ Fits(kdf)
         \/ DeriveKey(pw, kdf) = Ok(DerivedKey(pw, kdf))
  BY DEF DeriveKey, DerivedKey

\* Different ciphertexts, and different passwords or parameters if a part of
\* the key is left for the MAC, give different MACs.
LEMMA MacInjective ==
  ASSUME NEW pw, NEW kdf \in Kdfs, NEW text, NEW pw2, NEW kdf2 \in Kdfs, NEW text2,
         kdf.dklen >= 16, kdf2.dklen >= 16,
         Keccak(MacInput(DerivedKey(pw, kdf), kdf, text))
             = Keccak(MacInput(DerivedKey(pw2, kdf2), kdf2, text2))
  PROVE  /\ text = text2
         /\ kdf.dklen > 16 => pw = pw2 /\ kdf = kdf2
<1> DEFINE part(dk, k) == IF k.dklen = 16 THEN <<>> ELSE <<dk, 16, k.dklen>>
<1>1. ASSUME NEW p, NEW k \in Kdfs, k.dklen >= 16
      PROVE  Slice(DerivedKey(p, k), 16, k.dklen, k.dklen).val = part(DerivedKey(p, k), k)
  BY <1>1, OkErr DEF Slice, Kdfs
<1>2. <<part(DerivedKey(pw, kdf), kdf), text>> = <<part(DerivedKey(pw2, kdf2), kdf2), text2>>
  BY <1>1 DEF Keccak, MacInput
<1>3. text = text2 /\ part(DerivedKey(pw, kdf), kdf) = part(DerivedKey(pw2, kdf2), kdf2)
  BY <1>2
<1>4. ASSUME kdf.dklen > 16 PROVE pw = pw2 /\ kdf = kdf2
  <2>1. kdf.dklen # 16 /\ Len(part(DerivedKey(pw, kdf), kdf)) = 3
    BY <1>4
  <2>2. kdf2.dklen # 16
    BY <1>3, <2>1
  <2>3. <<DerivedKey(pw, kdf), 16, kdf.dklen>> = <<DerivedKey(pw2, kdf2), 16, kdf2.dklen>>
    BY <1>3, <2>1, <2>2
  <2>4. DerivedKey(pw, kdf) = DerivedKey(pw2, kdf2) /\ kdf.dklen = kdf2.dklen
    BY <2>3
  <2>5. pw = pw2 /\ kdf.salt = kdf2.salt /\ kdf.n = kdf2.n /\ kdf.r = kdf2.r /\ kdf.p = kdf2.p
    BY <2>4 DEF DerivedKey
  <2>6. QED
    BY <2>4, <2>5 DEF Kdfs
<1>5. QED
  BY <1>3, <1>4

\* A MAC matches its own input; and no other, if enough of the key is in it.
LEMMA MacOwn == \A input : MacMatches(Keccak(input), input) = {TRUE}
  BY DEF MacMatches, Keccak

LEMMA MacKey ==
  ASSUME NEW dk, NEW kdf \in Kdfs, NEW text, kdf.dklen >= 16 + MacBytes
  PROVE  /\ kdf.dklen > 16
         /\ MacInput(dk, kdf, text) = <<<<dk, 16, kdf.dklen>>, text>>
<1>1. kdf.dklen \in Nat /\ MacBytes \in Nat \ {0}
  BY MacAssumption DEF Kdfs
<1>2. Slice(dk, 16, kdf.dklen, kdf.dklen) = Ok(<<dk, 16, kdf.dklen>>)
  BY <1>1 DEF Slice
<1>3. QED
  BY <1>1, <1>2, OkErr DEF MacInput

LEMMA MacOther ==
  ASSUME NEW dk, NEW kdf \in Kdfs, NEW text, kdf.dklen >= 16 + MacBytes, NEW stored,
         TRUE \in MacMatches(Keccak(stored), MacInput(dk, kdf, text))
  PROVE  stored = MacInput(dk, kdf, text)
<1> DEFINE input == MacInput(dk, kdf, text)
<1>1. Keccak(stored)[2] = stored
  BY DEF Keccak
<1>2. input[1][3] = kdf.dklen /\ input[1][2] = 16
  BY MacKey
<1>3. ~ (kdf.dklen - 16 < MacBytes)
  BY MacAssumption DEF Kdfs
<1> HIDE DEF input
<1>4. stored = input
  BY <1>1, <1>2, <1>3 DEF MacMatches, input
<1>5. QED
  BY <1>4 DEF input

\* Without a derived key there is no MAC that a protected file opens with.
LEMMA UnkeyedRefused ==
  ASSUME NEW dk, NEW kdf \in Kdfs, NEW text, kdf.dklen >= 16 + MacBytes, NEW mac,
         Unkeyed(mac)
  PROVE  TRUE \notin MacMatches(mac, MacInput(dk, kdf, text))
<1> SUFFICES ASSUME TRUE \in MacMatches(mac, MacInput(dk, kdf, text)) PROVE FALSE
  OBVIOUS
<1>1. MacInput(dk, kdf, text) = <<<<dk, 16, kdf.dklen>>, text>>
  BY MacKey
<1>2. CASE mac = Keccak(<<>>)
  <2>1. <<>> = MacInput(dk, kdf, text)
    BY <1>2, MacOther
  <2>2. QED
    BY <1>1, <2>1
<1>3. ASSUME NEW other, mac = Keccak(<<<<>>, other>>) PROVE FALSE
  <2>1. <<<<>>, other>> = MacInput(dk, kdf, text)
    BY <1>3, MacOther
  <2>2. <<>> = <<dk, 16, kdf.dklen>>
    BY <1>1, <2>1
  <2>3. QED
    BY <2>2
<1>4. QED
  BY <1>2, <1>3 DEF Unkeyed

-----------------------------------------------------------------------------
(* unlock_js. *)

\* What is known of a file that opened.
Opened(f, pw, res) ==
    LET spec == Parse(f.cipher)
        dk == DerivedKey(pw, f.kdf)
        key == <<dk, 0, spec.keyLen>>
    IN /\ spec \in CipherSpec
       /\ EnsureDerivedKeyLen(f.kdf.dklen, spec)
       /\ TRUE \in MacMatches(f.mac, MacInput(dk, f.kdf, f.ciphertext))
       /\ \E k \in Decrypt(spec, key, f.iv, f.ciphertext),
             m \in Decrypt(spec, key, f.iv, f.mnemonic) :
                /\ k.ok /\ m.ok
                /\ res = Ok([key |-> k.val, mnemonic |-> m.val, address |-> f.address])

LEMMA DecryptGives ==
  ASSUME NEW spec, NEW key, NEW iv, NEW text, NEW k \in Decrypt(spec, key, iv, text)
  PROVE  k.ok \/ k = Err("InvalidPassword")
<1>1. CASE spec.mode = "ctr"
  BY <1>1, OkErr DEF Decrypt
<1>2. CASE spec.mode # "ctr"
  <2>1. k \in DecryptCbc(key, iv, text)
    BY <1>2 DEF Decrypt
  <2>2. k = Err("InvalidPassword") \/ \E v : k = Ok(v)
    BY <2>1 DEF DecryptCbc
  <2>3. QED
    BY <2>2, OkErr
<1>3. QED
  BY <1>1, <1>2

Refused == {Err(e) : e \in Errors}

\* unlock_js after the derived key is known: the MAC, then the two texts.
UnlockTexts(f, dk) ==
    LET spec == Parse(f.cipher)
        key == <<dk, 0, spec.keyLen>>
        matches == IF f.capitals THEN {FALSE}
                   ELSE MacMatches(f.mac, MacInput(dk, f.kdf, f.ciphertext))
    IN UNION {IF ~same THEN {Err("InvalidPassword")}
              ELSE IF f.iv[2] # 16 THEN {Err("InvalidCipherLength")}
              ELSE Contents(f, spec, key) : same \in matches}

\* The slices being in range, unlock_js gets there or is refused before.
LEMMA UnlockStages ==
  ASSUME NEW f, f.kdf \in Kdfs, NEW pw
  PROVE  LET spec == Parse(f.cipher)
             dk == DeriveKey(pw, f.kdf)
             readable == /\ Cardinality(f.dkNames) = 1 /\ spec # Unsupported
                         /\ EnsureDerivedKeyLen(f.kdf.dklen, spec) /\ f.notHex = {}
         IN /\ ~ readable => UnlockJs(f, pw) \in {{r} : r \in Refused}
            /\ readable /\ ~ dk.ok => UnlockJs(f, pw) = {dk}
            /\ readable /\ dk.ok => UnlockJs(f, pw) = UnlockTexts(f, DerivedKey(pw, f.kdf))
<1> DEFINE spec == Parse(f.cipher)
           dk == DeriveKey(pw, f.kdf)
<1>1. CASE Cardinality(f.dkNames) # 1
  BY <1>1 DEF UnlockJs, Refused, Errors
<1>2. CASE Cardinality(f.dkNames) = 1 /\ spec = Unsupported
  BY <1>2 DEF UnlockJs, Refused, Errors
<1>3. CASE /\ Cardinality(f.dkNames) = 1 /\ spec # Unsupported
           /\ ~ EnsureDerivedKeyLen(f.kdf.dklen, spec)
  BY <1>3 DEF UnlockJs, Refused, Errors
<1>4. CASE /\ Cardinality(f.dkNames) = 1 /\ spec # Unsupported
           /\ EnsureDerivedKeyLen(f.kdf.dklen, spec) /\ f.notHex # {}
  BY <1>4 DEF UnlockJs, Refused, Errors
<1>5. CASE /\ Cardinality(f.dkNames) = 1 /\ spec # Unsupported
           /\ EnsureDerivedKeyLen(f.kdf.dklen, spec) /\ f.notHex = {}
  <2>1. CASE ~ dk.ok
    BY <1>5, <2>1 DEF UnlockJs
  <2>2. CASE dk.ok
    <3>1. dk.val = DerivedKey(pw, f.kdf)
      BY <2>2, DeriveKeyGives, OkErr
    <3>2. spec \in CipherSpec /\ f.kdf.dklen \in Nat
      BY <1>5, ParseType DEF Kdfs
    <3>3. /\ Slice(dk.val, 0, spec.keyLen, f.kdf.dklen) = Ok(<<dk.val, 0, spec.keyLen>>)
          /\ Slice(dk.val, 16, f.kdf.dklen, f.kdf.dklen).ok
      <4> HIDE DEF spec, dk
      <4>1. EnsureDerivedKeyLen(f.kdf.dklen, spec)
        BY <1>5
      <4>2. /\ Slice(dk.val, 0, spec.keyLen, f.kdf.dklen) = Ok(<<dk.val, 0, spec.keyLen>>)
            /\ \E v : Slice(dk.val, 16, f.kdf.dklen, f.kdf.dklen) = Ok(v)
        BY <3>2, <4>1, Slices
      <4>3. QED
        BY <4>2, OkErr
    <3>4. UnlockJs(f, pw) = UnlockTexts(f, dk.val)
      <4> DEFINE key == Slice(dk.val, 0, spec.keyLen, f.kdf.dklen)
                 matches == IF f.capitals THEN {FALSE}
                            ELSE MacMatches(f.mac, MacInput(dk.val, f.kdf, f.ciphertext))
                 texts == Contents(f, spec, key.val)
      <4>1. key.ok /\ key.val = <<dk.val, 0, spec.keyLen>>
        BY <3>3, OkErr
      <4>2. UnlockJs(f, pw) =
              UNION {IF ~same THEN {Err("InvalidPassword")}
                     ELSE IF ~key.ok THEN {Err("panic")}
                     ELSE IF f.iv[2] # 16 THEN {Err("InvalidCipherLength")}
                     ELSE texts : same \in matches}
        BY <1>5, <2>2, <3>3 DEF UnlockJs
      <4>3. UnlockTexts(f, dk.val) =
              UNION {IF ~same THEN {Err("InvalidPassword")}
                     ELSE IF f.iv[2] # 16 THEN {Err("InvalidCipherLength")}
                     ELSE texts : same \in matches}
        <5>1. texts = Contents(f, spec, <<dk.val, 0, spec.keyLen>>)
          BY <4>1
        <5> HIDE DEF dk, texts
        <5>2. QED
          BY <5>1 DEF UnlockTexts
      <4> HIDE DEF key, matches, texts
      <4>4. QED
        BY <4>1, <4>2, <4>3
    <3>5. QED
      BY <1>5, <2>2, <3>1, <3>4
  <2>3. QED
    BY <2>1, <2>2
<1>6. QED
  BY <1>1, <1>2, <1>3, <1>4, <1>5

\* It is refused with one of the errors, ends for want of memory, or opens.
LEMMA UnlockGives ==
  ASSUME NEW f, f.kdf \in Kdfs, NEW pw, NEW res \in UnlockJs(f, pw)
  PROVE  \/ res \in Refused
         \/ res = Err(Allocation(f.kdf)) /\ ~ Fits(f.kdf)
         \/ Opened(f, pw, res)
<1> DEFINE spec == Parse(f.cipher)
           dk == DerivedKey(pw, f.kdf)
           key == <<dk, 0, spec.keyLen>>
<1>1. CASE res \in UnlockTexts(f, dk) /\ spec # Unsupported
           /\ EnsureDerivedKeyLen(f.kdf.dklen, spec)
  <2>1. CASE res \in {Err("InvalidPassword"), Err("InvalidCipherLength")}
    BY <2>1 DEF Refused, Errors
  <2>2. CASE res \notin {Err("InvalidPassword"), Err("InvalidCipherLength")}
    <3> DEFINE matches == IF f.capitals THEN {FALSE}
                          ELSE MacMatches(f.mac, MacInput(dk, f.kdf, f.ciphertext))
               outcomes(same) == IF ~same THEN {Err("InvalidPassword")}
                                 ELSE IF f.iv[2] # 16 THEN {Err("InvalidCipherLength")}
                                 ELSE Contents(f, spec, key)
    <3>1. PICK same \in matches : res \in outcomes(same)
      BY <1>1 DEF UnlockTexts
    <3>2. TRUE \in MacMatches(f.mac, MacInput(dk, f.kdf, f.ciphertext))
      <4>1. same \in BOOLEAN
        BY <3>1 DEF MacMatches
      <4>2. same
        BY <2>2, <3>1
      <4>3. same = TRUE
        BY <4>1, <4>2
      <4> HIDE DEF outcomes
      <4>4. QED
        BY <3>1, <4>3
    <3>3. res \in Contents(f, spec, key)
      BY <2>2, <3>1
    <3> HIDE DEF matches, outcomes
    <3>4. PICK k \in Decrypt(spec, key, f.iv, f.ciphertext),
               m \in Decrypt(spec, key, f.iv, f.mnemonic) :
            res = IF ~k.ok THEN k ELSE IF ~m.ok THEN m
                  ELSE Ok([key |-> k.val, mnemonic |-> m.val, address |-> f.address])
      BY <3>3 DEF Contents
    <3>5. k.ok /\ m.ok
      BY <2>2, <3>4, DecryptGives
    <3>6. QED
      BY <1>1, <3>2, <3>4, <3>5, ParseType DEF Opened
  <2>3. QED
    BY <2>1, <2>2
<1>2. CASE res = DeriveKey(pw, f.kdf) /\ ~ res.ok
  BY <1>2, DeriveKeyGives, OkErr DEF Refused, Errors
<1>3. CASE res \in Refused
  BY <1>3
<1>4. QED
  BY <1>1, <1>2, <1>3, UnlockStages

\* A file nobody altered opens with its password and gives its wallet.
LEMMA SealedOpens ==
  ASSUME NEW m, IsFile(m.file), Sealed(m), Readable(m.file)
  PROVE  UnlockJs(m.file, m.pw) =
           {Ok([key |-> PrivateKey(m.wallet), mnemonic |-> m.mnemonic,
                address |-> m.wallet])}
<1> DEFINE f == m.file
           spec == Parse(f.cipher)
           dk == DerivedKey(m.pw, f.kdf)
           key == <<dk, 0, spec.keyLen>>
<1>1. spec \in CipherSpec /\ spec # Unsupported
  BY SpecType DEF Sealed
<1>2. UnlockJs(f, m.pw) = UnlockTexts(f, dk)
  BY <1>1, UnlockStages, OkErr DEF Sealed, IsFile, Readable
<1>3. UnlockTexts(f, dk) = Contents(f, spec, key)
  <2>1. MacMatches(f.mac, MacInput(dk, f.kdf, f.ciphertext)) = {TRUE}
    BY MacOwn DEF Sealed
  <2>2. ~ f.capitals /\ f.iv[2] = 16
    BY DEF Sealed, Readable
  <2> HIDE DEF spec, key, f, dk
  <2>3. QED
    BY <2>1, <2>2 DEF UnlockTexts, key, spec
<1>4. Decrypt(spec, key, f.iv, f.ciphertext) = {Ok(PrivateKey(m.wallet))}
  <2>1. PrivateKey(m.wallet) \in Seq({{<<"key", m.wallet, i>>} : i \in {1, 2}})
    BY DEF PrivateKey
  <2>2. f.ciphertext = Encrypt(spec, key, f.iv, PrivateKey(m.wallet))
    BY DEF Sealed
  <2> HIDE DEF spec, key, f
  <2>3. QED
    BY <1>1, <2>1, <2>2, DecryptEncrypt
<1>5. Decrypt(spec, key, f.iv, f.mnemonic) = {Ok(m.mnemonic)}
  <2>1. m.mnemonic \in Seq({{<<"words", m.wallet>>}})
    <3> DEFINE word == {<<"words", m.wallet>>}
    <3>1. m.mnemonic = <<word>> \/ m.mnemonic = <<>>
      BY DEF Sealed, Mnemonic
    <3> HIDE DEF word
    <3>2. <<word>> \in Seq({word}) /\ <<>> \in Seq({word})
      OBVIOUS
    <3>3. QED
      BY <3>1, <3>2 DEF word
  <2>2. CASE f.mnemonic = Encrypt(spec, key, f.iv, m.mnemonic)
    <3> HIDE DEF spec, key, f
    <3>1. QED
      BY <1>1, <2>1, <2>2, DecryptEncrypt
  <2>3. CASE f.mnemonic = <<>> /\ m.mnemonic = <<>>
    <3>1. spec.mode = "ctr"
      BY <1>1, <2>3, SpecType DEF Readable
    <3>2. Stream(key, f.iv, <<>>) = <<>>
      BY DEF Stream
    <3>3. QED
      BY <2>3, <3>1, <3>2 DEF Decrypt
  <2>4. QED
    BY <2>2, <2>3 DEF Sealed
<1>6. f.address = m.wallet
  BY DEF Sealed
<1> HIDE DEF spec, key, f, dk
<1>7. Contents(f, spec, key) =
        {Ok([key |-> PrivateKey(m.wallet), mnemonic |-> m.mnemonic, address |-> m.wallet])}
  BY <1>4, <1>5, <1>6, OkErr DEF Contents
<1>8. QED
  BY <1>2, <1>3, <1>7 DEF f

-----------------------------------------------------------------------------
(* Writing a file. *)

\* The options and the password give a key, if there is memory for it, and one
\* that is long enough.
Writable(pw, o) ==
    /\ o \in EncryptOptions
    /\ Parse(o.cipher) \in CipherSpec
    /\ EnsureDerivedKeyLen(o.kdf.dklen, Parse(o.cipher))
    /\ o.iv[2] = 16
    /\ Fits(o.kdf) => DeriveKey(pw, o.kdf) = Ok(DerivedKey(pw, o.kdf))

\* A file is told apart from the absence of one.
LEMMA FilesExist == \A f : IsFile(f) => f # None
  BY DEF IsFile, None

\* What encrypt_js_with_options writes, field by field.
WrittenAs(f, pw, w, o) ==
    LET spec == Parse(o.cipher)
        dk == DerivedKey(pw, o.kdf)
        key == <<dk, 0, spec.keyLen>>
    IN /\ IsFile(f)
       /\ Parse(f.cipher) = spec /\ f.iv = o.iv /\ f.kdf = o.kdf
       /\ f.capitals = FALSE /\ f.dkNames = {"dklen"} /\ f.notHex = {} /\ f.address = w
       /\ f.ciphertext = Encrypt(spec, key, o.iv, PrivateKey(w))
       /\ f.mnemonic = Encrypt(spec, key, o.iv, Mnemonic(w))
       /\ f.mac = Keccak(MacInput(dk, o.kdf, f.ciphertext))

LEMMA KeystoreFileFields ==
  ASSUME NEW pw, NEW w, NEW o, Writable(pw, o)
  PROVE  WrittenAs(KeystoreFile(pw, w, o, DerivedKey(pw, o.kdf)), pw, w, o)
<1> DEFINE spec == Parse(o.cipher)
           dk == DerivedKey(pw, o.kdf)
<1>1. o.kdf \in Kdfs /\ o.kdf.dklen \in Nat
  BY DEF Writable, EncryptOptions, Kdfs
<1>2. Slice(dk, 0, spec.keyLen, o.kdf.dklen).val = <<dk, 0, spec.keyLen>>
  <2>1. spec \in CipherSpec /\ EnsureDerivedKeyLen(o.kdf.dklen, spec)
    BY DEF Writable
  <2> HIDE DEF spec, dk
  <2>2. Slice(dk, 0, spec.keyLen, o.kdf.dklen) = Ok(<<dk, 0, spec.keyLen>>)
    BY <1>1, <2>1, Slices
  <2>3. QED
    BY <2>2, OkErr
<1>3. Parse(AsStr(spec)) = spec
  BY AsStrParses DEF Writable
<1>4. QED
  BY <1>1, <1>2, <1>3 DEF KeystoreFile, IsFile, WrittenAs

\* What encrypt_js_with_options and the other SDKs write is sealed.
LEMMA WrittenSealed ==
  ASSUME NEW pw, NEW w, NEW o, Writable(pw, o),
         NEW f, IsFile(f),
         Parse(f.cipher) = Parse(o.cipher), f.iv = o.iv, f.kdf = o.kdf,
         f.notHex = {}, f.address = w, NEW name, f.dkNames = {name},
         f.ciphertext = KeystoreFile(pw, w, o, DerivedKey(pw, o.kdf)).ciphertext,
         f.mac = KeystoreFile(pw, w, o, DerivedKey(pw, o.kdf)).mac,
         NEW words,
         \/ /\ words = Mnemonic(w)
            /\ f.mnemonic = KeystoreFile(pw, w, o, DerivedKey(pw, o.kdf)).mnemonic
         \/ words = <<>> /\ f.mnemonic = <<>>
  PROVE  Sealed([op |-> "made", pw |-> pw, wallet |-> w, file |-> f, mnemonic |-> words])
<1> DEFINE m == [op |-> "made", pw |-> pw, wallet |-> w, file |-> f, mnemonic |-> words]
<1>1. m.pw = pw /\ m.wallet = w /\ m.file = f /\ m.mnemonic = words
  OBVIOUS
<1> HIDE DEF m
<1>2. Cardinality(f.dkNames) = 1
  BY FS_Singleton
<1> DEFINE spec == Parse(o.cipher)
           dk == DerivedKey(pw, o.kdf)
           key == <<dk, 0, spec.keyLen>>
<1>3. /\ f.ciphertext = Encrypt(spec, key, o.iv, PrivateKey(w))
      /\ f.mac = Keccak(MacInput(dk, o.kdf, f.ciphertext))
      /\ \/ words = Mnemonic(w) /\ f.mnemonic = Encrypt(spec, key, o.iv, Mnemonic(w))
         \/ words = <<>> /\ f.mnemonic = <<>>
  <2> DEFINE full == KeystoreFile(pw, w, o, DerivedKey(pw, o.kdf))
  <2>1. /\ full.ciphertext = Encrypt(spec, key, o.iv, PrivateKey(w))
        /\ full.mnemonic = Encrypt(spec, key, o.iv, Mnemonic(w))
        /\ full.mac = Keccak(MacInput(dk, o.kdf, full.ciphertext))
    <3>1. WrittenAs(full, pw, w, o)
      BY KeystoreFileFields
    <3> HIDE DEF full
    <3>2. QED
      BY <3>1 DEF WrittenAs
  <2>2. /\ f.ciphertext = full.ciphertext /\ f.mac = full.mac
        /\ \/ words = Mnemonic(w) /\ f.mnemonic = full.mnemonic
           \/ words = <<>> /\ f.mnemonic = <<>>
    OBVIOUS
  <2> HIDE DEF full, spec, key, dk
  <2>3. QED
    BY <2>1, <2>2
<1>4. /\ spec \in CipherSpec /\ EnsureDerivedKeyLen(o.kdf.dklen, spec)
      /\ o.iv[2] = 16 /\ (Fits(o.kdf) => DeriveKey(pw, o.kdf) = Ok(dk))
  BY DEF Writable
<1> HIDE DEF spec, dk, key
<1>5. /\ Parse(f.cipher) = spec
      /\ dk = DerivedKey(m.pw, f.kdf) /\ key = <<dk, 0, spec.keyLen>>
  BY <1>1 DEF spec, dk, key
<1>6. Sealed(m)
  BY <1>1, <1>2, <1>3, <1>4, <1>5 DEF Sealed
<1>7. QED
  BY <1>6 DEF m

-----------------------------------------------------------------------------
(* The inductive invariant. *)

LEMMA InitHolds == Init => IInv
  BY EditsAssumption DEF Init, IInv, TypeOK, FileTrue, LastTrue, None

\* encrypt_js_with_options fails with an error, ends for want of memory, or
\* writes its file.
LEMMA EncryptGives ==
  ASSUME NEW pw, NEW w, NEW o \in EncryptOptions
  PROVE  \/ EncryptJs(pw, w, o) \in Refused
         \/ EncryptJs(pw, w, o) = Err(Allocation(o.kdf)) /\ ~ Fits(o.kdf)
         \/ /\ Writable(pw, o)
            /\ EncryptJs(pw, w, o) = Ok(KeystoreFile(pw, w, o, DerivedKey(pw, o.kdf)))
<1> DEFINE spec == Parse(o.cipher)
           dk == DeriveKey(pw, o.kdf)
<1>1. CASE spec = Unsupported \/ ~ EnsureDerivedKeyLen(o.kdf.dklen, spec)
  BY <1>1 DEF EncryptJs, Refused, Errors
<1>2. CASE spec # Unsupported /\ EnsureDerivedKeyLen(o.kdf.dklen, spec) /\ ~ dk.ok
  <2>1. EncryptJs(pw, w, o) = dk
    BY <1>2 DEF EncryptJs
  <2>2. QED
    BY <1>2, <2>1, DeriveKeyGives, OkErr DEF Refused, Errors
<1>3. CASE spec # Unsupported /\ EnsureDerivedKeyLen(o.kdf.dklen, spec) /\ dk.ok
  <2>1. spec \in CipherSpec /\ o.kdf.dklen \in Nat
    BY <1>3, ParseType DEF EncryptOptions, Kdfs
  <2>2. dk = Ok(DerivedKey(pw, o.kdf)) /\ dk.val = DerivedKey(pw, o.kdf)
    BY <1>3, DeriveKeyGives, OkErr
  <2>3. /\ Slice(dk.val, 0, spec.keyLen, o.kdf.dklen).ok
        /\ Slice(dk.val, 16, o.kdf.dklen, o.kdf.dklen).ok
    <3> HIDE DEF spec, dk
    <3>1. EnsureDerivedKeyLen(o.kdf.dklen, spec)
      BY <1>3
    <3>2. /\ Slice(dk.val, 0, spec.keyLen, o.kdf.dklen) = Ok(<<dk.val, 0, spec.keyLen>>)
          /\ \E v : Slice(dk.val, 16, o.kdf.dklen, o.kdf.dklen) = Ok(v)
      BY <2>1, <3>1, Slices
    <3>3. QED
      BY <3>2, OkErr
  <2>4. CASE o.iv[2] # 16
    <3>1. EncryptJs(pw, w, o) = Err("InvalidCipherLength")
      BY <1>3, <2>3, <2>4 DEF EncryptJs
    <3>2. QED
      BY <3>1 DEF Refused, Errors
  <2>5. CASE o.iv[2] = 16
    <3>1. EncryptJs(pw, w, o) = Ok(KeystoreFile(pw, w, o, dk.val))
      BY <1>3, <2>3, <2>5 DEF EncryptJs
    <3>2. Writable(pw, o)
      BY <1>3, <2>1, <2>2, <2>5 DEF Writable
    <3>3. QED
      BY <2>2, <3>1, <3>2
  <2>6. QED
    BY <2>4, <2>5
<1>4. QED
  BY <1>1, <1>2, <1>3

\* What is in made, and what is not.
LEMMA MadeFields ==
  ASSUME NEW pw, NEW w, NEW f, NEW words
  PROVE  LET m == [op |-> "made", pw |-> pw, wallet |-> w, file |-> f, mnemonic |-> words]
         IN /\ m # None
            /\ m.pw = pw /\ m.wallet = w /\ m.file = f /\ m.mnemonic = words
  BY DEF None

LEMMA RefusedErrors == \A r \in Refused : ~ r.ok /\ r.err \in Errors
  BY OkErr DEF Refused, Errors

LEMMA EncryptKeeps ==
  ASSUME IInv, NEW pw \in Passwords, NEW w \in Wallets, NEW o \in Options,
         EncryptStep(pw, w, o)
  PROVE  IInv'
<1> DEFINE result == EncryptJs(pw, w, o)
           full == KeystoreFile(pw, w, o, DerivedKey(pw, o.kdf))
<1>1. o \in EncryptOptions
  BY OptionsAssumption
<1>2. /\ made = None /\ file = None /\ edits' = edits /\ edits \in 0 .. MaxEdits
      /\ last' = [op |-> "encrypt", pw |-> pw, kdf |-> o.kdf, res |-> result]
  BY DEF EncryptStep, IInv, TypeOK
<1>3. last'.op = "encrypt" /\ last'.res = result /\ last'.kdf = o.kdf
  BY <1>2
<1>4. CASE ~ result.ok
  <2>1. made' = None /\ file' = None
    BY <1>2, <1>4 DEF EncryptStep
  <2>2. result \in Refused \/ (result = Err(Allocation(o.kdf)) /\ ~ Fits(o.kdf))
    BY <1>1, <1>4, EncryptGives, OkErr
  <2>3. result.err \in Errors \/ (result.err = Allocation(o.kdf) /\ ~ Fits(o.kdf))
    BY <2>2, RefusedErrors, OkErr
  <2> HIDE DEF result
  <2>4. QED
    BY <1>2, <1>3, <2>1, <2>3 DEF IInv, TypeOK, FileTrue, LastTrue
<1>5. CASE result.ok
  <2>1. result = Ok(full) /\ Writable(pw, o)
    BY <1>1, <1>5, EncryptGives, RefusedErrors, OkErr
  <2>2. /\ file' = full
        /\ made' = [op |-> "made", pw |-> pw, wallet |-> w, mnemonic |-> Mnemonic(w),
                    file |-> full]
    BY <1>5, <2>1, OkErr DEF EncryptStep
  <2>3. IsFile(full) /\ Sealed(made')
    <3>1. WrittenAs(full, pw, w, o)
      BY <2>1, KeystoreFileFields
    <3>2. Sealed([op |-> "made", pw |-> pw, wallet |-> w, file |-> full,
                  mnemonic |-> Mnemonic(w)])
      <4> DEFINE words == Mnemonic(w)
      <4>1. /\ IsFile(full) /\ Parse(full.cipher) = Parse(o.cipher)
            /\ full.iv = o.iv /\ full.kdf = o.kdf
            /\ full.notHex = {} /\ full.address = w /\ full.dkNames = {"dklen"}
        <5> HIDE DEF full
        <5>1. QED
          BY <3>1 DEF WrittenAs
      <4>2. /\ full.ciphertext = KeystoreFile(pw, w, o, DerivedKey(pw, o.kdf)).ciphertext
            /\ full.mac = KeystoreFile(pw, w, o, DerivedKey(pw, o.kdf)).mac
            /\ full.mnemonic = KeystoreFile(pw, w, o, DerivedKey(pw, o.kdf)).mnemonic
        OBVIOUS
      <4> HIDE DEF full
      <4>3. QED
        BY <2>1, <4>1, <4>2, WrittenSealed
    <3> HIDE DEF full
    <3>3. QED
      BY <2>2, <3>1, <3>2 DEF WrittenAs
  <2> HIDE DEF result, full
  <2>4. made' # None /\ made'.pw = pw /\ made'.wallet = w /\ made'.file = full
    BY <2>2, MadeFields
  <2>5. file' # None
    BY <2>2, <2>3, FilesExist
  <2>6. FileTrue'
    BY <2>2, <2>3, <2>4 DEF FileTrue
  <2>7. QED
    BY <1>2, <1>3, <1>5, <2>4, <2>5, <2>6 DEF IInv, TypeOK, LastTrue
<1>6. QED
  BY <1>4, <1>5

\* The options of another SDK are those of a file this one can write.
LEMMA ForeignWritable ==
  ASSUME NEW pw, NEW o \in Foreign
  PROVE  Writable(pw, o)
<1>1. /\ o \in EncryptOptions /\ Parse(o.cipher) # Unsupported /\ o.iv[2] = 16
      /\ EnsureDerivedKeyLen(o.kdf.dklen, Parse(o.cipher))
      /\ NoPower \notin {o.kdf.n, o.kdf.r, o.kdf.p} /\ CompatParams(o.kdf)
  BY ForeignAssumption
<1>2. Parse(o.cipher) \in CipherSpec
  BY <1>1, ParseType
<1>3. o.kdf.dklen # 0
  <2>1. o.kdf.dklen \in Nat
    BY <1>1 DEF EncryptOptions, Kdfs
  <2>2. QED
    BY <1>1, <1>2, <2>1, SpecType DEF EnsureDerivedKeyLen
<1>4. Fits(o.kdf) => DeriveKey(pw, o.kdf) = Ok(DerivedKey(pw, o.kdf))
  BY <1>1, <1>3 DEF DeriveKey, DerivedKey
<1>5. QED
  BY <1>1, <1>2, <1>4 DEF Writable

LEMMA ReceiveKeeps ==
  ASSUME IInv, NEW pw \in Passwords, NEW w \in Wallets, NEW o \in Foreign,
         NEW name, NEW dkName, NEW capitals, NEW phrase \in BOOLEAN,
         ReceiveStep(pw, w, o, name, dkName, capitals, phrase)
  PROVE  IInv'
<1> DEFINE full == KeystoreFile(pw, w, o, DerivedKey(pw, o.kdf))
           f == [full EXCEPT !.cipher = name, !.dkNames = {dkName},
                             !.capitals = capitals,
                             !.mnemonic = IF phrase THEN @ ELSE <<>>]
           words == IF phrase THEN Mnemonic(w) ELSE <<>>
<1>1. /\ made = None /\ file = None /\ Parse(name) = Parse(o.cipher)
      /\ file' = f
      /\ made' = [op |-> "made", pw |-> pw, wallet |-> w, file |-> f, mnemonic |-> words]
      /\ edits' = edits /\ edits \in 0 .. MaxEdits /\ last' = last
  BY DEF ReceiveStep, DerivedKey, IInv, TypeOK
<1>2. Writable(pw, o) /\ WrittenAs(full, pw, w, o)
  BY ForeignWritable, KeystoreFileFields
<1>3. /\ IsFile(f) /\ f.cipher = name /\ f.dkNames = {dkName}
      /\ f.iv = o.iv /\ f.kdf = o.kdf /\ f.notHex = {} /\ f.address = w
      /\ f.ciphertext = full.ciphertext /\ f.mac = full.mac
      /\ f.mnemonic = IF phrase THEN full.mnemonic ELSE <<>>
  <2> HIDE DEF full
  <2>1. /\ IsFile(full) /\ full.iv = o.iv /\ full.kdf = o.kdf /\ full.notHex = {}
        /\ full.address = w
    BY <1>2 DEF WrittenAs
  <2>2. f = [cipher |-> name, ciphertext |-> full.ciphertext, iv |-> full.iv,
             mnemonic |-> IF phrase THEN full.mnemonic ELSE <<>>,
             kdf |-> full.kdf, mac |-> full.mac, capitals |-> capitals,
             dkNames |-> {dkName}, notHex |-> full.notHex, address |-> full.address]
    <3> DEFINE stored == IF phrase THEN full.mnemonic ELSE <<>>
    <3>1. f = [full EXCEPT !.cipher = name, !.dkNames = {dkName}, !.capitals = capitals,
                           !.mnemonic = stored]
      BY <2>1 DEF IsFile
    <3> HIDE DEF stored, f
    <3>2. f = [cipher |-> name, ciphertext |-> full.ciphertext, iv |-> full.iv,
               mnemonic |-> stored, kdf |-> full.kdf, mac |-> full.mac,
               capitals |-> capitals, dkNames |-> {dkName}, notHex |-> full.notHex,
               address |-> full.address]
      BY <2>1, <3>1 DEF IsFile
    <3>3. QED
      BY <3>2 DEF stored
  <2>3. full.kdf \in Kdfs
    BY <2>1 DEF IsFile
  <2> HIDE DEF f
  <2>4. QED
    BY <2>1, <2>2, <2>3 DEF IsFile
<1>4. Sealed([op |-> "made", pw |-> pw, wallet |-> w, file |-> f, mnemonic |-> words])
  <2>1. \/ words = Mnemonic(w) /\ f.mnemonic = full.mnemonic
        \/ words = <<>> /\ f.mnemonic = <<>>
    BY <1>3
  <2> HIDE DEF f, words
  <2>2. QED
    BY <1>1, <1>2, <1>3, <2>1, WrittenSealed
<1> HIDE DEF f, words
<1>5. made' # None /\ made'.pw = pw /\ made'.wallet = w /\ made'.file = f
  BY <1>1, MadeFields
<1>6. file' # None
  BY <1>1, <1>3, FilesExist
<1>7. FileTrue'
  BY <1>1, <1>3, <1>4, <1>5 DEF FileTrue
<1>8. LastTrue'
  BY <1>1 DEF IInv, LastTrue
<1>9. QED
  BY <1>1, <1>5, <1>6, <1>7, <1>8 DEF IInv, TypeOK

\* An altered file is a file; its MAC is the old one or one without a key.
LEMMA AlteredIsFile ==
  ASSUME NEW f, IsFile(f), NEW g \in Altered(f)
  PROVE  IsFile(g) /\ (g.mac = f.mac \/ Unkeyed(g.mac))
<1>1. f.kdf = [n |-> f.kdf.n, r |-> f.kdf.r, p |-> f.kdf.p, dklen |-> f.kdf.dklen,
               salt |-> f.kdf.salt]
      /\ f.kdf.n \in Exponents /\ f.kdf.r \in Exponents /\ f.kdf.p \in Exponents
      /\ f.kdf.dklen \in Nat /\ f.kdf.salt \in Salts
  BY DEF IsFile, Kdfs
<1>2. \A k : /\ [f EXCEPT !.kdf = k].kdf = k /\ [f EXCEPT !.kdf = k].mac = f.mac
             /\ k \in Kdfs => IsFile([f EXCEPT !.kdf = k])
  BY DEF IsFile
<1>3. \A t : IsFile([f EXCEPT !.ciphertext = t]) /\ [f EXCEPT !.ciphertext = t].mac = f.mac
  BY DEF IsFile
<1>4. \A t : IsFile([f EXCEPT !.mnemonic = t]) /\ [f EXCEPT !.mnemonic = t].mac = f.mac
  BY DEF IsFile
<1>5. \A t : IsFile([f EXCEPT !.iv = t]) /\ [f EXCEPT !.iv = t].mac = f.mac
  BY DEF IsFile
<1>6. \A t : IsFile([f EXCEPT !.notHex = t]) /\ [f EXCEPT !.notHex = t].mac = f.mac
  BY DEF IsFile
<1>7. \A t : IsFile([f EXCEPT !.dkNames = t]) /\ [f EXCEPT !.dkNames = t].mac = f.mac
  BY DEF IsFile
<1>8. \A t : IsFile([f EXCEPT !.cipher = t]) /\ [f EXCEPT !.cipher = t].mac = f.mac
  BY DEF IsFile
<1>9. \A t : IsFile([f EXCEPT !.mac = t]) /\ [f EXCEPT !.mac = t].mac = t
  BY DEF IsFile
<1>10. \/ \E t : g = [f EXCEPT !.ciphertext = t]
       \/ \E t : g = [f EXCEPT !.mnemonic = t]
       \/ \E t : g = [f EXCEPT !.iv = t]
       \/ \E t : g = [f EXCEPT !.notHex = t]
       \/ \E t : g = [f EXCEPT !.dkNames = t]
       \/ \E t : g = [f EXCEPT !.cipher = t]
       \/ \E t : Unkeyed(t) /\ g = [f EXCEPT !.mac = t]
       \/ \E k \in Kdfs : g = [f EXCEPT !.kdf = k]
  <2>1. \A len \in Nat : [f.kdf EXCEPT !.dklen = len] \in Kdfs
    BY <1>1 DEF Kdfs
  <2>2. \A e \in Exponents : /\ [f.kdf EXCEPT !.n = e] \in Kdfs
                             /\ [f.kdf EXCEPT !.r = e] \in Kdfs
                             /\ [f.kdf EXCEPT !.p = e] \in Kdfs
    BY <1>1 DEF Kdfs
  <2>3. [f.kdf EXCEPT !.salt = "other"] \in Kdfs
    BY <1>1, SaltsAssumption DEF Kdfs
  <2>4. {NoPower, 0, 13, 31, 3, 25, 2} \subseteq Exponents
    BY DEF Exponents
  <2>5. Unkeyed(Keccak(<<>>)) /\ \A t : Unkeyed(Keccak(<<<<>>, t>>))
    BY DEF Unkeyed
  <2>6. QED
    BY <2>1, <2>2, <2>3, <2>4, <2>5 DEF Altered
<1>11. CASE \E t : g = [f EXCEPT !.ciphertext = t]
  BY <1>3, <1>11
<1>12. CASE \E t : g = [f EXCEPT !.mnemonic = t]
  BY <1>4, <1>12
<1>13. CASE \E t : g = [f EXCEPT !.iv = t]
  BY <1>5, <1>13
<1>14. CASE \E t : g = [f EXCEPT !.notHex = t]
  BY <1>6, <1>14
<1>15. CASE \E t : g = [f EXCEPT !.dkNames = t]
  BY <1>7, <1>15
<1>16. CASE \E t : g = [f EXCEPT !.cipher = t]
  BY <1>8, <1>16
<1>17. CASE \E t : Unkeyed(t) /\ g = [f EXCEPT !.mac = t]
  BY <1>9, <1>17
<1>18. CASE \E k \in Kdfs : g = [f EXCEPT !.kdf = k]
  BY <1>2, <1>18
<1>19. QED
  BY <1>10, <1>11, <1>12, <1>13, <1>14, <1>15, <1>16, <1>17, <1>18

LEMMA AlterKeeps ==
  ASSUME IInv, AlterStep
  PROVE  IInv'
<1>1. PICK g \in Altered(file) : file' = g
  BY DEF AlterStep
<1>2. /\ made # None /\ made' = made /\ last' = None
      /\ edits' = edits + 1 /\ edits < MaxEdits /\ edits \in 0 .. MaxEdits
      /\ made.pw \in Passwords /\ made.wallet \in Wallets
  BY DEF AlterStep, IInv, TypeOK
<1>3. /\ IsFile(made.file) /\ IsFile(file) /\ Sealed(made)
      /\ file.mac = made.file.mac \/ Unkeyed(file.mac)
  BY <1>2 DEF IInv, FileTrue
<1>4. IsFile(g) /\ (g.mac = made.file.mac \/ Unkeyed(g.mac))
  BY <1>3, AlteredIsFile
<1>5. file' # None
  BY <1>1, <1>4, FilesExist
<1>6. FileTrue'
  BY <1>1, <1>2, <1>3, <1>4 DEF FileTrue
<1>7. TypeOK'
  BY <1>2, <1>5, EditsAssumption DEF TypeOK
<1>8. QED
  BY <1>2, <1>6, <1>7 DEF IInv, LastTrue

\* What unlock_js gives is one of the documented results.
LEMMA ResultDocumented ==
  ASSUME NEW f, f.kdf \in Kdfs, NEW pw, NEW res \in UnlockJs(f, pw)
  PROVE  \/ res.ok
         \/ ~ res.ok /\ res.err \in Errors
         \/ res = Err(Allocation(f.kdf)) /\ ~ Fits(f.kdf)
<1>1. CASE Opened(f, pw, res)
  BY <1>1, OkErr DEF Opened
<1>2. QED
  BY <1>1, UnlockGives, RefusedErrors

LEMMA UnlockKeeps ==
  ASSUME IInv, NEW pw \in Passwords, UnlockStep(pw)
  PROVE  IInv'
<1>1. PICK res \in UnlockJs(file, pw) :
        last' = [op |-> "unlock", pw |-> pw, kdf |-> file.kdf, res |-> res]
  BY DEF UnlockStep
<1>2. made # None /\ made' = made /\ file' = file /\ edits' = edits
  BY DEF UnlockStep
<1>3. /\ last'.op = "unlock" /\ last'.pw = pw /\ last'.kdf = file.kdf /\ last'.res = res
  BY <1>1
<1>4. file.kdf \in Kdfs
  BY <1>2 DEF IInv, FileTrue, IsFile
<1>5. \/ res.ok \/ res.err \in Errors
      \/ (res.err = Allocation(file.kdf) /\ ~ Fits(file.kdf))
  BY <1>4, ResultDocumented, OkErr
<1>6. TypeOK'
  BY <1>2, <1>3, <1>5 DEF IInv, TypeOK
<1>7. FileTrue'
  BY <1>2 DEF IInv, FileTrue
<1>8. LastTrue'
  BY <1>2, <1>3 DEF LastTrue
<1>9. QED
  BY <1>6, <1>7, <1>8 DEF IInv

LEMMA CheckKeeps ==
  ASSUME IInv, NEW pw \in Passwords, CheckStep(pw)
  PROVE  IInv'
<1>1. PICK res \in UnlockJs(file, pw) :
        last' = [op |-> "check", pw |-> pw, kdf |-> file.kdf,
                 res |-> IF res \in {Err("panic"), Err("abort")} THEN res ELSE Ok(res.ok)]
  BY DEF CheckStep
<1> DEFINE told == IF res \in {Err("panic"), Err("abort")} THEN res ELSE Ok(res.ok)
<1>2. made # None /\ made' = made /\ file' = file /\ edits' = edits
  BY DEF CheckStep
<1>3. /\ last'.op = "check" /\ last'.kdf = file.kdf /\ last'.res = told
  BY <1>1
<1>4. file.kdf \in Kdfs
  BY <1>2 DEF IInv, FileTrue, IsFile
<1>5. told.ok \/ (told.err = Allocation(file.kdf) /\ ~ Fits(file.kdf))
  <2>1. CASE res \in {Err("panic"), Err("abort")}
    <3>1. ~ res.ok /\ res.err \notin Errors
      BY <2>1, OkErr DEF Errors
    <3>2. QED
      BY <1>4, <2>1, <3>1, ResultDocumented, OkErr
  <2>2. CASE res \notin {Err("panic"), Err("abort")}
    BY <2>2, OkErr
  <2>3. QED
    BY <2>1, <2>2
<1> HIDE DEF told
<1>6. TypeOK'
  BY <1>2, <1>3, <1>5 DEF IInv, TypeOK
<1>7. FileTrue'
  BY <1>2 DEF IInv, FileTrue
<1>8. LastTrue'
  BY <1>3 DEF LastTrue
<1>9. QED
  BY <1>6, <1>7, <1>8 DEF IInv

LEMMA StutterKeeps ==
  ASSUME IInv, UNCHANGED vars
  PROVE  IInv'
  BY DEF vars, IInv, TypeOK, FileTrue, LastTrue

LEMMA Invariance == Spec => []IInv
<1>1. ASSUME IInv, [Next]_vars PROVE IInv'
  <2>1. CASE UNCHANGED vars
    BY <1>1, <2>1, StutterKeeps
  <2>2. ASSUME NEW pw \in Passwords, NEW w \in Wallets, NEW o \in Options,
               EncryptStep(pw, w, o)
        PROVE  IInv'
    BY <1>1, <2>2, EncryptKeeps
  <2>3. ASSUME NEW pw \in Passwords, NEW w \in Wallets, NEW o \in Foreign, NEW name,
               NEW dkName, NEW capitals \in BOOLEAN, NEW phrase \in BOOLEAN,
               ReceiveStep(pw, w, o, name, dkName, capitals, phrase)
        PROVE  IInv'
    BY <1>1, <2>3, ReceiveKeeps
  <2>4. CASE AlterStep
    BY <1>1, <2>4, AlterKeeps
  <2>5. ASSUME NEW pw \in Passwords, UnlockStep(pw) PROVE IInv'
    BY <1>1, <2>5, UnlockKeeps
  <2>6. ASSUME NEW pw \in Passwords, CheckStep(pw) PROVE IInv'
    BY <1>1, <2>6, CheckKeeps
  <2>7. QED
    BY <1>1, <2>1, <2>2, <2>3, <2>4, <2>5, <2>6 DEF Next
<1>2. QED
  BY <1>1, InitHolds, PTL DEF Spec

-----------------------------------------------------------------------------
(* The theorems. *)

\* Whatever was written, received, altered or asked for, an operation ends with
\* a result or with a documented error, unless memory has no room for what the
\* scrypt parameters ask.
THEOREM TypeCorrect == Spec => []TypeOK
<1>1. IInv => TypeOK
  BY DEF IInv
<1>2. QED
  BY <1>1, Invariance, PTL

\* What is known when a protected file has been unlocked with some password.
LEMMA UnlockedOpened ==
  ASSUME IInv, made # None, Protected(file), NEW pw, Unlocked(pw)
  PROVE  /\ Opened(file, pw, last.res)
         /\ file.mac = made.file.mac
         /\ file.ciphertext = made.file.ciphertext
         /\ pw = made.pw /\ file.kdf = made.file.kdf
<1>1. /\ IsFile(made.file) /\ IsFile(file) /\ Sealed(made)
      /\ file.mac = made.file.mac \/ Unkeyed(file.mac)
  BY DEF IInv, FileTrue
<1>2. last.res \in UnlockJs(file, pw) /\ last.res.ok
  BY DEF IInv, LastTrue, Unlocked
<1>3. file.kdf \in Kdfs /\ made.file.kdf \in Kdfs /\ file.kdf.dklen >= 16 + MacBytes
  BY <1>1 DEF IsFile, Protected
<1>4. Opened(file, pw, last.res)
  BY <1>2, <1>3, UnlockGives, RefusedErrors, OkErr
<1> DEFINE k == made.file.kdf
           k2 == file.kdf
           text == made.file.ciphertext
           text2 == file.ciphertext
           owner == made.pw
<1>5. TRUE \in MacMatches(file.mac, MacInput(DerivedKey(pw, k2), k2, text2))
  BY <1>4 DEF Opened
<1>6. file.mac = made.file.mac
  BY <1>1, <1>3, <1>5, UnkeyedRefused
<1>7. /\ made.file.mac = Keccak(MacInput(DerivedKey(owner, k), k, text))
      /\ EnsureDerivedKeyLen(k.dklen, Parse(made.file.cipher))
      /\ Parse(made.file.cipher) \in CipherSpec
  BY <1>1 DEF Sealed
<1>8. k.dklen >= 16 /\ k2.dklen > 16 /\ k2.dklen >= 16
  <2>1. ASSUME NEW n \in Nat, NEW spec \in CipherSpec, EnsureDerivedKeyLen(n, spec)
        PROVE  n >= 16
    BY <2>1, SpecType DEF EnsureDerivedKeyLen
  <2>2. k2.dklen \in Nat /\ k.dklen \in Nat
    BY <1>3 DEF Kdfs
  <2>3. QED
    BY <1>3, <1>7, <2>1, <2>2, MacAssumption
<1>9. text = text2 /\ owner = pw /\ k = k2
  <2> HIDE DEF k, k2, text, text2, owner
  <2>1. k \in Kdfs /\ k2 \in Kdfs /\ k2.dklen >= 16 + MacBytes
    BY <1>3 DEF k, k2
  <2>2. MacInput(DerivedKey(owner, k), k, text) = MacInput(DerivedKey(pw, k2), k2, text2)
    BY <1>5, <1>6, <1>7, <2>1, MacOther
  <2>3. QED
    BY <1>8, <2>1, <2>2, MacInjective
<1>10. QED
  BY <1>4, <1>6, <1>9

\* No other password opens a file that names enough bytes of the derived key
\* for the MAC, however many of its other fields were altered.
THEOREM OtherPasswordsRefused == Spec => []WrongPasswordRefused
<1>1. IInv => WrongPasswordRefused
  BY UnlockedOpened DEF WrongPasswordRefused
<1>2. QED
  BY <1>1, Invariance, PTL

\* Ciphertext, MAC and key derivation of such a file are those it was made with
\* if it opens, and so is its private key unless what the MAC leaves out was
\* altered.
THEOREM AlterationsNoticed == Spec => []DamageNoticed
<1>1. ASSUME IInv, made # None, Protected(file), Unlocked(made.pw),
             file.kdf = made.file.kdf, file.iv = made.file.iv,
             Parse(file.cipher) = Parse(made.file.cipher)
      PROVE  last.res.val.key = PrivateKey(made.wallet)
  <2> DEFINE spec == Parse(file.cipher)
             key == <<DerivedKey(made.pw, file.kdf), 0, spec.keyLen>>
  <2>1. Opened(file, made.pw, last.res) /\ file.ciphertext = made.file.ciphertext
    BY <1>1, UnlockedOpened
  <2>2. Sealed(made)
    BY <1>1 DEF IInv, FileTrue
  <2>3. PICK k \in Decrypt(spec, key, file.iv, file.ciphertext),
             m \in Decrypt(spec, key, file.iv, file.mnemonic) :
               last.res = Ok([key |-> k.val, mnemonic |-> m.val, address |-> file.address])
    BY <2>1 DEF Opened
  <2>4. spec \in CipherSpec
    BY <2>1 DEF Opened
  <2>5. file.ciphertext = Encrypt(spec, key, file.iv, PrivateKey(made.wallet))
    BY <1>1, <2>1, <2>2 DEF Sealed
  <2>6. PrivateKey(made.wallet) \in Seq({{<<"key", made.wallet, i>>} : i \in {1, 2}})
    BY DEF PrivateKey
  <2> HIDE DEF spec, key
  <2>7. k = Ok(PrivateKey(made.wallet))
    BY <2>3, <2>4, <2>5, <2>6, DecryptEncrypt
  <2>8. QED
    BY <2>3, <2>7, OkErr
<1>2. IInv => DamageNoticed
  <2>1. ASSUME IInv, made # None, Protected(file), Unlocked(made.pw)
        PROVE  /\ file.ciphertext = made.file.ciphertext /\ file.mac = made.file.mac
               /\ file.kdf = made.file.kdf
    BY <2>1, UnlockedOpened
  <2>2. QED
    BY <1>1, <2>1 DEF DamageNoticed
<1>3. QED
  BY <1>2, Invariance, PTL

\* A file nobody altered opens with its password and holds its wallet.
THEOREM OwnPasswordOpens == Spec => []RightPasswordUnlocks
<1>1. ASSUME IInv, made # None, file = made.file, Readable(file),
             last # None, last.op = "unlock", last.pw = made.pw
      PROVE  last.res = Ok([key |-> PrivateKey(made.wallet), mnemonic |-> made.mnemonic,
                            address |-> made.wallet])
  <2>1. IsFile(made.file) /\ Sealed(made)
    BY <1>1 DEF IInv, FileTrue
  <2>2. last.res \in UnlockJs(made.file, made.pw)
    BY <1>1 DEF IInv, LastTrue
  <2>3. QED
    BY <1>1, <2>1, <2>2, SealedOpens
<1>2. IInv => RightPasswordUnlocks
  BY <1>1, OkErr DEF RightPasswordUnlocks
<1>3. QED
  BY <1>2, Invariance, PTL

=============================================================================
