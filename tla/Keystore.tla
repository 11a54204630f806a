------------------------------- MODULE Keystore -----------------------------
(***************************************************************************)
(* The password-protected wallet file (crates/aelf-keystore/src/lib.rs):   *)
(* encrypt_js_with_options writes one, other SDKs write theirs, a file may *)
(* be altered while it is stored, unlock_js and check_password read it.    *)
(*                                                                         *)
(* Bytes are symbolic.  A text is a sequence of blocks, a block is a set   *)
(* of terms, and exclusive or is the symmetric difference of two sets; a   *)
(* term names what it was computed from, so that different inputs give     *)
(* different blocks.  The key scrypt derives does not depend on the length *)
(* asked for: a longer one extends a shorter one; of a short part of it    *)
(* two keys may have the same bytes.  The scrypt parameters n, r and p are *)
(* given as exponents of two, and the overflow checks are done with the    *)
(* exponents, exactly, for 64-bit machine words.                           *)
(***************************************************************************)
EXTENDS Integers, Sequences, FiniteSets

CONSTANTS
    Passwords,
    Wallets,      \* each has a private key
    Phrased,      \* the wallets that also have a mnemonic
    Options,      \* what encrypt_js_with_options may be given
    Foreign,      \* the options other SDKs write files with
    Salts,        \* of the key derivation
    Memory,       \* buffers of 2^Memory bytes and more are not to be had
    LongestKey,   \* nor is a longer derived key
    MaxBlocks,    \* of 32 bytes that a key may be derived of
    MacBytes,     \* so many bytes of two derived keys are never the same
    MaxEdits      \* bound on the alterations of the stored file

ASSUME PhrasedAssumption == Phrased \subseteq Wallets

ASSUME SaltsAssumption == "other" \in Salts    \* what an altered salt becomes

WordBits == 64

ASSUME MemoryAssumption == Memory \in 0 .. WordBits - 1 /\ LongestKey \in Nat

ASSUME BlocksAssumption == MaxBlocks \in Nat

ASSUME MacAssumption == MacBytes \in Nat \ {0}

ASSUME EditsAssumption == MaxEdits \in Nat

VARIABLES
    made,         \* what the file was made from, and the file as it was made
    file,         \* the file as it is stored now
    edits,        \* how many alterations were made
    last          \* the last operation and its result

vars == <<made, file, edits, last>>

None == [op |-> "none"]

Ok(v) == [ok |-> TRUE, val |-> v]

Err(e) == [ok |-> FALSE, err |-> e]

Xor(a, b) == (a \ b) \cup (b \ a)

PrivateKey(w) == <<{<<"key", w, 1>>}, {<<"key", w, 2>>}>>

Mnemonic(w) == IF w \in Phrased THEN <<{<<"words", w>>}>> ELSE <<>>

-----------------------------------------------------------------------------
(* Ciphers. *)

CipherSpec == [keyLen : {16, 24, 32}, mode : {"ctr", "cbc"}]

Unsupported == [keyLen |-> 0, mode |-> "unsupported"]

\* Names are compared in lower case: a name stands for all its spellings.
Parse(name) ==
    CASE name = "aes-128-ctr" -> [keyLen |-> 16, mode |-> "ctr"]
      [] name = "aes-192-ctr" -> [keyLen |-> 24, mode |-> "ctr"]
      [] name = "aes-256-ctr" -> [keyLen |-> 32, mode |-> "ctr"]
      [] name \in {"aes-128-cbc", "aes128"} -> [keyLen |-> 16, mode |-> "cbc"]
      [] name \in {"aes-192-cbc", "aes192"} -> [keyLen |-> 24, mode |-> "cbc"]
      [] name \in {"aes-256-cbc", "aes256"} -> [keyLen |-> 32, mode |-> "cbc"]
      [] OTHER -> Unsupported

CanonicalNames == {"aes-128-ctr", "aes-192-ctr", "aes-256-ctr",
                   "aes-128-cbc", "aes-192-cbc", "aes-256-cbc"}

AsStr(spec) == CHOOSE name \in CanonicalNames : Parse(name) = spec

Pad == {<<"padding">>}

Stream(key, iv, text) ==
    [i \in DOMAIN text |-> Xor(text[i], {<<"stream", key, iv, i>>})]

EncryptCbc(key, iv, text) ==
    LET padded == Append(text, Pad)
        chain[i \in 0 .. Len(padded)] ==
            IF i = 0 THEN {iv}
            ELSE {<<"aes", key, Xor(padded[i], chain[i - 1])>>}
    IN [i \in DOMAIN padded |-> chain[i]]

InvertBlock(key, block) ==
    LET term == CHOOSE t \in block : TRUE
    IN IF Cardinality(block) = 1 /\ term[1] = "aes" /\ term[2] = key
       THEN term[3]
       ELSE {<<"inverse", key, block>>}

\* Removing the padding of a garbled last block fails, except by accident.
DecryptCbc(key, iv, text) ==
    LET plain == [i \in DOMAIN text |->
                     Xor(InvertBlock(key, text[i]),
                         IF i = 1 THEN {iv} ELSE text[i - 1])]
    IN IF text = <<>> THEN {Err("InvalidPassword")}
       ELSE IF plain[Len(plain)] = Pad
       THEN {Ok(SubSeq(plain, 1, Len(plain) - 1))}
       ELSE {Err("InvalidPassword"), Ok(plain)}

Encrypt(spec, key, iv, text) ==
    IF spec.mode = "ctr" THEN Stream(key, iv, text)
    ELSE EncryptCbc(key, iv, text)

Decrypt(spec, key, iv, text) ==
    IF spec.mode = "ctr" THEN {Ok(Stream(key, iv, text))}
    ELSE DecryptCbc(key, iv, text)

-----------------------------------------------------------------------------
(* Deriving the key.  kdf has the fields n, r, p, dklen and salt. *)

NoPower == -1    \* an n that is no power of two; a zero n, r or p

Exponents == {NoPower} \cup 0 .. 31

Kdfs == [n : Exponents, r : Exponents, p : Exponents, dklen : Nat, salt : Salts]

EncryptOptions == [cipher : STRING, kdf : Kdfs, iv : STRING \X Nat]

ASSUME OptionsAssumption == Options \subseteq EncryptOptions

\* Params::new of the scrypt crate: stricter than what other SDKs write.  It
\* wants log2 n < 16 r, which an n of 32 bits can only miss if r is 1.
StrictParams(kdf) ==
    /\ kdf.r = 0 => kdf.n < 16
    /\ kdf.r + kdf.p < 30
    /\ kdf.n + kdf.r + 7 < WordBits
    /\ kdf.dklen \in 10 .. 64

CompatParams(kdf) ==
    LET pr128 == kdf.p + kdf.r + 7
        nr128 == kdf.n + kdf.r + 7
    IN /\ kdf.dklen \div 32 <= MaxBlocks
       /\ pr128 < WordBits
       /\ nr128 < WordBits
       /\ ~(pr128 = WordBits - 1 /\ nr128 = WordBits - 1)

\* What scrypt does on its way to the key: it asks for p r 128 bytes, then for
\* n r 128, then for the key.  A buffer of half the address space panics, one
\* that memory has no room for aborts the program.
Allocation(kdf) ==
    LET Refused(e) == IF e = WordBits - 1 THEN "panic" ELSE "abort"
        pr128 == kdf.p + kdf.r + 7
        nr128 == kdf.n + kdf.r + 7
    IN IF pr128 >= Memory THEN Refused(pr128)
       ELSE IF nr128 >= Memory THEN Refused(nr128)
       ELSE IF kdf.dklen > LongestKey THEN "abort"
       ELSE "done"

Fits(kdf) == Allocation(kdf) = "done"

\* Mutant of DeriveKey: what the strict guard rejects is an error.
DeriveKeyStrictly(pw, kdf) ==
    IF NoPower \in {kdf.n, kdf.r, kdf.p} \/ kdf.dklen = 0 \/ ~StrictParams(kdf)
    THEN Err("InvalidScryptParams")
    ELSE IF ~Fits(kdf) THEN Err(Allocation(kdf))
    ELSE Ok(<<pw, kdf.salt, kdf.n, kdf.r, kdf.p>>)

\* "panic" and "abort" stand for a call that does not return.
DeriveKey(pw, kdf) ==
    IF NoPower \in {kdf.n, kdf.r, kdf.p} \/ kdf.dklen = 0
    THEN Err("InvalidScryptParams")
    ELSE IF ~(StrictParams(kdf) \/ CompatParams(kdf))
    THEN Err("InvalidScryptParams")
    ELSE IF ~Fits(kdf) THEN Err(Allocation(kdf))
    ELSE Ok(<<pw, kdf.salt, kdf.n, kdf.r, kdf.p>>)

\* Mutant of EnsureDerivedKeyLen: only the key of the MAC is thought of.
EnsureMacKeyLen(dklen, spec) == dklen >= 16

EnsureDerivedKeyLen(dklen, spec) ==
    dklen >= (IF spec.keyLen > 16 THEN spec.keyLen ELSE 16)

\* derived_key[a..b] of a key of dklen bytes; out of range is a panic.
Slice(dk, a, b, dklen) ==
    IF a > b \/ b > dklen THEN Err("panic")
    ELSE IF a = b THEN Ok(<<>>)
    ELSE Ok(<<dk, a, b>>)

\* Mutant of MacInput: the MAC is keyed with nothing.
MacInputUnkeyed(dk, kdf, ciphertext) == <<<<>>, ciphertext>>

\* Mutant of MacInput: the ciphertext is not part of it.
MacInputKeyOnly(dk, kdf, ciphertext) ==
    <<Slice(dk, 16, kdf.dklen, kdf.dklen).val, <<>>>>

MacInput(dk, kdf, ciphertext) ==
    <<Slice(dk, 16, kdf.dklen, kdf.dklen).val, ciphertext>>

Keccak(input) == <<"keccak", input>>

\* The outcomes of comparing a stored MAC with that of an input: parts of two
\* derived keys, from the same bytes to the same, are the same by accident if
\* they are short.
MacMatches(mac, input) ==
    LET stored == mac[2]
        alike == /\ Len(stored) = 2
                 /\ Len(stored[1]) = 3 /\ Len(input[1]) = 3
                 /\ SubSeq(stored[1], 2, 3) = SubSeq(input[1], 2, 3)
                 /\ input[1][3] - input[1][2] < MacBytes
                 /\ stored[2] = input[2]
    IN IF stored = input THEN {TRUE} ELSE IF alike THEN BOOLEAN ELSE {FALSE}

\* Another SDK has derived the key and encrypted with it: the key was long
\* enough for its cipher and for the MAC.  That SDK may have had more memory.
ASSUME ForeignAssumption ==
    \A o \in Foreign :
        /\ o \in EncryptOptions
        /\ Parse(o.cipher) # Unsupported
        /\ o.iv[2] = 16
        /\ EnsureDerivedKeyLen(o.kdf.dklen, Parse(o.cipher))
        /\ NoPower \notin {o.kdf.n, o.kdf.r, o.kdf.p}
        /\ CompatParams(o.kdf)

-----------------------------------------------------------------------------
(* Writing and reading a file. *)

KeystoreFile(pw, w, o, dk) ==
    LET spec == Parse(o.cipher)
        key == Slice(dk, 0, spec.keyLen, o.kdf.dklen).val
        ciphertext == Encrypt(spec, key, o.iv, PrivateKey(w))
    IN [cipher |-> AsStr(spec),
        ciphertext |-> ciphertext,
        iv |-> o.iv,
        mnemonic |-> Encrypt(spec, key, o.iv, Mnemonic(w)),
        kdf |-> o.kdf,
        mac |-> Keccak(MacInput(dk, o.kdf, ciphertext)),
        capitals |-> FALSE,
        dkNames |-> {"dklen"},
        notHex |-> {},
        address |-> w]

EncryptJs(pw, w, o) ==
    LET spec == Parse(o.cipher)
        dk == DeriveKey(pw, o.kdf)
    IN IF spec = Unsupported THEN Err("UnsupportedCipher")
       ELSE IF ~EnsureDerivedKeyLen(o.kdf.dklen, spec)
       THEN Err("InvalidScryptParams")
       ELSE IF ~dk.ok THEN dk
       ELSE IF ~Slice(dk.val, 0, spec.keyLen, o.kdf.dklen).ok THEN Err("panic")
       ELSE IF o.iv[2] # 16 THEN Err("InvalidCipherLength")
       ELSE IF ~Slice(dk.val, 16, o.kdf.dklen, o.kdf.dklen).ok THEN Err("panic")
       ELSE Ok(KeystoreFile(pw, w, o, dk.val))

\* The private key and the mnemonic are decrypted one after the other: several
\* outcomes when the padding of a garbled text may be taken for a right one.
Contents(f, spec, key) ==
    {IF ~k.ok THEN k ELSE IF ~m.ok THEN m
     ELSE Ok([key |-> k.val, mnemonic |-> m.val, address |-> f.address]) :
        k \in Decrypt(spec, key, f.iv, f.ciphertext),
        m \in Decrypt(spec, key, f.iv, f.mnemonic)}

\* The outcomes of reading the file and unlock_js.  A MAC is compared as text.
UnlockJs(f, pw) ==
    LET spec == Parse(f.cipher)
        dk == DeriveKey(pw, f.kdf)
        key == Slice(dk.val, 0, spec.keyLen, f.kdf.dklen)
        matches == IF f.capitals THEN {FALSE}
                   ELSE MacMatches(f.mac, MacInput(dk.val, f.kdf, f.ciphertext))
    IN IF Cardinality(f.dkNames) # 1 THEN {Err("Json")}
       ELSE IF spec = Unsupported THEN {Err("UnsupportedCipher")}
       ELSE IF ~EnsureDerivedKeyLen(f.kdf.dklen, spec)
       THEN {Err("InvalidScryptParams")}
       ELSE IF f.notHex # {} THEN {Err("Hex")}
       ELSE IF ~dk.ok THEN {dk}
       ELSE IF ~Slice(dk.val, 16, f.kdf.dklen, f.kdf.dklen).ok
       THEN {Err("panic")}
       ELSE UNION {IF ~same THEN {Err("InvalidPassword")}
                   ELSE IF ~key.ok THEN {Err("panic")}
                   ELSE IF f.iv[2] # 16 THEN {Err("InvalidCipherLength")}
                   ELSE Contents(f, spec, key.val) : same \in matches}

-----------------------------------------------------------------------------
(* The state machine. *)

Init == made = None /\ file = None /\ edits = 0 /\ last = None

EncryptStep(pw, w, o) ==
    LET result == EncryptJs(pw, w, o)
    IN /\ made = None
       /\ last' = [op |-> "encrypt", pw |-> pw, kdf |-> o.kdf, res |-> result]
       /\ IF result.ok
          THEN /\ file' = result.val
               /\ made' = [op |-> "made", pw |-> pw, wallet |-> w,
                           mnemonic |-> Mnemonic(w), file |-> result.val]
          ELSE UNCHANGED <<made, file>>
       /\ UNCHANGED edits

\* A file of another SDK: it spells the cipher and the key length its way,
\* writes hexadecimal in capitals or not, and may leave the mnemonic out.
\* Its scrypt takes whatever parameters the file names.
ReceiveStep(pw, w, o, name, dkName, capitals, phrase) ==
    LET dk == <<pw, o.kdf.salt, o.kdf.n, o.kdf.r, o.kdf.p>>
        full == KeystoreFile(pw, w, o, dk)
        f == [full EXCEPT !.cipher = name,
                          !.dkNames = {dkName},
                          !.capitals = capitals,
                          !.mnemonic = IF phrase THEN @ ELSE <<>>]
    IN /\ made = None
       /\ Parse(name) = Parse(o.cipher)
       /\ file' = f
       /\ made' = [op |-> "made", pw |-> pw, wallet |-> w, file |-> f,
                   mnemonic |-> IF phrase THEN Mnemonic(w) ELSE <<>>]
       /\ UNCHANGED <<edits, last>>

Flipped(text) == [text EXCEPT ![1] = Xor(@, {<<"flipped">>})]

\* What may become of one field of the file.
Altered(f) ==
    {[f EXCEPT !.ciphertext = Flipped(@)],
     [f EXCEPT !.ciphertext = SubSeq(@, 1, Len(@) - 1)],
     [f EXCEPT !.notHex = {"ciphertext"}],
     [f EXCEPT !.iv = <<"other", 16>>],
     [f EXCEPT !.iv = <<"cut", 12>>],
     [f EXCEPT !.kdf.salt = "other"],
     [f EXCEPT !.mac = Keccak(<<>>)],                        \* of anything else
     [f EXCEPT !.mac = Keccak(<<<<>>, f.ciphertext>>)],      \* of no key
     [f EXCEPT !.dkNames = {"dklen", "dkLen"}],
     [f EXCEPT !.dkNames = {}],
     [f EXCEPT !.cipher = "des"]}
    \cup {[f EXCEPT !.mnemonic = Flipped(@)] : x \in {1} \cap DOMAIN f.mnemonic}
    \cup {[f EXCEPT !.cipher = name] : name \in CanonicalNames}
    \cup {[f EXCEPT !.kdf.dklen = len] : len \in {0, 8, 16, 17, 32, 48, 112, 128}}
    \cup {[f EXCEPT !.kdf.n = e] : e \in {NoPower, 0, 13, 31}}
    \cup {[f EXCEPT !.kdf.r = e] : e \in {NoPower, 3, 25, 31}}
    \cup {[f EXCEPT !.kdf.p = e] : e \in {NoPower, 2, 25, 31}}

AlterStep ==
    /\ made # None
    /\ edits < MaxEdits
    /\ \E f \in Altered(file) : f # file /\ file' = f
    /\ edits' = edits + 1
    /\ last' = None
    /\ UNCHANGED made

UnlockStep(pw) ==
    /\ made # None
    /\ \E res \in UnlockJs(file, pw) :
          last' = [op |-> "unlock", pw |-> pw, kdf |-> file.kdf, res |-> res]
    /\ UNCHANGED <<made, file, edits>>

CheckStep(pw) ==
    /\ made # None
    /\ \E res \in UnlockJs(file, pw) :
          last' = [op |-> "check", pw |-> pw, kdf |-> file.kdf,
                   res |-> IF res \in {Err("panic"), Err("abort")} THEN res
                           ELSE Ok(res.ok)]
    /\ UNCHANGED <<made, file, edits>>

Next ==
    \/ \E pw \in Passwords, w \in Wallets, o \in Options : EncryptStep(pw, w, o)
    \/ \E pw \in Passwords, w \in Wallets, o \in Foreign :
          \E name \in CanonicalNames \cup {"aes128", "aes192", "aes256"},
             dkName \in {"dklen", "dkLen"}, capitals, phrase \in BOOLEAN :
                ReceiveStep(pw, w, o, name, dkName, capitals, phrase)
    \/ AlterStep
    \/ \E pw \in Passwords : UnlockStep(pw) \/ CheckStep(pw)

Spec == Init /\ [][Next]_vars

-----------------------------------------------------------------------------

Errors == {"Json", "UnsupportedCipher", "InvalidScryptParams", "Hex",
           "InvalidPassword", "InvalidCipherLength"}

\* Every operation returns, with one of the documented errors if it fails: no
\* slice of the derived key is out of its range, whatever length the file
\* names.  Only the buffers of scrypt may end the program, when memory has no
\* room for what the parameters ask.
TypeOK ==
    /\ made # None => made.pw \in Passwords /\ made.wallet \in Wallets
    /\ made = None <=> file = None
    /\ edits \in 0 .. MaxEdits
    /\ \/ last = None
       \/ last.res.ok
       \/ last.res.err \in Errors
       \/ last.res.err = Allocation(last.kdf) /\ ~Fits(last.kdf)

\* The second implementation of scrypt is "bounded and allocation-safe", as a
\* comment of it says: parameters it takes over from the strict guard lead to
\* a key or to an error, and never end the program.
AllocationSafe ==
    last # None /\ ~StrictParams(last.kdf) => last.res.ok \/ last.res.err \in Errors

Unlocked(pw) == last # None /\ last.op = "unlock" /\ last.pw = pw /\ last.res.ok

\* Two habits of other programs unlock_js does not put up with: a MAC in
\* capitals, which is compared as text, and a missing mnemonic under CBC,
\* for not even an empty text is encrypted to nothing.  And another program
\* may have had the memory that this one lacks.
Readable(f) ==
    /\ ~f.capitals
    /\ Parse(f.cipher).mode = "cbc" => f.mnemonic # <<>>
    /\ Fits(f.kdf)

\* A file nobody altered is opened by its password, and what comes out is the
\* wallet that went in: whatever the cipher and its spelling, the length of
\* the derived key, the name that length has in the file, and the scrypt
\* parameters, those only the second implementation takes included.
RightPasswordUnlocks ==
    made # None /\ file = made.file /\ Readable(file)
        /\ last # None /\ last.op = "unlock" /\ last.pw = made.pw =>
            /\ last.res.ok
            /\ last.res.val.key = PrivateKey(made.wallet)
            /\ last.res.val.mnemonic = made.mnemonic
            /\ last.res.val.address = made.wallet

\* The first 16 bytes of the derived key are not in the MAC: a file is
\* protected if the length it names leaves enough of the others.  The MAC does
\* not cover that length, so this is said of the file as it is stored.
Protected(f) == f.kdf.dklen >= 16 + MacBytes

\* No other password opens a protected file, whatever else was altered in it.
\* (A file that names fewer bytes may open with any password.)
WrongPasswordRefused ==
    made # None /\ Protected(file) =>
        \A pw \in Passwords \ {made.pw} : ~Unlocked(pw)

\* The right password opens a protected file that was damaged only if the
\* ciphertext, the MAC, the salt and the scrypt parameters are those it was
\* made with; and the private key that comes out is the wallet's, unless the
\* initialisation vector or the name of the cipher was altered, which the MAC
\* does not cover.  It does not cover the mnemonic either, of which nothing is
\* said here.
DamageNoticed ==
    made # None /\ Protected(file) /\ Unlocked(made.pw) =>
        /\ file.ciphertext = made.file.ciphertext
        /\ file.mac = made.file.mac
        /\ file.kdf = made.file.kdf
        /\ file.iv = made.file.iv /\ Parse(file.cipher) = Parse(made.file.cipher) =>
              last.res.val.key = PrivateKey(made.wallet)

\* check_password says yes to the password of the file only ("Checks whether
\* the provided password can unlock the keystore"), as its test expects.
CheckPasswordTellsPasswords ==
    made # None /\ file = made.file /\ last # None /\ last.op = "check" =>
        (last.res = Ok(TRUE) => last.pw = made.pw)

=============================================================================
