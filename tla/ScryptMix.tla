------------------------------ MODULE ScryptMix -----------------------------
(***************************************************************************)
(* The second implementation of scrypt (compat_scrypt_ro_mix and what it   *)
(* calls, crates/aelf-keystore/src/lib.rs) and, apart from it, the         *)
(* definitions of RFC 7914.  A block of 64 bytes is a word, and Salsa and  *)
(* BitXor are any functions on words: what is compared is which blocks are *)
(* mixed, in which order, and where the results go.                        *)
(***************************************************************************)
EXTENDS Integers, Sequences

CONSTANTS
    Words,          \* what a block may be, read as a number
    Salsa,          \* Salsa20/8, as a function
    BitXor(_, _),   \* the exclusive or of two words
    BitAnd(_, _)    \* the bitwise conjunction of two numbers

ASSUME WordsAssumption ==
    /\ Words \subseteq Nat /\ 0 \in Words
    /\ Salsa \in [Words -> Words]
    /\ \A x, y \in Words : BitXor(x, y) \in Words

-----------------------------------------------------------------------------
(* The code.  A chunk of 2r blocks is a sequence, indexed from 1.          *)

\* Mutant of CompatPosition: the second half starts one block late.
PositionLate(i, len) ==
    IF i % 2 = 0 THEN i \div 2 ELSE (i \div 2 + len \div 2 + 1) % len

\* Where the result for block i, counted from 0, is put.
CompatPosition(i, len) ==
    IF i % 2 = 0 THEN i \div 2 ELSE i \div 2 + len \div 2

\* One block after the other: x[i] is the result for the i-th, and out[i] what
\* output is once it has been put there.
CompatBlockMix(input, output) ==
    LET len == Len(input)
        x[i \in 0 .. len] == IF i = 0 THEN input[len] ELSE Salsa[BitXor(x[i - 1], input[i])]
        out[i \in 0 .. len] ==
            IF i = 0 THEN output
            ELSE [out[i - 1] EXCEPT ![CompatPosition(i - 1, len) + 1] = x[i]]
    IN out[len]

\* The mask keeps the low bits, for n is a power of two.
CompatIntegerify(b, n) == BitAnd(b[Len(b)], n - 1)

CompatXor(b, c) == [i \in DOMAIN b |-> BitXor(b[i], c[i])]

\* The first loop: the chunk is copied to the scratch memory and mixed.
Fill(s, i) == [b |-> CompatBlockMix(s.b, s.b), v |-> [s.v EXCEPT ![i] = s.b]]

\* The second: it is mixed with the copy it selects.
Mix(b, v, n) == CompatBlockMix(CompatXor(b, v[CompatIntegerify(b, n) + 1]), b)

\* The new contents of the chunk b and of the scratch memory v, which comes
\* with what the chunk before has left in it.
CompatRoMix(b, v, n) ==
    LET filled[i \in 0 .. n] ==
            IF i = 0 THEN [b |-> b, v |-> v] ELSE Fill(filled[i - 1], i)
        scratch == filled[n].v
        mixed[i \in 0 .. n] ==
            IF i = 0 THEN filled[n].b ELSE Mix(mixed[i - 1], scratch, n)
    IN [b |-> mixed[n], v |-> scratch]

\* One chunk more of the output.
Chunk(s, chunk, n) ==
    LET m == CompatRoMix(chunk, s.v, n)
    IN [b |-> Append(s.b, m.b), v |-> m.v]

\* The chunks of the first PBKDF2's output, one after the other.
CompatScrypt(chunks, n) ==
    LET zero == [i \in 1 .. n |-> [k \in DOMAIN chunks[1] |-> 0]]
        s[p \in 0 .. Len(chunks)] ==
            IF p = 0 THEN [b |-> <<>>, v |-> zero] ELSE Chunk(s[p - 1], chunks[p], n)
    IN s[Len(chunks)].b

-----------------------------------------------------------------------------
(* RFC 7914: scryptBlockMix and scryptROMix. *)

RfcBlockMix(block) ==
    LET len == Len(block)
        y[i \in 0 .. len] == IF i = 0 THEN block[len] ELSE Salsa[BitXor(y[i - 1], block[i])]
    IN [k \in 1 .. len \div 2 |-> y[2 * k - 1]] \o [k \in 1 .. len \div 2 |-> y[2 * k]]

\* A block mixed with that of V which its integer selects.
RfcStep(x, V, n) ==
    LET j == x[Len(x)] % n
    IN RfcBlockMix([k \in DOMAIN x |-> BitXor(x[k], V[j][k])])

RfcRoMix(block, n) ==
    LET V[i \in 0 .. n] == IF i = 0 THEN block ELSE RfcBlockMix(V[i - 1])
        x[i \in 0 .. n] == IF i = 0 THEN V[n] ELSE RfcStep(x[i - 1], V, n)
    IN x[n]

\* The second implementation is scrypt: for every p, r and power of two n, and
\* although its scratch memory is used for one chunk after the other.
ScryptIsRfc(chunks, n) ==
    CompatScrypt(chunks, n) = [p \in DOMAIN chunks |-> RfcRoMix(chunks[p], n)]

=============================================================================
