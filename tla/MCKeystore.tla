------------------------------ MODULE MCKeystore ----------------------------
(***************************************************************************)
(* Keystore with the options that differ in what they make the code do.    *)
(***************************************************************************)
EXTENDS Keystore, TLC

Kdf(n, r, p, dklen) == [n |-> n, r |-> r, p |-> p, dklen |-> dklen, salt |-> "salt"]

Opt(cipher, kdf, iv) == [cipher |-> cipher, kdf |-> kdf, iv |-> <<"iv", iv>>]

Usual(dklen) == Kdf(13, 3, 0, dklen)

CSharp(dklen) == Kdf(18, 0, 3, dklen)    \* n = 262144, r = 1, p = 8

MCOptions == {
    Opt("aes-128-ctr", Usual(32), 16),       \* the defaults
    Opt("aes-128-ctr", Usual(16), 16),       \* as short as the cipher allows
    Opt("aes-128-ctr", Usual(17), 16),       \* one byte for the MAC
    Opt("aes-256-ctr", Usual(16), 16),       \* shorter
    Opt("aes256", Usual(48), 16),
    Opt("aes-192-cbc", Usual(24), 16),
    Opt("aes-128-cbc", CSharp(32), 16),
    Opt("aes-128-ctr", Usual(8), 16),
    Opt("aes-128-ctr", Kdf(NoPower, 3, 0, 32), 16),
    Opt("aes-128-ctr", Kdf(30, 3, 0, 32), 16),    \* 2^40 bytes
    Opt("aes-128-ctr", Usual(32), 12),       \* a nonce, not a block
    Opt("des", Usual(32), 16)}

MCForeign == {
    Opt("aes-128-ctr", CSharp(32), 16),
    Opt("aes-128-ctr", Usual(80), 16),       \* longer than the crate derives
    Opt("aes-128-cbc", Usual(32), 16),
    Opt("aes-192-ctr", Kdf(30, 0, 0, 32), 16),    \* 2^37 bytes
    Opt("aes-256-cbc", Kdf(18, 3, 0, 64), 16)}

PasswordSymmetry == Permutations(Passwords)

=============================================================================
