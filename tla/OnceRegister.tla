---------------------------- MODULE OnceRegister ----------------------------
(***************************************************************************)
(* What the clones of one typed contract wrapper may rely on: each family  *)
(* of clones has a register that is written once, with a version of the    *)
(* contract's descriptors, and everybody who is answered is answered with  *)
(* what the register then holds.  LazyContract implements this module.     *)
(***************************************************************************)
EXTENDS Integers

CONSTANTS
    Cells,      \* the registers, one for each family of clones
    Versions,   \* the versions there may be, natural numbers
    Readers,    \* the method calls made of the families
    CellOf      \* CellOf[t]: the register reader t asks

VARIABLES
    reg,        \* reg[c]: the version in the register, or Empty
    got         \* got[t]: the version reader t was answered with, or Empty

vars == <<reg, got>>

Empty == -1

Init ==
    /\ reg = [c \in Cells |-> Empty]
    /\ got = [t \in Readers |-> Empty]

\* A reader finds the register empty, fills it and is answered.
Fill(t, v) ==
    /\ got[t] = Empty
    /\ reg[CellOf[t]] = Empty
    /\ reg' = [reg EXCEPT ![CellOf[t]] = v]
    /\ got' = [got EXCEPT ![t] = v]

\* A reader is answered from the register.
Read(t) ==
    /\ got[t] = Empty
    /\ reg[CellOf[t]] # Empty
    /\ got' = [got EXCEPT ![t] = reg[CellOf[t]]]
    /\ UNCHANGED reg

Next ==
    \E t \in Readers :
        \/ \E v \in Versions : Fill(t, v)
        \/ Read(t)

Spec == Init /\ [][Next]_vars

=============================================================================
