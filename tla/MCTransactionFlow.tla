-------------------------- MODULE MCTransactionFlow -------------------------
(***************************************************************************)
(* TransactionFlow with builders that have everything, the contract by     *)
(* address or by name, and builders that lack a field.                     *)
(***************************************************************************)
EXTENDS TransactionFlow, TLC

Builder(wallet, contract, method) ==
    [wallet |-> wallet, contract |-> contract, method |-> method]

MCBuilders == {
    Builder(TRUE, "address", TRUE),
    Builder(TRUE, "name", TRUE),
    Builder(FALSE, "address", TRUE),
    Builder(TRUE, "none", TRUE),
    Builder(TRUE, "name", FALSE)}

\* Submitting does not depend on how the contract was found: what
\* was built behind a look-up is not followed any further.
LookupsUnsent == \A i \in Intents : fields[i].contract = "name" => sends[i] = 0

LabelSymmetry == Permutations(Labels)

=============================================================================
