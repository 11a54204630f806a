-------------------------- MODULE MCReleasePublish --------------------------
(***************************************************************************)
(* ReleasePublish with the crates of the workspace and the dependencies    *)
(* their Cargo.toml files declare.                                         *)
(***************************************************************************)
EXTENDS ReleasePublish

MCOrder ==
    <<"aelf-proto", "aelf-crypto", "aelf-client", "aelf-keystore", "aelf-contract", "aelf-sdk">>

MCDependsOn ==
    [p \in {MCOrder[i] : i \in 1 .. 6} |->
        CASE p = "aelf-proto" -> {}
          [] p = "aelf-crypto" -> {"aelf-proto"}
          [] p = "aelf-client" -> {"aelf-proto", "aelf-crypto"}
          [] p = "aelf-keystore" -> {"aelf-crypto"}
          [] p = "aelf-contract" -> {"aelf-proto", "aelf-crypto", "aelf-client"}
          [] p = "aelf-sdk" -> {MCOrder[i] : i \in 1 .. 5}]

Job(selected, dry, skip, token) ==
    [selected |-> selected, dry |-> dry, skip |-> skip, token |-> token]

MCJobs == {
    Job({}, FALSE, TRUE, TRUE),                                  \* a pushed tag
    Job({}, FALSE, FALSE, TRUE),                                 \* by hand, not skipping
    Job({"aelf-contract", "", "aelf-sdk"}, FALSE, TRUE, TRUE),   \* a recovery
    Job({}, TRUE, TRUE, FALSE),                                  \* a rehearsal
    Job({"aelf-sdk"}, TRUE, TRUE, FALSE),                        \* of a recovery
    Job({}, FALSE, TRUE, FALSE),                                 \* no token
    Job({"aelf-contrat"}, FALSE, TRUE, TRUE),                    \* a slip
    Job({""}, FALSE, TRUE, TRUE)}                                \* a lone comma

=============================================================================
