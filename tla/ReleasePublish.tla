--------------------------- MODULE ReleasePublish ---------------------------
(***************************************************************************)
(* scripts/publish-crates.sh: the crates of the workspace are published in *)
(* dependency order, each only after the one before it can be seen in the  *)
(* registry's index.  A run of the script may be killed or fail anywhere,  *)
(* and others may run after it or beside it: a pushed tag and the manual   *)
(* workflow (.github/workflows/publish.yml) start runs of their own.       *)
(*                                                                         *)
(* crates.io and cargo are external.  A version, once uploaded, stays; the *)
(* index shows it some time later, and shows it for good.  cargo publish   *)
(* resolves the dependencies of a crate in the index and is refused by the *)
(* registry when the version exists.                                       *)
(***************************************************************************)
EXTENDS Integers, Sequences

CONSTANTS
    Order,         \* ordered_packages
    DependsOn,     \* DependsOn[p]: the workspace crates that p depends on
    Runs,          \* the runs of the script
    Jobs,          \* the environments it is run in: the names between the
                   \* commas of SELECTED_PACKAGES (none if it is blank), and
                   \* whether DRY_RUN, SKIP_PUBLISHED and a token are set
    Blank,         \* what lies between two commas with nothing between them
    MaxAttempts    \* how often the index is polled for an uploaded crate

Positions == 1 .. Len(Order)

Packages == {Order[i] : i \in Positions}

ASSUME OrderAssumption ==
    /\ Order \in Seq(Packages)
    /\ DependsOn \in [Packages -> SUBSET Packages]
    /\ \A i \in Positions : \A d \in DependsOn[Order[i]] :
          \E j \in Positions : j < i /\ Order[j] = d

ASSUME RunsAssumption ==
    /\ \A j \in Jobs : j.dry \in BOOLEAN /\ j.skip \in BOOLEAN /\ j.token \in BOOLEAN
    /\ Blank \notin Packages
    /\ MaxAttempts \in Nat \ {0}

VARIABLES
    uploaded,    \* the crates the registry has
    visible,     \* those its index shows
    job,         \* job[r]: the environment of run r
    pc,          \* pc[r]: where it stands
    at,          \* at[r]: the position in Order of the crate it deals with
    attempt,     \* attempt[r]: its current attempt to see that crate
    why,         \* why[r]: what ended it
    disturbed    \* the runs that began behind an upload the index did not
                 \* show, or had another run beside them (history)

vars == <<uploaded, visible, job, pc, at, attempt, why, disturbed>>

registry == <<uploaded, visible>>

NoJob == [selected |-> {}, dry |-> TRUE, skip |-> TRUE, token |-> FALSE]

Active == {r \in Runs : pc[r] \notin {"new", "ended"}}

\* The runs that are meant to publish.
Real == {r \in Runs : ~ job[r].dry}

Reasons == {"none", "ok", "usage", "query", "exists", "dependency", "cargo", "timeout", "killed"}

TypeOK ==
    /\ uploaded \subseteq Packages
    /\ visible \subseteq uploaded
    /\ job \in [Runs -> Jobs \cup {NoJob}]
    /\ pc \in [Runs -> {"new", "dry", "checking", "publishing", "polling", "ended"}]
    /\ at \in [Runs -> 0 .. Len(Order)]
    /\ attempt \in [Runs -> 0 .. MaxAttempts]
    /\ why \in [Runs -> Reasons]
    /\ disturbed \subseteq Runs

Init ==
    /\ uploaded = {}
    /\ visible = {}
    /\ job = [r \in Runs |-> NoJob]
    /\ pc = [r \in Runs |-> "new"]
    /\ at = [r \in Runs |-> 0]
    /\ attempt = [r \in Runs |-> 0]
    /\ why = [r \in Runs |-> "none"]
    /\ disturbed = {}

-----------------------------------------------------------------------------
Requested(j) == j.selected \ {Blank}

Selected(j, p) == Requested(j) = {} \/ p \in Requested(j)

\* What the script refuses before it does anything.
Misused(j) ==
    \/ ~ Requested(j) \subseteq Packages
    \/ j.selected # {} /\ Requested(j) = {}
    \/ ~ j.dry /\ ~ j.token

End(r, reason) ==
    /\ pc' = [pc EXCEPT ![r] = "ended"]
    /\ why' = [why EXCEPT ![r] = reason]
    /\ UNCHANGED <<at, attempt>>

\* The loop of a run with job j goes on behind position i, or ends.
GoOnWith(r, j, i) ==
    LET ahead == {k \in Positions : k > i /\ Selected(j, Order[k])}
    IN \/ ahead = {} /\ End(r, "ok")
       \/ \E k \in ahead :
             /\ \A other \in ahead : k <= other
             /\ at' = [at EXCEPT ![r] = k]
             /\ pc' = [pc EXCEPT ![r] = IF j.dry THEN "dry" ELSE "checking"]
             /\ UNCHANGED <<attempt, why>>

GoOn(r) == GoOnWith(r, job[r], at[r])

Package(r) == Order[at[r]]

\* The environment is validated; a dry run of everything is one command.
Start(r) ==
    /\ pc[r] = "new"
    /\ \E j \in Jobs :
          /\ job' = [job EXCEPT ![r] = j]
          /\ \/ Misused(j) /\ End(r, "usage")
             \/ /\ ~ Misused(j) /\ j.dry /\ Requested(j) = {}
                /\ End(r, "ok") \/ End(r, "cargo")
             \/ /\ ~ Misused(j) /\ ~ (j.dry /\ Requested(j) = {})
                /\ GoOnWith(r, j, 0)
    /\ disturbed' = disturbed
          \cup (IF Active # {} THEN Active \cup {r} ELSE {})
          \cup (IF uploaded # visible THEN {r} ELSE {})
    /\ UNCHANGED registry

\* cargo publish --dry-run of one crate.
DryPublish(r) ==
    /\ pc[r] = "dry"
    /\ \/ End(r, "cargo")
       \/ DependsOn[Package(r)] \subseteq visible /\ GoOn(r)
       \/ ~ DependsOn[Package(r)] \subseteq visible /\ End(r, "dependency")
    /\ UNCHANGED <<registry, job, disturbed>>

\* Mutant of Check: SKIP_PUBLISHED is not looked at.
CheckNeverSkips(r) ==
    /\ pc[r] = "checking"
    /\ \/ End(r, "query")
       \/ Package(r) \in visible /\ End(r, "exists")
       \/ /\ Package(r) \notin visible
          /\ pc' = [pc EXCEPT ![r] = "publishing"]
          /\ UNCHANGED <<at, attempt, why>>
    /\ UNCHANGED <<registry, job, disturbed>>

\* crate_registry_state before the upload; the query itself may fail.
Check(r) ==
    /\ pc[r] = "checking"
    /\ \/ End(r, "query")
       \/ Package(r) \in visible /\ job[r].skip /\ GoOn(r)
       \/ Package(r) \in visible /\ ~ job[r].skip /\ End(r, "exists")
       \/ /\ Package(r) \notin visible
          /\ pc' = [pc EXCEPT ![r] = "publishing"]
          /\ UNCHANGED <<at, attempt, why>>
    /\ UNCHANGED <<registry, job, disturbed>>

\* The registry takes the upload; cargo may not live to hear of it.
Upload(r) == uploaded' = uploaded \cup {Package(r)}

\* Mutant of CargoPublish: nobody waits for the index.
CargoPublishUnawaited(r) ==
    /\ pc[r] = "publishing"
    /\ \/ /\ ~ DependsOn[Package(r)] \subseteq visible
          /\ End(r, "dependency") /\ UNCHANGED uploaded
       \/ DependsOn[Package(r)] \subseteq visible /\ Upload(r) /\ GoOn(r)
    /\ UNCHANGED <<visible, job, disturbed>>

CargoPublish(r) ==
    /\ pc[r] = "publishing"
    /\ \/ End(r, "cargo") /\ UNCHANGED uploaded
       \/ /\ ~ DependsOn[Package(r)] \subseteq visible
          /\ End(r, "dependency") /\ UNCHANGED uploaded
       \/ /\ DependsOn[Package(r)] \subseteq visible
          /\ Package(r) \in uploaded
          /\ End(r, "exists") /\ UNCHANGED uploaded
       \/ /\ DependsOn[Package(r)] \subseteq visible
          /\ Package(r) \notin uploaded
          /\ Upload(r)
          /\ \/ End(r, "cargo")
             \/ /\ pc' = [pc EXCEPT ![r] = "polling"]
                /\ attempt' = [attempt EXCEPT ![r] = 1]
                /\ UNCHANGED <<at, why>>
    /\ UNCHANGED <<visible, job, disturbed>>

\* Mutant of Poll: the script goes on when it has waited long enough.
PollGoesOn(r) ==
    /\ pc[r] = "polling"
    /\ \/ (Package(r) \in visible \/ attempt[r] = MaxAttempts) /\ GoOn(r)
       \/ /\ Package(r) \notin visible /\ attempt[r] < MaxAttempts
          /\ attempt' = [attempt EXCEPT ![r] = @ + 1]
          /\ UNCHANGED <<pc, at, why>>
    /\ UNCHANGED <<registry, job, disturbed>>

\* Mutant of Poll: attempts are not counted.
PollUncounted(r) ==
    /\ pc[r] = "polling"
    /\ \/ Package(r) \in visible /\ GoOn(r)
       \/ Package(r) \notin visible /\ UNCHANGED <<pc, at, attempt, why>>
    /\ UNCHANGED <<registry, job, disturbed>>

\* Mutant of Poll: one attempt too many.
PollOnceMore(r) ==
    /\ pc[r] = "polling"
    /\ \/ Package(r) \in visible /\ GoOn(r)
       \/ /\ Package(r) \notin visible /\ attempt[r] <= MaxAttempts
          /\ attempt' = [attempt EXCEPT ![r] = @ + 1]
          /\ UNCHANGED <<pc, at, why>>
    /\ UNCHANGED <<registry, job, disturbed>>

\* ensure_crate_visible: one look at the index, then a pause.
Poll(r) ==
    /\ pc[r] = "polling"
    /\ \/ End(r, "query")
       \/ Package(r) \in visible /\ GoOn(r)
       \/ /\ Package(r) \notin visible /\ attempt[r] < MaxAttempts
          /\ attempt' = [attempt EXCEPT ![r] = @ + 1]
          /\ UNCHANGED <<pc, at, why>>
       \/ /\ Package(r) \notin visible /\ attempt[r] = MaxAttempts
          /\ End(r, "timeout")
    /\ UNCHANGED <<registry, job, disturbed>>

\* The job is cancelled, or its machine dies.
Kill(r) ==
    /\ r \in Active
    /\ End(r, "killed")
    /\ UNCHANGED <<registry, job, disturbed>>

\* The index catches up with an upload.
Index ==
    /\ \E p \in uploaded \ visible : visible' = visible \cup {p}
    /\ UNCHANGED <<uploaded, job, pc, at, attempt, why, disturbed>>

-----------------------------------------------------------------------------
Step(r) == DryPublish(r) \/ Check(r) \/ CargoPublish(r) \/ Poll(r)

Next ==
    \/ \E r \in Runs : Start(r) \/ Step(r) \/ Kill(r)
    \/ Index

Spec == Init /\ [][Next]_vars /\ \A r \in Runs : WF_vars(Step(r))

-----------------------------------------------------------------------------
(* Properties.                                                             *)

\* A run that says it has published has: whatever was selected can be seen
\* in the index, by whichever run it got there (publish-crates.sh 125-158).
DoneMeansVisible ==
    \A r \in Real : why[r] = "ok" =>
        \A p \in Packages : Selected(job[r], p) => p \in visible

\* cargo never misses a dependency that the run was asked to publish: it can
\* only fail for one that was left out of SELECTED_PACKAGES (5-12, 156-157).
MissesOnlyDeselected ==
    \A r \in Real : why[r] = "dependency" =>
        \E d \in DependsOn[Package(r)] : ~ Selected(job[r], d)

\* A full run with SKIP_PUBLISHED resumes whatever earlier runs left behind:
\* neither what they uploaded nor what they did not stops it, unless it has
\* another run beside it or began before the index had caught up (138-157).
CleanResume ==
    \A r \in Real :
        /\ job[r].skip /\ Requested(job[r]) = {}
        /\ why[r] \in {"exists", "dependency"}
        => r \in disturbed

\* Every run ends, even if the index never shows what it has uploaded
\* (ensure_crate_visible, 86-112).
EveryRunEnds == \A r \in Runs : r \in Active ~> pc[r] = "ended"

=============================================================================
