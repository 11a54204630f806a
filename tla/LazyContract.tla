---------------------------- MODULE LazyContract ----------------------------
(***************************************************************************)
(* The typed contract wrappers of crates/aelf-contract/src/lib.rs.  Every  *)
(* clone of a wrapper shares one LazyDynamicContract, whose OnceCell is    *)
(* filled by whichever method call comes first; a DynamicContract made     *)
(* with `at` has no cell and always fetches.  The contract may be upgraded *)
(* on chain at any time, which changes the descriptors the node serves.    *)
(*                                                                         *)
(* A task is one method call on a wrapper, from its first poll until it    *)
(* has looked the method up in the descriptors or has failed.  OnceCell    *)
(* and its semaphore are tokio's: one permit, handed by its holder         *)
(* directly to a waiting task when the holder fails or is dropped, and     *)
(* closed for good when the cell is set.  Whom of the waiting tasks the    *)
(* semaphore chooses is left open.                                         *)
(***************************************************************************)
EXTENDS Integers

CONSTANTS
    Tasks,        \* the method calls
    Direct,       \* those made on a DynamicContract fetched for the purpose
    Cells,        \* the wrappers made with `new`, each with all its clones
    CellOf,       \* CellOf[t]: the wrapper task t calls
    MethodOf,     \* MethodOf[t]: the method task t calls
    Offers,       \* Offers[v]: the methods of version v of the contract
    MaxVersion    \* the last version the contract is upgraded to (a bound)

ASSUME TasksAssumption ==
    /\ Direct \subseteq Tasks
    /\ CellOf \in [Tasks \ Direct -> Cells]
    /\ MaxVersion \in Nat

VARIABLES
    chain,     \* the version of the contract on chain
    permit,    \* permit[c]: the state of the semaphore of the cell
    value,     \* value[c]: the version of the descriptors in the cell
    pc,        \* pc[t]: where the task stands
    reply,     \* reply[t]: the version the node has served to the task's fetch
    pool,      \* pool[t]: the version of the DynamicContract the task got
    asked      \* asked[t]: the version on chain when the task began (history)

vars == <<chain, permit, value, pc, reply, pool, asked>>

None == -1

Versions == 0 .. MaxVersion

Clones == Tasks \ Direct

Holding == {"granted", "fetching"}

Ended == {"found", "notFound", "failed", "gone"}

TypeOK ==
    /\ chain \in Versions
    /\ permit \in [Cells -> {"free", "taken", "closed"}]
    /\ value \in [Cells -> Versions \cup {None}]
    /\ pc \in [Tasks -> {"idle", "waiting"} \cup Holding \cup Ended]
    /\ reply \in [Tasks -> Versions \cup {None}]
    /\ pool \in [Tasks -> Versions \cup {None}]
    /\ asked \in [Tasks -> Versions \cup {None}]

Init ==
    /\ chain = 0
    /\ permit = [c \in Cells |-> "free"]
    /\ value = [c \in Cells |-> None]
    /\ pc = [t \in Tasks |-> "idle"]
    /\ reply = [t \in Tasks |-> None]
    /\ pool = [t \in Tasks |-> None]
    /\ asked = [t \in Tasks |-> None]

Waiting(c) == {t \in Clones : CellOf[t] = c /\ pc[t] = "waiting"}

-----------------------------------------------------------------------------
\* Where a call stands once it has looked its method up in version v.
Looked(t, v) == IF MethodOf[t] \in Offers[v] THEN "found" ELSE "notFound"

\* The task clones the contract it was given and looks its method up.
Deliver(t, v) ==
    /\ pc' = [pc EXCEPT ![t] = Looked(t, v)]
    /\ pool' = [pool EXCEPT ![t] = v]

\* Mutant of Release: the permit goes back while others wait for it.
ReleaseUnnoticed(t, end) ==
    /\ permit' = [permit EXCEPT ![CellOf[t]] = "free"]
    /\ pc' = [pc EXCEPT ![t] = end]

\* The task, which holds the permit, ends without setting the cell.
Release(t, end) ==
    LET c == CellOf[t]
    IN \/ /\ Waiting(c) = {}
          /\ permit' = [permit EXCEPT ![c] = "free"]
          /\ pc' = [pc EXCEPT ![t] = end]
       \/ \E u \in Waiting(c) :
             /\ pc' = [pc EXCEPT ![t] = end, ![u] = "granted"]
             /\ UNCHANGED permit

-----------------------------------------------------------------------------
(* The actions of a task.                                                  *)

\* Mutant of Get: the cell is looked at, but nobody waits for anybody.
GetUnguarded(t) ==
    /\ pc[t] = "idle"
    /\ asked' = [asked EXCEPT ![t] = chain]
    /\ \/ /\ t \in Clones => value[CellOf[t]] = None
          /\ pc' = [pc EXCEPT ![t] = "fetching"]
          /\ UNCHANGED pool
       \/ t \in Clones /\ value[CellOf[t]] # None /\ Deliver(t, value[CellOf[t]])
    /\ UNCHANGED <<chain, permit, value, reply>>

\* get_or_try_init is polled for the first time: the cell is set, or its
\* permit is free, or the task must wait.  `at` fetches at once.
Get(t) ==
    /\ pc[t] = "idle"
    /\ asked' = [asked EXCEPT ![t] = chain]
    /\ \/ /\ t \in Direct
          /\ pc' = [pc EXCEPT ![t] = "fetching"]
          /\ UNCHANGED <<permit, pool>>
       \/ /\ t \in Clones
          /\ value[CellOf[t]] # None
          /\ Deliver(t, value[CellOf[t]])
          /\ UNCHANGED permit
       \/ /\ t \in Clones
          /\ permit[CellOf[t]] = "free"
          /\ permit' = [permit EXCEPT ![CellOf[t]] = "taken"]
          /\ pc' = [pc EXCEPT ![t] = "fetching"]
          /\ UNCHANGED pool
       \/ /\ t \in Clones
          /\ permit[CellOf[t]] = "taken"
          /\ pc' = [pc EXCEPT ![t] = "waiting"]
          /\ UNCHANGED <<permit, pool>>
    /\ UNCHANGED <<chain, value, reply>>

\* A waiting task that was handed the permit is polled and starts its fetch.
StartFetch(t) ==
    /\ pc[t] = "granted"
    /\ pc' = [pc EXCEPT ![t] = "fetching"]
    /\ UNCHANGED <<chain, permit, value, reply, pool, asked>>

\* Mutant of FetchOk: the cell is set, and its semaphore stays open.
FetchOkLeftOpen(t) ==
    /\ pc[t] = "fetching"
    /\ reply[t] # None
    /\ IF t \in Direct
       THEN Deliver(t, reply[t]) /\ UNCHANGED <<permit, value>>
       ELSE /\ value' = [value EXCEPT ![CellOf[t]] = reply[t]]
            /\ Release(t, Looked(t, reply[t]))
            /\ pool' = [pool EXCEPT ![t] = reply[t]]
    /\ UNCHANGED <<chain, reply, asked>>

\* Mutant of FetchOk: a reply is taken from whoever had one first.
FetchOkShared(t) ==
    /\ pc[t] = "fetching"
    /\ \E u \in Tasks :
          /\ reply[u] # None
          /\ Deliver(t, reply[u])
          /\ IF t \in Direct
             THEN UNCHANGED <<permit, value>>
             ELSE /\ value' = [value EXCEPT ![CellOf[t]] = reply[u]]
                  /\ permit' = [permit EXCEPT ![CellOf[t]] = "closed"]
    /\ UNCHANGED <<chain, reply, asked>>

\* The descriptors arrive and decode; a clone sets its cell, which closes the
\* semaphore and so wakes everybody who waits.
FetchOk(t) ==
    /\ pc[t] = "fetching"
    /\ reply[t] # None
    /\ Deliver(t, reply[t])
    /\ IF t \in Direct
       THEN UNCHANGED <<permit, value>>
       ELSE /\ value' = [value EXCEPT ![CellOf[t]] = reply[t]]
            /\ permit' = [permit EXCEPT ![CellOf[t]] = "closed"]
    /\ UNCHANGED <<chain, reply, asked>>

\* Mutant of FetchErr: a failed initialiser poisons the cell, as it does with
\* the standard library's Once.
FetchErrPoisons(t) ==
    /\ pc[t] = "fetching"
    /\ pc' = [pc EXCEPT ![t] = "failed"]
    /\ IF t \in Direct
       THEN UNCHANGED permit
       ELSE permit' = [permit EXCEPT ![CellOf[t]] = "poisoned"]
    /\ UNCHANGED <<chain, value, reply, pool, asked>>

\* The fetch fails, or what it brings does not decode; the cell stays empty.
FetchErr(t) ==
    /\ pc[t] = "fetching"
    /\ IF t \in Direct
       THEN pc' = [pc EXCEPT ![t] = "failed"] /\ UNCHANGED permit
       ELSE Release(t, "failed")
    /\ UNCHANGED <<chain, value, reply, pool, asked>>

\* A task that waited when the cell was set reads it.
Resume(t) ==
    /\ pc[t] = "waiting"
    /\ permit[CellOf[t]] = "closed"
    /\ Deliver(t, value[CellOf[t]])
    /\ UNCHANGED <<chain, permit, value, reply, asked>>

\* The caller drops the call's future.
Drop(t) ==
    /\ pc[t] \in {"waiting"} \cup Holding
    /\ IF t \in Clones /\ pc[t] \in Holding
       THEN Release(t, "gone")
       ELSE pc' = [pc EXCEPT ![t] = "gone"] /\ UNCHANGED permit
    /\ UNCHANGED <<chain, value, reply, pool, asked>>

-----------------------------------------------------------------------------
(* The node.                                                               *)

\* It serves the descriptors of the contract as it is at that moment.
NodeServes(t) ==
    /\ pc[t] = "fetching"
    /\ reply[t] = None
    /\ reply' = [reply EXCEPT ![t] = chain]
    /\ UNCHANGED <<chain, permit, value, pc, pool, asked>>

Upgrade ==
    /\ chain < MaxVersion
    /\ chain' = chain + 1
    /\ UNCHANGED <<permit, value, pc, reply, pool, asked>>

-----------------------------------------------------------------------------
\* What a task does when it is polled; a fetch ends, for HttpProvider does.
Progress(t) ==
    StartFetch(t) \/ FetchOk(t) \/ FetchErr(t) \/ Resume(t)

Next ==
    \/ \E t \in Tasks : Get(t) \/ Progress(t) \/ Drop(t) \/ NodeServes(t)
    \/ Upgrade

Spec == Init /\ [][Next]_vars /\ \A t \in Tasks : WF_vars(Progress(t))

-----------------------------------------------------------------------------
(* Safety.                                                                 *)

\* The clones of a wrapper have at most one descriptor fetch between them at
\* a time, and none once the cell is set, however many call at once and
\* however often a fetch fails or is dropped (lib.rs 361-374).
SingleFetch ==
    \A c \in Cells : \A t, u \in Clones :
        /\ CellOf[t] = c /\ CellOf[u] = c
        /\ pc[t] \in Holding /\ pc[u] \in Holding
        => t = u /\ value[c] = None

\* Clones of one wrapper never work with different descriptors, even when the
\* contract is upgraded between their calls (lib.rs 343-375).
ClonesAgree ==
    \A t, u \in Clones :
        CellOf[t] = CellOf[u] /\ pool[t] # None /\ pool[u] # None => pool[t] = pool[u]

\* Nobody waits for a permit that is free: while a task waits at an empty cell
\* another holds its permit.  A failed or dropped initialiser hands it on.
NoLostWakeup ==
    \A c \in Cells : Waiting(c) # {} /\ value[c] = None =>
        \E t \in Clones : CellOf[t] = c /\ pc[t] \in Holding

\* Whoever fetched works with descriptors that were current at or after the
\* moment the call was made; only a call answered from the cell may be behind
\* (lib.rs 54-72).
FetcherFresh ==
    \A t \in Tasks :
        reply[t] # None /\ pool[t] # None => asked[t] <= pool[t] /\ pool[t] <= chain

-----------------------------------------------------------------------------
(* Liveness.                                                               *)

\* Every call that was begun ends: it is not starved by failing or dropped
\* initialisers before it in the queue.
EveryCallAnswered ==
    \A t \in Tasks : pc[t] \in {"waiting"} \cup Holding ~> pc[t] \in Ended

-----------------------------------------------------------------------------
\* To the clones the cell is a register that is written once.
Register == INSTANCE OnceRegister WITH
    Readers <- Clones,
    reg <- value,
    got <- [t \in Clones |-> pool[t]]

ImplementsOnceRegister == Register!Init /\ [][Register!Next]_(Register!vars)

=============================================================================
