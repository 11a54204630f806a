------------------------- MODULE LazyContractProofs -------------------------
(***************************************************************************)
(* What holds of the typed wrappers for every set of calls and wrappers    *)
(* and every number of upgrades.                                           *)
(***************************************************************************)
EXTENDS LazyContract, TLAPS

Holds(t, c) == CellOf[t] = c /\ pc[t] \in Holding

\* The permit is taken exactly while one task, and no more, holds it.
PermitHeld ==
    \A c \in Cells :
        /\ permit[c] = "taken" => \E t \in Clones : Holds(t, c)
        /\ \A t \in Clones : Holds(t, c) => permit[c] = "taken"
        /\ \A t, u \in Clones : Holds(t, c) /\ Holds(u, c) => t = u

\* The semaphore is closed when, and only when, the cell is set.
ClosedWhenSet == \A c \in Cells : permit[c] = "closed" <=> value[c] # None

\* Nobody waits for a free permit.
FreeUnwanted ==
    \A t \in Clones : pc[t] = "waiting" => permit[CellOf[t]] # "free"

\* Only clones wait.
OnlyClonesWait == \A t \in Direct : pc[t] \notin {"waiting", "granted"}

\* What a clone was given is what its cell holds; nobody is given anything
\* before the end.
PoolFromCell ==
    /\ \A t \in Clones : pool[t] # None => pool[t] = value[CellOf[t]]
    /\ \A t \in Tasks : pc[t] \notin Ended => pool[t] = None

\* A reply is no older than the call, and what its task works with.
ReplyFresh ==
    \A t \in Tasks :
        /\ pc[t] = "idle" => reply[t] = None
        /\ pc[t] \in {"waiting", "granted"} => reply[t] = None
        /\ pc[t] # "idle" => asked[t] \in 0 .. chain
        /\ reply[t] # None => reply[t] \in asked[t] .. chain
        /\ reply[t] # None /\ pool[t] # None => pool[t] = reply[t]

IInv ==
    /\ TypeOK
    /\ PermitHeld
    /\ ClosedWhenSet
    /\ FreeUnwanted
    /\ OnlyClonesWait
    /\ PoolFromCell
    /\ ReplyFresh

-----------------------------------------------------------------------------
LEMMA CellType == \A t \in Clones : t \in Tasks /\ t \notin Direct /\ CellOf[t] \in Cells
  BY TasksAssumption DEF Clones

LEMMA InitIInv == Init => IInv
<1> SUFFICES ASSUME Init PROVE IInv
  OBVIOUS
<1>1. TypeOK
  BY TasksAssumption DEF Init, TypeOK, Versions
<1>2. PermitHeld /\ ClosedWhenSet /\ FreeUnwanted /\ OnlyClonesWait /\ PoolFromCell
      /\ ReplyFresh
  BY TasksAssumption, CellType
     DEF Init, OnlyClonesWait, PermitHeld, ClosedWhenSet, FreeUnwanted, PoolFromCell, ReplyFresh, Holds, Holding
<1>3. QED
  BY <1>1, <1>2 DEF IInv

\* Where a task stands after a look-up is an end.
LEMMA LookedEnds == \A t, v : Looked(t, v) \in Ended
  BY DEF Looked, Ended

LEMMA TypeStep == IInv /\ [Next]_vars => TypeOK'
<1> SUFFICES ASSUME IInv, TypeOK, [Next]_vars PROVE TypeOK'
  BY DEF IInv
<1> USE CellType, TasksAssumption
<1>1. ASSUME NEW t \in Tasks, NEW v \in Versions, Deliver(t, v)
      PROVE  /\ pc' \in [Tasks -> {"idle", "waiting"} \cup Holding \cup Ended]
             /\ pool' \in [Tasks -> Versions \cup {None}]
  BY <1>1, LookedEnds DEF Deliver, TypeOK
<1>2. ASSUME NEW t \in Clones, NEW end \in Ended, Release(t, end)
      PROVE  /\ pc' \in [Tasks -> {"idle", "waiting"} \cup Holding \cup Ended]
             /\ permit' \in [Cells -> {"free", "taken", "closed"}]
  BY <1>2 DEF Release, Waiting, TypeOK, Holding
<1>3. ASSUME NEW t \in Tasks, Get(t) PROVE TypeOK'
  <2>1. asked' \in [Tasks -> Versions \cup {None}]
    BY <1>3 DEF Get, TypeOK
  <2>2. CASE t \in Clones /\ value[CellOf[t]] # None /\ Deliver(t, value[CellOf[t]]) /\ UNCHANGED permit
    <3>1. value[CellOf[t]] \in Versions
      BY <2>2 DEF TypeOK
    <3>2. QED
      BY <1>1, <1>3, <2>1, <2>2, <3>1 DEF Get, TypeOK
  <2>3. QED
    BY <1>3, <2>1, <2>2 DEF Get, TypeOK, Holding
<1>4. ASSUME NEW t \in Tasks, StartFetch(t) \/ NodeServes(t) PROVE TypeOK'
  BY <1>4 DEF StartFetch, NodeServes, TypeOK, Holding, Versions
<1>5. ASSUME NEW t \in Tasks, FetchOk(t) PROVE TypeOK'
  <2>1. reply[t] \in Versions
    BY <1>5 DEF FetchOk, TypeOK
  <2>2. /\ pc' \in [Tasks -> {"idle", "waiting"} \cup Holding \cup Ended]
        /\ pool' \in [Tasks -> Versions \cup {None}]
    BY <1>1, <1>5, <2>1 DEF FetchOk
  <2>3. QED
    BY <1>5, <2>1, <2>2 DEF FetchOk, TypeOK, Clones
<1>6. ASSUME NEW t \in Tasks, FetchErr(t) PROVE TypeOK'
  <2>1. CASE t \in Direct
    BY <1>6, <2>1 DEF FetchErr, TypeOK, Ended
  <2>2. CASE t \notin Direct
    <3>1. t \in Clones /\ Release(t, "failed") /\ "failed" \in Ended
      BY <1>6, <2>2 DEF FetchErr, Clones, Ended
    <3>2. QED
      BY <1>2, <1>6, <3>1 DEF FetchErr, TypeOK
  <2>3. QED
    BY <2>1, <2>2
<1>7. ASSUME NEW t \in Tasks, Drop(t) PROVE TypeOK'
  <2>1. CASE t \in Clones /\ pc[t] \in Holding
    <3>1. Release(t, "gone") /\ "gone" \in Ended
      BY <1>7, <2>1 DEF Drop, Ended
    <3>2. QED
      BY <1>2, <1>7, <2>1, <3>1 DEF Drop, TypeOK
  <2>2. CASE ~(t \in Clones /\ pc[t] \in Holding)
    BY <1>7, <2>2 DEF Drop, TypeOK, Ended
  <2>3. QED
    BY <2>1, <2>2
<1>8. ASSUME NEW t \in Tasks, Resume(t) PROVE TypeOK'
  <2>1. t \in Clones
    BY <1>8 DEF Resume, IInv, OnlyClonesWait, Clones
  <2>2. value[CellOf[t]] \in Versions
    BY <1>8, <2>1 DEF Resume, IInv, ClosedWhenSet, TypeOK
  <2>3. QED
    BY <1>1, <1>8, <2>2 DEF Resume, TypeOK
<1>9. CASE Upgrade
  BY <1>9 DEF Upgrade, TypeOK, Versions
<1>10. CASE UNCHANGED vars
  BY <1>10 DEF vars, TypeOK
<1>11. QED
  BY <1>3, <1>4, <1>5, <1>6, <1>7, <1>8, <1>9, <1>10 DEF Next, Progress

-----------------------------------------------------------------------------
(* The permit: what a step of a task does to it, in five shapes.           *)

\* The task takes the free permit of its cell.
Takes(t) ==
    /\ t \in Clones
    /\ permit[CellOf[t]] = "free"
    /\ permit' = [permit EXCEPT ![CellOf[t]] = "taken"]
    /\ \E p \in Holding : pc' = [pc EXCEPT ![t] = p]
    /\ UNCHANGED value

\* The task sets its cell.
Sets(t) ==
    /\ t \in Clones
    /\ pc[t] \in Holding
    /\ permit' = [permit EXCEPT ![CellOf[t]] = "closed"]
    /\ \E v \in Versions : value' = [value EXCEPT ![CellOf[t]] = v]
    /\ \E p \in Ended : pc' = [pc EXCEPT ![t] = p]

\* The task frees the permit, which nobody waits for.
Frees(t) ==
    /\ t \in Clones
    /\ pc[t] \in Holding
    /\ Waiting(CellOf[t]) = {}
    /\ permit' = [permit EXCEPT ![CellOf[t]] = "free"]
    /\ \E p \in Ended : pc' = [pc EXCEPT ![t] = p]
    /\ UNCHANGED value

\* The task hands the permit to a task that waits.
HandsOn(t) ==
    /\ t \in Clones
    /\ pc[t] \in Holding
    /\ \E u \in Waiting(CellOf[t]), p \in Ended :
          pc' = [pc EXCEPT ![t] = p, ![u] = "granted"]
    /\ UNCHANGED <<permit, value>>

\* The task goes on and leaves every permit where it is.
Moves(t) ==
    /\ \E p \in {"waiting"} \cup Holding \cup Ended :
          /\ pc' = [pc EXCEPT ![t] = p]
          /\ t \in Clones => (p \in Holding <=> pc[t] \in Holding)
          /\ p = "waiting" => t \in Clones /\ permit[CellOf[t]] = "taken"
          /\ p = "granted" => t \in Clones
    /\ UNCHANGED <<permit, value>>

Stays == UNCHANGED <<pc, permit, value>>

LEMMA StepShape ==
    ASSUME IInv, [Next]_vars
    PROVE  \/ \E t \in Tasks : Takes(t) \/ Sets(t) \/ Frees(t) \/ HandsOn(t) \/ Moves(t)
           \/ Stays
<1> USE CellType
<1>1. ASSUME NEW t \in Clones, NEW end \in Ended, Release(t, end), pc[t] \in Holding, UNCHANGED value
      PROVE  Frees(t) \/ HandsOn(t)
  BY <1>1 DEF Release, Frees, HandsOn
<1>2. ASSUME NEW t \in Tasks, Get(t)
      PROVE  Takes(t) \/ Moves(t)
  BY <1>2, LookedEnds DEF Get, Deliver, Takes, Moves, Holding, Ended, Clones
<1>3. ASSUME NEW t \in Tasks, StartFetch(t)
      PROVE  Moves(t)
  <2>1. pc' = [pc EXCEPT ![t] = "fetching"] /\ pc[t] \in Holding
    BY <1>3 DEF StartFetch, Holding
  <2>2. "fetching" \in Holding
    BY DEF Holding
  <2>3. QED
    BY <1>3, <2>1, <2>2 DEF StartFetch, Moves
<1>4. ASSUME NEW t \in Tasks, FetchOk(t)
      PROVE  Sets(t) \/ Moves(t)
  <2>1. reply[t] \in Versions /\ pc[t] \in Holding
    BY <1>4 DEF FetchOk, IInv, TypeOK, Holding
  <2>2. QED
    BY <1>4, <2>1, LookedEnds DEF FetchOk, Deliver, Sets, Moves, Ended, Clones
<1>5. ASSUME NEW t \in Tasks, FetchErr(t)
      PROVE  Frees(t) \/ HandsOn(t) \/ Moves(t)
  <2>1. CASE t \in Direct
    BY <1>5, <2>1 DEF FetchErr, Moves, Ended, Clones
  <2>2. CASE t \notin Direct
    BY <1>1, <1>5, <2>2 DEF FetchErr, Ended, Clones, Holding
  <2>3. QED
    BY <2>1, <2>2
<1>6. ASSUME NEW t \in Tasks, Resume(t)
      PROVE  Moves(t)
  BY <1>6, LookedEnds DEF Resume, Deliver, Moves, Holding, Ended
<1>7. ASSUME NEW t \in Tasks, Drop(t)
      PROVE  Frees(t) \/ HandsOn(t) \/ Moves(t)
  <2>1. CASE t \in Clones /\ pc[t] \in Holding
    BY <1>1, <1>7, <2>1 DEF Drop, Ended
  <2>2. CASE ~(t \in Clones /\ pc[t] \in Holding)
    BY <1>7, <2>2 DEF Drop, Moves, Ended, Holding
  <2>3. QED
    BY <2>1, <2>2
<1>8. CASE Upgrade \/ UNCHANGED vars \/ \E t \in Tasks : NodeServes(t)
  BY <1>8 DEF Upgrade, vars, NodeServes, Stays
<1>9. QED
  BY <1>2, <1>3, <1>4, <1>5, <1>6, <1>7, <1>8 DEF Next, Progress

LEMMA PermitStep ==
    ASSUME IInv, [Next]_vars
    PROVE  PermitHeld' /\ ClosedWhenSet' /\ FreeUnwanted' /\ OnlyClonesWait'
<1> USE CellType
<1>1. /\ TypeOK
      /\ PermitHeld /\ ClosedWhenSet /\ FreeUnwanted /\ OnlyClonesWait
  BY DEF IInv
<1>2. ASSUME NEW t \in Tasks, Takes(t)
      PROVE  PermitHeld' /\ ClosedWhenSet' /\ FreeUnwanted' /\ OnlyClonesWait'
  BY <1>1, <1>2
     DEF Takes, TypeOK, PermitHeld, ClosedWhenSet, FreeUnwanted, OnlyClonesWait, Holds, Holding
<1>3. ASSUME NEW t \in Tasks, Sets(t)
      PROVE  PermitHeld' /\ ClosedWhenSet' /\ FreeUnwanted' /\ OnlyClonesWait'
  BY <1>1, <1>3
     DEF Sets, TypeOK, PermitHeld, ClosedWhenSet, FreeUnwanted, OnlyClonesWait, Holds, Holding,
         Ended, Versions, None
<1>4. ASSUME NEW t \in Tasks, Frees(t)
      PROVE  PermitHeld' /\ ClosedWhenSet' /\ FreeUnwanted' /\ OnlyClonesWait'
  BY <1>1, <1>4
     DEF Frees, TypeOK, PermitHeld, ClosedWhenSet, FreeUnwanted, OnlyClonesWait, Holds, Holding,
         Ended, Waiting
<1>5. ASSUME NEW t \in Tasks, HandsOn(t)
      PROVE  PermitHeld' /\ ClosedWhenSet' /\ FreeUnwanted' /\ OnlyClonesWait'
  <2>1. /\ t \in Clones
        /\ pc[t] \in Holding
        /\ UNCHANGED <<permit, value>>
    BY <1>5 DEF HandsOn
  <2>2. PICK u \in Clones, p \in Ended :
          /\ CellOf[u] = CellOf[t]
          /\ pc[u] = "waiting"
          /\ pc' = [pc EXCEPT ![t] = p, ![u] = "granted"]
    BY <1>5 DEF HandsOn, Waiting
  <2>3. /\ \A r \in Tasks : pc'[r] = IF r = u THEN "granted" ELSE IF r = t THEN p ELSE pc[r]
        /\ p \notin Holding /\ p # "waiting"
    BY <1>1, <2>1, <2>2 DEF TypeOK, Ended, Holding
  <2>4. \A r \in Clones : pc'[r] \in Holding <=> r = u \/ (r # t /\ pc[r] \in Holding)
    <3>1. t # u /\ "granted" \in Holding /\ "waiting" \notin Holding
      BY <2>1, <2>2 DEF Holding
    <3>2. QED
      BY <2>2, <2>3, <3>1
  <2>5. ASSUME NEW c \in Cells
        PROVE  /\ permit'[c] = "taken" => \E r \in Clones : CellOf[r] = c /\ pc'[r] \in Holding
               /\ \A r \in Clones : CellOf[r] = c /\ pc'[r] \in Holding => permit'[c] = "taken"
               /\ \A r, q \in Clones :
                     /\ CellOf[r] = c /\ pc'[r] \in Holding
                     /\ CellOf[q] = c /\ pc'[q] \in Holding
                     => r = q
    <3>1. CASE c = CellOf[t]
      <4>1. \A r \in Clones : CellOf[r] = c /\ pc[r] \in Holding => r = t
        BY <1>1, <2>1, <3>1 DEF PermitHeld, Holds
      <4>2. permit[c] = "taken"
        BY <1>1, <2>1, <3>1 DEF PermitHeld, Holds
      <4>3. QED
        BY <2>1, <2>2, <2>4, <3>1, <4>1, <4>2
    <3>2. CASE c # CellOf[t]
      BY <1>1, <2>1, <2>2, <2>4, <3>2 DEF PermitHeld, Holds
    <3>3. QED
      BY <3>1, <3>2
  <2>6. PermitHeld'
    BY <2>5 DEF PermitHeld, Holds
  <2>7. FreeUnwanted' /\ OnlyClonesWait'
    <3>1. \A r \in Tasks : pc'[r] = "waiting" => pc[r] = "waiting"
      BY <2>3
    <3>2. \A r \in Direct : r \in Tasks /\ r # u
      BY TasksAssumption DEF Clones
    <3>3. FreeUnwanted'
      BY <1>1, <2>1, <3>1 DEF FreeUnwanted
    <3>4. \A r \in Direct : pc'[r] \notin {"waiting", "granted"}
      BY <1>1, <2>3, <3>2 DEF OnlyClonesWait, Ended
    <3>5. QED
      BY <3>3, <3>4 DEF OnlyClonesWait
  <2>8. QED
    BY <1>1, <2>1, <2>6, <2>7 DEF ClosedWhenSet
<1>6. ASSUME NEW t \in Tasks, Moves(t)
      PROVE  PermitHeld' /\ ClosedWhenSet' /\ FreeUnwanted' /\ OnlyClonesWait'
  BY <1>1, <1>6
     DEF Moves, TypeOK, PermitHeld, ClosedWhenSet, FreeUnwanted, OnlyClonesWait, Holds, Holding,
         Ended, Clones
<1>7. CASE Stays
  BY <1>1, <1>7
     DEF Stays, PermitHeld, ClosedWhenSet, FreeUnwanted, OnlyClonesWait, Holds
<1>8. QED
  BY <1>2, <1>3, <1>4, <1>5, <1>6, <1>7, StepShape

-----------------------------------------------------------------------------
(* What the tasks are given.                                               *)

LEMMA PoolStep == IInv /\ [Next]_vars => PoolFromCell'
<1> SUFFICES ASSUME IInv, [Next]_vars PROVE PoolFromCell'
  OBVIOUS
<1> USE CellType
<1>1. /\ TypeOK
      /\ PermitHeld /\ ClosedWhenSet /\ OnlyClonesWait /\ PoolFromCell
  BY DEF IInv
<1>2. ASSUME NEW t \in Tasks, NEW v \in Versions, Deliver(t, v), UNCHANGED value,
             t \in Clones => v = value[CellOf[t]]
      PROVE  PoolFromCell'
  BY <1>1, <1>2, LookedEnds DEF TypeOK, Deliver, PoolFromCell
<1>3. ASSUME NEW t \in Tasks, Get(t) PROVE PoolFromCell'
  <2>1. CASE t \in Clones /\ value[CellOf[t]] # None /\ Deliver(t, value[CellOf[t]])
    <3>1. value[CellOf[t]] \in Versions
      BY <1>1, <2>1 DEF TypeOK
    <3>2. QED
      BY <1>2, <1>3, <2>1, <3>1 DEF Get
  <2>2. CASE \E p \in {"waiting", "fetching"} : pc' = [pc EXCEPT ![t] = p] /\ UNCHANGED pool
    BY <1>1, <1>3, <2>2 DEF Get, TypeOK, PoolFromCell, Ended
  <2>3. QED
    BY <1>3, <2>1, <2>2 DEF Get
<1>4. ASSUME NEW t \in Tasks, FetchOk(t) PROVE PoolFromCell'
  <2>1. reply[t] \in Versions /\ Deliver(t, reply[t])
    BY <1>1, <1>4 DEF FetchOk, TypeOK
  <2>2. CASE t \in Direct
    BY <1>2, <1>4, <2>1, <2>2 DEF FetchOk, Clones
  <2>3. CASE t \notin Direct
    <3>1. t \in Clones /\ value' = [value EXCEPT ![CellOf[t]] = reply[t]]
      BY <1>4, <2>3 DEF FetchOk, Clones
    <3>2. permit[CellOf[t]] = "taken"
      BY <1>1, <1>4, <3>1 DEF FetchOk, PermitHeld, Holds, Holding
    <3>3. \A u \in Clones : CellOf[u] = CellOf[t] => pool[u] = None
      BY <1>1, <3>1, <3>2 DEF ClosedWhenSet, PoolFromCell
    <3>4. \A u \in Clones : pool'[u] # None => pool'[u] = value'[CellOf[u]]
      BY <1>1, <2>1, <3>1, <3>3 DEF Deliver, TypeOK, PoolFromCell
    <3>5. \A u \in Tasks : pc'[u] \notin Ended => pool'[u] = None
      BY <1>1, <2>1, LookedEnds DEF Deliver, TypeOK, PoolFromCell
    <3>6. QED
      BY <3>4, <3>5 DEF PoolFromCell
  <2>4. QED
    BY <2>2, <2>3
<1>5. ASSUME NEW t \in Tasks, Resume(t) PROVE PoolFromCell'
  <2>1. t \in Clones
    BY <1>1, <1>5 DEF Resume, OnlyClonesWait, Clones
  <2>2. value[CellOf[t]] \in Versions
    BY <1>1, <1>5, <2>1 DEF Resume, ClosedWhenSet, TypeOK
  <2>3. QED
    BY <1>2, <1>5, <2>2 DEF Resume
<1>6. ASSUME UNCHANGED <<value, pool>>,
             \A t \in Tasks : pc'[t] \notin Ended => pc[t] \notin Ended
      PROVE  PoolFromCell'
  BY <1>1, <1>6 DEF PoolFromCell
<1>7. ASSUME NEW t \in Tasks, NEW end \in Ended, t \in Clones, Release(t, end)
      PROVE  \A u \in Tasks : pc'[u] \notin Ended => pc[u] \notin Ended
  BY <1>1, <1>7 DEF Release, TypeOK, Waiting, Ended
<1>8. ASSUME NEW t \in Tasks, FetchErr(t) \/ Drop(t) PROVE PoolFromCell'
  <2>1. CASE \E end \in Ended : t \in Clones /\ Release(t, end)
    BY <1>6, <1>7, <1>8, <2>1 DEF FetchErr, Drop
  <2>2. CASE \E end \in Ended : pc' = [pc EXCEPT ![t] = end]
    BY <1>1, <1>6, <1>8, <2>2 DEF FetchErr, Drop, TypeOK
  <2>3. QED
    BY <1>8, <2>1, <2>2 DEF FetchErr, Drop, Ended, Clones
<1>9. ASSUME NEW t \in Tasks, StartFetch(t) \/ NodeServes(t) PROVE PoolFromCell'
  BY <1>1, <1>6, <1>9 DEF StartFetch, NodeServes, TypeOK, Ended
<1>10. CASE Upgrade \/ UNCHANGED vars
  BY <1>6, <1>10 DEF Upgrade, vars
<1>11. QED
  BY <1>3, <1>4, <1>5, <1>8, <1>9, <1>10 DEF Next, Progress

LEMMA ReplyStep == IInv /\ [Next]_vars => ReplyFresh'
<1> SUFFICES ASSUME IInv, [Next]_vars PROVE ReplyFresh'
  OBVIOUS
<1> USE CellType, TasksAssumption
<1>1. /\ TypeOK /\ OnlyClonesWait /\ PoolFromCell /\ ReplyFresh
      /\ \A t \in Tasks : asked[t] \in Int /\ reply[t] \in Int /\ pool[t] \in Int
      /\ chain \in Int
  BY DEF IInv, TypeOK, Versions, None
<1>2. ASSUME NEW t \in Tasks, Get(t) PROVE ReplyFresh'
  <2>1. /\ asked' = [asked EXCEPT ![t] = chain]
        /\ UNCHANGED <<chain, reply>>
        /\ pc[t] = "idle"
        /\ \A u \in Tasks \ {t} : pc'[u] = pc[u] /\ pool'[u] = pool[u]
    BY <1>1, <1>2 DEF Get, Deliver, TypeOK
  <2>2. chain \in 0 .. chain /\ reply[t] = None
    BY <1>1, <2>1 DEF TypeOK, Versions, ReplyFresh
  <2>3. QED
    BY <1>1, <2>1, <2>2 DEF ReplyFresh, TypeOK
<1>3. ASSUME NEW t \in Tasks, FetchOk(t) PROVE ReplyFresh'
  BY <1>1, <1>3, LookedEnds DEF FetchOk, Deliver, ReplyFresh, TypeOK, Ended
<1>4. ASSUME NEW t \in Tasks, Resume(t) PROVE ReplyFresh'
  BY <1>1, <1>4, LookedEnds DEF Resume, Deliver, ReplyFresh, TypeOK, Ended
<1>5. ASSUME UNCHANGED <<chain, reply, pool, asked>>,
             \A t \in Tasks :
                /\ pc'[t] = "idle" <=> pc[t] = "idle"
                /\ pc'[t] \in {"waiting", "granted"} => pc[t] \in {"waiting", "granted"}
      PROVE  ReplyFresh'
  BY <1>1, <1>5 DEF ReplyFresh
<1>6. ASSUME NEW t \in Tasks, FetchErr(t) \/ Drop(t) PROVE ReplyFresh'
  <2>1. UNCHANGED <<chain, reply, pool, asked>> /\ pc[t] # "idle"
    BY <1>6 DEF FetchErr, Drop, Holding
  <2>2. \/ \E end \in {"failed", "gone"} : t \in Clones /\ Release(t, end)
        \/ \E end \in {"failed", "gone"} : pc' = [pc EXCEPT ![t] = end]
    BY <1>6 DEF FetchErr, Drop, Clones
  <2>3. \A u \in Tasks :
          /\ pc'[u] = "idle" <=> pc[u] = "idle"
          /\ pc'[u] \in {"waiting", "granted"} => pc[u] \in {"waiting", "granted"}
    BY <1>1, <2>1, <2>2 DEF Release, Waiting, TypeOK
  <2>4. QED
    BY <1>5, <2>1, <2>3
<1>7. ASSUME NEW t \in Tasks, StartFetch(t) PROVE ReplyFresh'
  BY <1>1, <1>5, <1>7 DEF StartFetch, TypeOK
<1>8. ASSUME NEW t \in Tasks, NodeServes(t) PROVE ReplyFresh'
  <2>1. pool[t] = None
    BY <1>1, <1>8 DEF NodeServes, PoolFromCell, Ended
  <2>2. QED
    BY <1>1, <1>8, <2>1 DEF NodeServes, ReplyFresh, TypeOK
<1>9. CASE Upgrade
  BY <1>1, <1>9 DEF Upgrade, ReplyFresh
<1>10. CASE UNCHANGED vars
  BY <1>5, <1>10 DEF vars
<1>11. QED
  BY <1>2, <1>3, <1>4, <1>6, <1>7, <1>8, <1>9, <1>10 DEF Next, Progress

\* The invariant from which the theorems follow.
THEOREM Invariance == Spec => []IInv
<1>1. IInv /\ [Next]_vars => IInv'
  BY TypeStep, PermitStep, PoolStep, ReplyStep DEF IInv
<1>2. QED
  BY <1>1, InitIInv, PTL DEF Spec

-----------------------------------------------------------------------------
(* The properties.                                                         *)

\* Every variable keeps its type.
THEOREM TypeCorrect == Spec => []TypeOK
  BY Invariance, PTL DEF IInv

\* The clones of a wrapper never have two descriptor fetches between them,
\* and none once their cell is set.
THEOREM FetchesOnce == Spec => []SingleFetch
<1>1. IInv => SingleFetch
  BY CellType DEF IInv, PermitHeld, ClosedWhenSet, Holds, SingleFetch
<1>2. QED
  BY <1>1, Invariance, PTL

\* Clones of one wrapper never work with different descriptors.
THEOREM ClonesAlwaysAgree == Spec => []ClonesAgree
<1>1. IInv => ClonesAgree
  BY DEF IInv, PoolFromCell, ClonesAgree
<1>2. QED
  BY <1>1, Invariance, PTL

\* While a task waits at an empty cell another holds its permit.
THEOREM WakeupsAreNotLost == Spec => []NoLostWakeup
<1>1. IInv => NoLostWakeup
  BY DEF IInv, TypeOK, PermitHeld, ClosedWhenSet, FreeUnwanted, Holds, Waiting, NoLostWakeup
<1>2. QED
  BY <1>1, Invariance, PTL

\* Whoever fetched works with descriptors no older than the call.
THEOREM FetchersAreFresh == Spec => []FetcherFresh
<1>1. IInv => FetcherFresh
  <2> SUFFICES ASSUME IInv, NEW t \in Tasks, reply[t] # None, pool[t] # None
               PROVE  asked[t] <= pool[t] /\ pool[t] <= chain
    BY DEF FetcherFresh
  <2>1. reply[t] \in asked[t] .. chain /\ pool[t] = reply[t]
    BY DEF IInv, ReplyFresh
  <2>2. asked[t] \in Int /\ chain \in Int
    BY DEF IInv, TypeOK, Versions, None
  <2>3. QED
    BY <2>1, <2>2
<1>2. QED
  BY <1>1, Invariance, PTL

-----------------------------------------------------------------------------
(* The cells implement write-once registers.                               *)

LEMMA RefinesStep ==
    ASSUME IInv, IInv', [Next]_vars
    PROVE  [Register!Next]_(Register!vars)
<1> DEFINE got == [t \in Clones |-> pool[t]]
<1> USE CellType DEF Register!Empty, None
<1>1. TypeOK /\ TypeOK' /\ PoolFromCell /\ PermitHeld /\ ClosedWhenSet /\ OnlyClonesWait
  BY DEF IInv
<1>2. ASSUME NEW t \in Clones, pool[t] = None, value[CellOf[t]] # None,
             Deliver(t, value[CellOf[t]]), UNCHANGED value
      PROVE  Register!Next
  <2>1. got' = [got EXCEPT ![t] = value[CellOf[t]]]
    BY <1>1, <1>2 DEF Deliver, TypeOK
  <2>2. Register!Read(t)
    BY <1>2, <2>1 DEF Register!Read
  <2>3. QED
    BY <2>2 DEF Register!Next
<1>3. ASSUME NEW t \in Tasks, Get(t) PROVE [Register!Next]_(Register!vars)
  <2>1. pool[t] = None
    BY <1>1, <1>3 DEF Get, PoolFromCell, Ended
  <2>2. CASE t \in Clones /\ value[CellOf[t]] # None /\ Deliver(t, value[CellOf[t]])
    BY <1>2, <1>3, <2>1, <2>2 DEF Get
  <2>3. CASE UNCHANGED pool
    BY <1>3, <2>3 DEF Get, Register!vars
  <2>4. QED
    BY <1>3, <2>2, <2>3 DEF Get
<1>4. ASSUME NEW t \in Tasks, FetchOk(t) PROVE [Register!Next]_(Register!vars)
  <2>1. CASE t \in Direct
    <3>1. \A u \in Clones : pool'[u] = pool[u]
      BY <1>1, <1>4, <2>1 DEF FetchOk, Deliver, TypeOK
    <3>2. value' = value
      BY <1>4, <2>1 DEF FetchOk
    <3>3. QED
      BY <3>1, <3>2 DEF Register!vars
  <2>2. CASE t \notin Direct
    <3>1. t \in Clones /\ value' = [value EXCEPT ![CellOf[t]] = reply[t]]
      BY <1>4, <2>2 DEF FetchOk, Clones
    <3>2. value[CellOf[t]] = None /\ pool[t] = None
      BY <1>1, <1>4, <3>1
         DEF FetchOk, PermitHeld, Holds, Holding, ClosedWhenSet, PoolFromCell, Ended
    <3>3. got' = [got EXCEPT ![t] = reply[t]]
      BY <1>1, <1>4, <3>1 DEF FetchOk, Deliver, TypeOK
    <3>4. PICK v \in Versions : reply[t] = v
      BY <1>1, <1>4 DEF FetchOk, TypeOK
    <3>5. Register!Fill(t, v)
      BY <3>1, <3>2, <3>3, <3>4 DEF Register!Fill
    <3>6. QED
      BY <3>1, <3>5 DEF Register!Next
  <2>3. QED
    BY <2>1, <2>2
<1>5. ASSUME NEW t \in Tasks, Resume(t) PROVE [Register!Next]_(Register!vars)
  <2>1. t \in Clones /\ pool[t] = None
    BY <1>1, <1>5 DEF Resume, OnlyClonesWait, Clones, PoolFromCell, Ended
  <2>2. value[CellOf[t]] # None
    BY <1>1, <1>5, <2>1 DEF Resume, ClosedWhenSet
  <2>3. QED
    BY <1>2, <1>5, <2>1, <2>2 DEF Resume
<1>6. CASE UNCHANGED <<value, pool>>
  BY <1>6 DEF Register!vars
<1>7. QED
  BY <1>3, <1>4, <1>5, <1>6
     DEF Next, Progress, StartFetch, FetchErr, Drop, NodeServes, Upgrade, vars

\* Each cell is, to the clones that share it, a register written once.
THEOREM RefinesOnceRegister == Spec => ImplementsOnceRegister
<1>1. Init => Register!Init
  BY CellType DEF Init, Register!Init, Register!Empty, None, Clones
<1>2. QED
  BY <1>1, RefinesStep, Invariance, PTL DEF Spec, ImplementsOnceRegister

=============================================================================
