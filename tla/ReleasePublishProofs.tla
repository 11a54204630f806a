------------------------ MODULE ReleasePublishProofs ------------------------
(***************************************************************************)
(* What holds of the publish script for every workspace whose crates are   *)
(* listed behind their dependencies, every set of runs and environments.   *)
(***************************************************************************)
EXTENDS ReleasePublish, TLAPS

Publishing == {"checking", "publishing", "polling"}

\* A run in the loop deals with a crate of the list, and has seen in the index
\* whatever it was asked to publish before that one.
SeenBehind ==
    \A r \in Runs :
        /\ pc[r] = "dry" => job[r].dry /\ at[r] \in Positions
        /\ pc[r] \in Publishing =>
              /\ ~ job[r].dry
              /\ at[r] \in Positions
              /\ \A i \in Positions :
                    i < at[r] /\ Selected(job[r], Order[i]) => Order[i] \in visible

\* A run has a reason when, and only when, it has ended.
ReasonAtEnd == \A r \in Runs : pc[r] = "ended" <=> why[r] # "none"

\* An undisturbed run is the only one, the index lags behind its own upload
\* at most, and what it is about to upload is not there.
Alone ==
    \A r \in Active \ disturbed :
        /\ Active = {r}
        /\ uploaded \ visible \subseteq IF pc[r] = "polling" THEN {Package(r)} ELSE {}
        /\ pc[r] = "publishing" => Package(r) \notin uploaded

IInv ==
    /\ TypeOK
    /\ SeenBehind
    /\ ReasonAtEnd
    /\ Alone
    /\ DoneMeansVisible
    /\ MissesOnlyDeselected
    /\ CleanResume

-----------------------------------------------------------------------------
LEMMA OrderType == Order \in Seq(Packages) /\ Len(Order) \in Nat /\ Positions \subseteq 1 .. Len(Order)
                   /\ \A i \in Positions : Order[i] \in Packages
  BY OrderAssumption DEF Positions, Packages

LEMMA InitIInv == Init => IInv
<1> SUFFICES ASSUME Init PROVE IInv
  OBVIOUS
<1>1. TypeOK
  BY OrderType, RunsAssumption DEF Init, TypeOK, Reasons
<1>2. SeenBehind /\ ReasonAtEnd /\ Alone
  BY DEF Init, SeenBehind, ReasonAtEnd, Alone, Publishing, Active
<1>3. DoneMeansVisible /\ MissesOnlyDeselected /\ CleanResume
  BY DEF Init, DoneMeansVisible, MissesOnlyDeselected, CleanResume, Real, NoJob
<1>4. QED
  BY <1>1, <1>2, <1>3 DEF IInv

-----------------------------------------------------------------------------
(* Types.                                                                  *)

RunTypes ==
    /\ pc \in [Runs -> {"new", "dry", "checking", "publishing", "polling", "ended"}]
    /\ at \in [Runs -> 0 .. Len(Order)]
    /\ attempt \in [Runs -> 0 .. MaxAttempts]
    /\ why \in [Runs -> Reasons]

LEMMA EndType ==
  ASSUME RunTypes, NEW r \in Runs, NEW reason \in Reasons, End(r, reason)
  PROVE  RunTypes'
BY DEF RunTypes, End

LEMMA GoOnType ==
  ASSUME RunTypes, NEW r \in Runs, NEW j, NEW i, GoOnWith(r, j, i)
  PROVE  RunTypes'
<1>1. CASE End(r, "ok")
  BY <1>1, EndType DEF Reasons
<1>2. CASE \E k \in Positions :
              /\ at' = [at EXCEPT ![r] = k]
              /\ pc' = [pc EXCEPT ![r] = IF j.dry THEN "dry" ELSE "checking"]
              /\ UNCHANGED <<attempt, why>>
  BY <1>2, OrderType DEF RunTypes
<1>3. QED
  BY <1>1, <1>2 DEF GoOnWith

LEMMA PackageType ==
  ASSUME NEW r \in Runs, SeenBehind, pc[r] \in {"dry"} \cup Publishing
  PROVE  at[r] \in Positions /\ Package(r) \in Packages
BY OrderType DEF SeenBehind, Package, Publishing

LEMMA TypeStep == IInv /\ [Next]_vars => TypeOK'
<1> SUFFICES ASSUME TypeOK, SeenBehind, [Next]_vars PROVE TypeOK'
  BY DEF IInv
<1>1. RunTypes
  BY DEF TypeOK, RunTypes
<1>2. ASSUME RunTypes', uploaded' \subseteq Packages, visible' \subseteq uploaded',
             job' \in [Runs -> Jobs \cup {NoJob}], disturbed' \subseteq Runs
      PROVE  TypeOK'
  BY <1>2 DEF TypeOK, RunTypes
<1>3. ASSUME RunTypes', UNCHANGED <<registry, job, disturbed>> PROVE TypeOK'
  BY <1>2, <1>3 DEF TypeOK, registry
<1>4. ASSUME NEW r \in Runs, Start(r) PROVE TypeOK'
  <2>1. PICK j \in Jobs :
          /\ job' = [job EXCEPT ![r] = j]
          /\ \/ \E reason \in {"usage", "ok", "cargo"} : End(r, reason)
             \/ GoOnWith(r, j, 0)
    BY <1>4 DEF Start
  <2>2. RunTypes'
    BY <1>1, <2>1, EndType, GoOnType DEF Reasons
  <2>3. job' \in [Runs -> Jobs \cup {NoJob}] /\ disturbed' \subseteq Runs
    BY <1>4, <2>1 DEF TypeOK, Start, Active
  <2>4. QED
    BY <1>2, <1>4, <2>2, <2>3 DEF Start, registry, TypeOK
<1>5. ASSUME NEW r \in Runs, DryPublish(r) \/ Check(r) \/ Poll(r) PROVE TypeOK'
  <2>1. UNCHANGED <<registry, job, disturbed>>
    BY <1>5 DEF DryPublish, Check, Poll
  <2>2. \/ \E reason \in Reasons : End(r, reason)
        \/ GoOn(r)
        \/ pc' = [pc EXCEPT ![r] = "publishing"] /\ UNCHANGED <<at, attempt, why>>
        \/ /\ attempt[r] < MaxAttempts
           /\ attempt' = [attempt EXCEPT ![r] = @ + 1]
           /\ UNCHANGED <<pc, at, why>>
    BY <1>5 DEF DryPublish, Check, Poll, Reasons
  <2>3. RunTypes'
    <3>1. CASE \/ pc' = [pc EXCEPT ![r] = "publishing"] /\ UNCHANGED <<at, attempt, why>>
               \/ /\ attempt[r] < MaxAttempts
                  /\ attempt' = [attempt EXCEPT ![r] = @ + 1]
                  /\ UNCHANGED <<pc, at, why>>
      BY <1>1, <3>1, RunsAssumption DEF RunTypes
    <3>2. QED
      BY <1>1, <2>2, <3>1, EndType, GoOnType DEF GoOn
  <2>4. QED
    BY <1>3, <2>1, <2>3
<1>6. ASSUME NEW r \in Runs, CargoPublish(r) PROVE TypeOK'
  <2>1. UNCHANGED <<visible, job, disturbed>> /\ uploaded' \in {uploaded, uploaded \cup {Package(r)}}
    BY <1>6 DEF CargoPublish, Upload
  <2>2. \/ \E reason \in Reasons : End(r, reason)
        \/ /\ pc' = [pc EXCEPT ![r] = "polling"]
           /\ attempt' = [attempt EXCEPT ![r] = 1]
           /\ UNCHANGED <<at, why>>
    BY <1>6 DEF CargoPublish, Reasons
  <2>3. RunTypes'
    <3>1. CASE /\ pc' = [pc EXCEPT ![r] = "polling"]
               /\ attempt' = [attempt EXCEPT ![r] = 1]
               /\ UNCHANGED <<at, why>>
      BY <1>1, <3>1, RunsAssumption DEF RunTypes
    <3>2. QED
      BY <1>1, <2>2, <3>1, EndType
  <2>4. Package(r) \in Packages
    BY <1>6, PackageType DEF CargoPublish, Publishing
  <2>5. QED
    BY <1>2, <2>1, <2>3, <2>4 DEF TypeOK
<1>7. ASSUME NEW r \in Runs, Kill(r) PROVE TypeOK'
  <2>1. RunTypes'
    BY <1>1, <1>7, EndType DEF Kill, Reasons
  <2>2. QED
    BY <1>3, <1>7, <2>1 DEF Kill
<1>8. CASE Index
  BY <1>8 DEF Index, TypeOK
<1>9. CASE UNCHANGED vars
  BY <1>9 DEF vars, TypeOK
<1>10. QED
  BY <1>4, <1>5, <1>6, <1>7, <1>8, <1>9 DEF Next, Step

-----------------------------------------------------------------------------
(* What a step does to the run that takes it, and to the others.           *)

Others(r) ==
    /\ \A s \in Runs \ {r} :
          /\ pc'[s] = pc[s]
          /\ at'[s] = at[s]
          /\ why'[s] = why[s]
          /\ job'[s] = job[s]
    /\ visible' = visible
    /\ disturbed \subseteq disturbed'

SeenUpTo(j, i) ==
    \A k \in Positions : k <= i /\ Selected(j, Order[k]) => Order[k] \in visible

\* The run has ended, and what its reason claims is so.
Ends(r) ==
    /\ pc'[r] = "ended"
    /\ why'[r] # "none"
    /\ why'[r] = "ok" /\ ~ job'[r].dry => SeenUpTo(job'[r], Len(Order))
    /\ why'[r] = "dependency" /\ ~ job'[r].dry =>
          \E d \in DependsOn[Order[at'[r]]] : ~ Selected(job'[r], d)
    /\ why'[r] = "exists" /\ ~ job'[r].dry =>
          \/ ~ job'[r].skip
          \/ pc[r] = "publishing" /\ Package(r) \in uploaded

\* The run turns to another crate, having seen all before it.
Turns(r) ==
    /\ pc'[r] = IF job'[r].dry THEN "dry" ELSE "checking"
    /\ why'[r] = "none"
    /\ at'[r] \in Positions
    /\ ~ job'[r].dry => SeenUpTo(job'[r], at'[r] - 1)

\* The run stays with its crate.
Stays(r) ==
    /\ pc[r] \in Publishing /\ ~ job'[r].dry
    /\ job'[r] = job[r] /\ at'[r] = at[r] /\ why'[r] = "none"
    /\ \/ /\ pc[r] = "checking" /\ pc'[r] = "publishing"
          /\ Package(r) \notin visible
       \/ pc[r] = "publishing" /\ pc'[r] = "polling"
       \/ pc[r] = "polling" /\ pc'[r] = "polling"

LEMMA EndEffect ==
  ASSUME TypeOK, NEW r \in Runs, NEW reason, End(r, reason)
  PROVE  pc'[r] = "ended" /\ why'[r] = reason /\ at' = at
BY DEF End, TypeOK

LEMMA GoOnEffect ==
  ASSUME TypeOK, NEW r \in Runs, why[r] = "none", NEW j, NEW i \in 0 .. Len(Order),
         ~ j.dry => SeenUpTo(j, i),
         job'[r] = j, GoOnWith(r, j, i)
  PROVE  Ends(r) \/ Turns(r)
<1> DEFINE ahead == {k \in Positions : k > i /\ Selected(j, Order[k])}
<1>1. ASSUME NEW k \in Positions, Selected(j, Order[k]), k \notin ahead PROVE k <= i
  BY <1>1, OrderType
<1>2. CASE ahead = {} /\ End(r, "ok")
  <2>1. ~ j.dry => SeenUpTo(j, Len(Order))
    BY <1>1, <1>2 DEF SeenUpTo
  <2>2. QED
    BY <1>2, <2>1, EndEffect DEF Ends
<1>3. ASSUME NEW k \in ahead,
             \A other \in ahead : k <= other,
             at' = [at EXCEPT ![r] = k],
             pc' = [pc EXCEPT ![r] = IF j.dry THEN "dry" ELSE "checking"],
             UNCHANGED <<attempt, why>>
      PROVE  Turns(r)
  <2>1. at'[r] = k /\ pc'[r] = (IF j.dry THEN "dry" ELSE "checking") /\ why'[r] = "none"
    BY <1>3 DEF TypeOK
  <2>2. ASSUME ~ j.dry PROVE SeenUpTo(j, k - 1)
    <3>1. ASSUME NEW other \in Positions, other <= k - 1, Selected(j, Order[other])
          PROVE  Order[other] \in visible
      <4>1. other \notin ahead
        BY <1>3, <3>1, OrderType
      <4>2. QED
        BY <1>1, <2>2, <3>1, <4>1 DEF SeenUpTo
    <3>2. QED
      BY <3>1 DEF SeenUpTo
  <2>3. QED
    BY <2>1, <2>2 DEF Turns
<1>4. QED
  BY <1>2, <1>3 DEF GoOnWith

LEMMA StepEffect ==
  ASSUME TypeOK, SeenBehind, ReasonAtEnd,
         NEW r \in Runs, Start(r) \/ Step(r) \/ Kill(r)
  PROVE  Others(r) /\ (Ends(r) \/ Turns(r) \/ Stays(r))
<1>1. Others(r)
  <2>1. ASSUME NEW reason, End(r, reason)
        PROVE  \A s \in Runs \ {r} : pc'[s] = pc[s] /\ at'[s] = at[s] /\ why'[s] = why[s]
    BY <2>1 DEF End, TypeOK
  <2>2. ASSUME NEW j, NEW i, GoOnWith(r, j, i)
        PROVE  \A s \in Runs \ {r} : pc'[s] = pc[s] /\ at'[s] = at[s] /\ why'[s] = why[s]
    <3>1. CASE End(r, "ok")
      BY <2>1, <3>1
    <3>2. CASE ~ End(r, "ok")
      BY <2>2, <3>2 DEF GoOnWith, TypeOK
    <3>3. QED
      BY <3>1, <3>2
  <2>3. CASE Start(r)
    BY <2>1, <2>2, <2>3 DEF Start, Others, registry, TypeOK
  <2>4. CASE DryPublish(r) \/ Check(r) \/ Poll(r)
    BY <2>1, <2>2, <2>4 DEF DryPublish, Check, Poll, GoOn, Others, registry, TypeOK
  <2>5. CASE CargoPublish(r) \/ Kill(r)
    BY <2>1, <2>5 DEF CargoPublish, Kill, Others, registry, TypeOK
  <2>6. QED
    BY <2>3, <2>4, <2>5 DEF Step
<1>2. why[r] = "none"
  <2>1. pc[r] # "ended"
    BY DEF Start, Step, DryPublish, Check, CargoPublish, Poll, Kill, Active
  <2>2. QED
    BY <2>1 DEF ReasonAtEnd
<1>3. ASSUME NEW reason \in {"usage", "query", "cargo", "timeout", "killed"}, End(r, reason)
      PROVE  Ends(r)
  BY <1>3, EndEffect DEF Ends
<1>4. at[r] \in 0 .. Len(Order)
  BY DEF TypeOK
<1>5. CASE Start(r)
  <2>1. PICK j \in Jobs :
          /\ job' = [job EXCEPT ![r] = j]
          /\ \/ Misused(j) /\ End(r, "usage")
             \/ /\ ~ Misused(j) /\ j.dry /\ Requested(j) = {}
                /\ End(r, "ok") \/ End(r, "cargo")
             \/ /\ ~ Misused(j) /\ ~ (j.dry /\ Requested(j) = {})
                /\ GoOnWith(r, j, 0)
    BY <1>5 DEF Start
  <2>2. job'[r] = j
    BY <2>1 DEF TypeOK
  <2>3. CASE j.dry /\ End(r, "ok")
    BY <1>1, <2>2, <2>3, EndEffect DEF Ends
  <2>4. CASE GoOnWith(r, j, 0)
    <3>1. SeenUpTo(j, 0) /\ 0 \in 0 .. Len(Order)
      BY OrderType DEF SeenUpTo
    <3>2. QED
      BY <1>1, <1>2, <2>2, <2>4, <3>1, GoOnEffect
  <2>5. QED
    BY <1>1, <1>3, <2>1, <2>3, <2>4
<1>6. ASSUME GoOn(r), job' = job, job[r].dry \/ (pc[r] \in Publishing /\ Package(r) \in visible)
      PROVE  Ends(r) \/ Turns(r)
  <2>1. ~ job[r].dry => SeenUpTo(job[r], at[r])
    <3>1. ASSUME ~ job[r].dry, NEW k \in Positions, k <= at[r], Selected(job[r], Order[k])
          PROVE  Order[k] \in visible
      <4>1. k < at[r] \/ k = at[r]
        BY <1>4, <3>1, OrderType
      <4>2. QED
        BY <1>6, <3>1, <4>1 DEF SeenBehind, Package
    <3>2. QED
      BY <3>1 DEF SeenUpTo
  <2>2. QED
    BY <1>2, <1>4, <1>6, <2>1, GoOnEffect DEF GoOn
<1>7. CASE DryPublish(r)
  <2>1. job' = job /\ job[r].dry
    BY <1>7 DEF DryPublish, SeenBehind
  <2>2. CASE End(r, "dependency")
    BY <1>1, <2>1, <2>2, EndEffect DEF Ends
  <2>3. QED
    BY <1>1, <1>3, <1>6, <1>7, <2>1, <2>2 DEF DryPublish
<1>8. CASE Check(r)
  <2>1. job' = job /\ ~ job[r].dry /\ pc[r] \in Publishing /\ pc[r] = "checking"
    BY <1>8 DEF Check, SeenBehind, Publishing
  <2>2. CASE ~ job[r].skip /\ End(r, "exists")
    BY <1>1, <2>1, <2>2, EndEffect DEF Ends
  <2>3. CASE /\ Package(r) \notin visible
             /\ pc' = [pc EXCEPT ![r] = "publishing"]
             /\ UNCHANGED <<at, attempt, why>>
    <3>1. Stays(r)
      BY <1>2, <2>1, <2>3 DEF Stays, TypeOK
    <3>2. QED
      BY <1>1, <3>1
  <2>4. CASE Package(r) \in visible /\ GoOn(r)
    BY <1>1, <1>6, <2>1, <2>4
  <2>5. QED
    BY <1>1, <1>3, <1>8, <2>2, <2>3, <2>4 DEF Check
<1>9. CASE CargoPublish(r)
  <2>1. /\ job' = job /\ ~ job[r].dry /\ pc[r] \in Publishing /\ pc[r] = "publishing"
        /\ at[r] \in Positions
    BY <1>9 DEF CargoPublish, SeenBehind, Publishing
  <2>2. CASE ~ DependsOn[Package(r)] \subseteq visible /\ End(r, "dependency")
    <3>1. PICK d \in DependsOn[Package(r)] : d \notin visible
      BY <2>2
    <3>2. PICK i \in Positions : i < at[r] /\ Order[i] = d
      BY <2>1, <3>1, OrderAssumption DEF Package
    <3>3. ~ Selected(job[r], d)
      BY <2>1, <3>1, <3>2 DEF SeenBehind
    <3>4. QED
      BY <1>1, <2>1, <2>2, <3>1, <3>3, EndEffect DEF Ends, Package
  <2>3. CASE Package(r) \in uploaded /\ End(r, "exists")
    BY <1>1, <2>1, <2>3, EndEffect DEF Ends
  <2>4. CASE /\ pc' = [pc EXCEPT ![r] = "polling"]
             /\ UNCHANGED <<at, why>>
    <3>1. Stays(r)
      BY <1>2, <2>1, <2>4 DEF Stays, TypeOK
    <3>2. QED
      BY <1>1, <3>1
  <2>5. QED
    BY <1>1, <1>3, <1>9, <2>2, <2>3, <2>4 DEF CargoPublish
<1>10. CASE Poll(r)
  <2>1. job' = job /\ ~ job[r].dry /\ pc[r] \in Publishing /\ pc[r] = "polling"
    BY <1>10 DEF Poll, SeenBehind, Publishing
  <2>2. CASE UNCHANGED <<pc, at, why>>
    BY <1>1, <1>2, <2>1, <2>2 DEF Stays
  <2>3. QED
    BY <1>1, <1>3, <1>6, <1>10, <2>1, <2>2 DEF Poll
<1>11. CASE Kill(r)
  BY <1>1, <1>3, <1>11 DEF Kill
<1>12. QED
  BY <1>5, <1>7, <1>8, <1>9, <1>10, <1>11 DEF Step

-----------------------------------------------------------------------------
(* The invariant is kept.                                                  *)

LEMMA LoopKept ==
  ASSUME IInv, NEW r \in Runs, Start(r) \/ Step(r) \/ Kill(r)
  PROVE  SeenBehind' /\ ReasonAtEnd' /\ DoneMeansVisible' /\ MissesOnlyDeselected' /\ CleanResume'
<1>1. Others(r) /\ (Ends(r) \/ Turns(r) \/ Stays(r))
  BY StepEffect DEF IInv
<1>2. SeenBehind'
  <2>1. ASSUME NEW s \in Runs \ {r}, pc'[s] = "dry" PROVE job'[s].dry /\ at'[s] \in Positions
    BY <1>1, <2>1 DEF IInv, SeenBehind, Others
  <2>2. ASSUME NEW s \in Runs \ {r}, pc'[s] \in Publishing
        PROVE  /\ ~ job'[s].dry
               /\ at'[s] \in Positions
               /\ \A i \in Positions :
                     i < at'[s] /\ Selected(job'[s], Order[i]) => Order[i] \in visible'
    BY <1>1, <2>2 DEF IInv, SeenBehind, Others
  <2>3. pc'[r] = "dry" => job'[r].dry /\ at'[r] \in Positions
    BY <1>1 DEF Ends, Turns, Stays
  <2>4. ASSUME pc'[r] \in Publishing
        PROVE  /\ ~ job'[r].dry
               /\ at'[r] \in Positions
               /\ \A i \in Positions :
                     i < at'[r] /\ Selected(job'[r], Order[i]) => Order[i] \in visible'
    <3>1. CASE Turns(r)
      <4>1. ~ job'[r].dry /\ at'[r] \in Positions
        BY <2>4, <3>1 DEF Turns, Publishing
      <4>2. \A i \in Positions : i < at'[r] => i <= at'[r] - 1
        BY <4>1 DEF Positions
      <4>3. QED
        BY <1>1, <3>1, <4>1, <4>2 DEF Turns, SeenUpTo, Others
    <3>2. CASE Stays(r)
      BY <1>1, <3>2 DEF Stays, IInv, SeenBehind, Others
    <3>3. QED
      BY <1>1, <2>4, <3>1, <3>2 DEF Ends, Publishing
  <2>5. QED
    BY <2>1, <2>2, <2>3, <2>4 DEF SeenBehind
<1>3. ReasonAtEnd'
  <2>1. pc'[r] = "ended" <=> why'[r] # "none"
    BY <1>1 DEF Ends, Turns, Stays
  <2>2. QED
    BY <1>1, <2>1 DEF IInv, ReasonAtEnd, Others
<1>4. DoneMeansVisible'
  <2>1. ASSUME why'[r] = "ok", ~ job'[r].dry, NEW p \in Packages, Selected(job'[r], p)
        PROVE  p \in visible'
    <3>1. PICK i \in Positions : Order[i] = p
      BY DEF Packages
    <3>2. i <= Len(Order) /\ SeenUpTo(job'[r], Len(Order))
      BY <1>1, <2>1, OrderType DEF Ends, Turns, Stays
    <3>3. QED
      BY <1>1, <2>1, <3>1, <3>2 DEF SeenUpTo, Others
  <2>2. QED
    BY <1>1, <2>1 DEF IInv, DoneMeansVisible, Real, Others
<1>5. MissesOnlyDeselected'
  <2>1. ASSUME why'[r] = "dependency", ~ job'[r].dry
        PROVE  \E d \in DependsOn[Order[at'[r]]] : ~ Selected(job'[r], d)
    BY <1>1, <2>1 DEF Ends, Turns, Stays
  <2>2. QED
    BY <1>1, <2>1 DEF IInv, MissesOnlyDeselected, Real, Others, Package
<1>6. CleanResume'
  <2>1. ASSUME ~ job'[r].dry, job'[r].skip, Requested(job'[r]) = {},
               why'[r] \in {"exists", "dependency"}
        PROVE  r \in disturbed'
    <3>1. why'[r] # "dependency"
      BY <1>1, <2>1 DEF Ends, Turns, Stays, Selected
    <3>2. pc[r] = "publishing" /\ Package(r) \in uploaded
      BY <1>1, <2>1, <3>1 DEF Ends, Turns, Stays
    <3>3. r \in disturbed
      BY <3>2 DEF IInv, Alone, Active
    <3>4. QED
      BY <1>1, <3>3 DEF Others
  <2>2. QED
    BY <1>1, <2>1 DEF IInv, CleanResume, Real, Others
<1>7. QED
  BY <1>2, <1>3, <1>4, <1>5, <1>6

\* A run that starts beside another disturbs both; any other step is the lone
\* run's own, and only CargoPublish brings the registry ahead of the index.
LEMMA AloneKept ==
  ASSUME IInv, NEW r \in Runs, Start(r) \/ Step(r) \/ Kill(r)
  PROVE  Alone'
<1>1. Others(r) /\ (Ends(r) \/ Turns(r) \/ Stays(r))
  BY StepEffect DEF IInv
<1>2. SUFFICES ASSUME NEW s \in Runs, pc'[s] \notin {"new", "ended"}, s \notin disturbed'
               PROVE  /\ Active' = {s}
                      /\ uploaded' \ visible' \subseteq
                            IF pc'[s] = "polling" THEN {Order[at'[s]]} ELSE {}
                      /\ pc'[s] = "publishing" => Order[at'[s]] \notin uploaded'
  BY DEF Alone, Active, Package
<1>3. s \notin disturbed
  BY <1>1, <1>2 DEF Others
<1>4. Active' \subseteq Active \cup {r}
  BY <1>1 DEF Active, Others
<1>5. CASE Start(r)
  <2>1. Active = {} /\ s = r
    BY <1>2, <1>4, <1>5 DEF Start, Active
  <2>2. uploaded = visible
    BY <1>2, <1>5, <2>1 DEF Start
  <2>3. pc'[r] \in {"dry", "checking"}
    BY <1>1, <1>2, <1>5, <2>1 DEF Ends, Turns, Stays, Start, Publishing
  <2>4. Active' = {s}
    BY <1>2, <1>4, <2>1 DEF Active
  <2>5. QED
    BY <1>5, <2>1, <2>2, <2>3, <2>4 DEF Start, registry
<1>6. CASE Step(r) \/ Kill(r)
  <2>1. r \in Active
    BY <1>6 DEF Step, Kill, DryPublish, Check, CargoPublish, Poll, Active
  <2>2. s \in Active /\ Active = {s} /\ s = r
    BY <1>2, <1>3, <1>4, <2>1 DEF IInv, Alone, Active
  <2>3. Active' = {s}
    BY <1>2, <1>4, <2>2 DEF Active
  <2>4. /\ uploaded \ visible \subseteq IF pc[r] = "polling" THEN {Package(r)} ELSE {}
        /\ visible' = visible
    BY <1>1, <1>3, <2>2 DEF IInv, Alone, Others
  <2>5. Turns(r) \/ Stays(r)
    BY <1>1, <1>2, <2>2 DEF Ends
  <2>6. \A reason : ~ End(r, reason)
    BY <1>2, <2>2, EndEffect DEF IInv
  <2>7. CASE DryPublish(r) \/ Check(r)
    BY <2>2, <2>3, <2>4, <2>5, <2>7 DEF DryPublish, Check, registry, Turns, Stays, Package
  <2>8. CASE CargoPublish(r)
    <3>1. /\ uploaded' = uploaded \cup {Package(r)}
          /\ pc' = [pc EXCEPT ![r] = "polling"]
          /\ at' = at
      BY <2>6, <2>8 DEF CargoPublish, Upload
    <3>2. pc'[r] = "polling" /\ pc[r] = "publishing"
      BY <2>8, <3>1 DEF IInv, TypeOK, CargoPublish
    <3>3. QED
      BY <2>2, <2>3, <2>4, <3>1, <3>2 DEF Package
  <2>9. CASE Poll(r)
    <3>1. pc[r] = "polling" /\ uploaded' = uploaded
      BY <2>9 DEF Poll, registry
    <3>2. CASE Package(r) \in visible
      <4>1. pc'[r] # "publishing"
        BY <2>5, <3>1 DEF Turns, Stays
      <4>2. QED
        BY <2>2, <2>3, <2>4, <3>1, <3>2, <4>1
    <3>3. CASE UNCHANGED <<pc, at, why>>
      BY <2>2, <2>3, <2>4, <3>1, <3>3 DEF Package
    <3>4. QED
      BY <2>6, <2>9, <3>2, <3>3 DEF Poll
  <2>10. QED
    BY <1>6, <2>6, <2>7, <2>8, <2>9 DEF Step, Kill
<1>7. QED
  BY <1>5, <1>6

LEMMA IndexKeeps == IInv /\ Index => IInv'
<1> SUFFICES ASSUME IInv, Index PROVE IInv'
  OBVIOUS
<1>1. UNCHANGED <<uploaded, job, pc, at, attempt, why, disturbed>> /\ visible \subseteq visible'
  BY DEF Index
<1>2. TypeOK'
  BY TypeStep DEF Next
<1>3. SeenBehind' /\ ReasonAtEnd' /\ MissesOnlyDeselected' /\ CleanResume'
  BY <1>1 DEF IInv, SeenBehind, ReasonAtEnd, MissesOnlyDeselected, CleanResume, Real, Package
<1>4. Alone'
  BY <1>1 DEF IInv, Alone, Active, Package
<1>5. DoneMeansVisible'
  BY <1>1 DEF IInv, DoneMeansVisible, Real
<1>6. QED
  BY <1>2, <1>3, <1>4, <1>5 DEF IInv

LEMMA NextIInv == IInv /\ [Next]_vars => IInv'
<1> SUFFICES ASSUME IInv, [Next]_vars PROVE IInv'
  OBVIOUS
<1>1. ASSUME NEW r \in Runs, Start(r) \/ Step(r) \/ Kill(r) PROVE IInv'
  BY <1>1, TypeStep, LoopKept, AloneKept DEF IInv
<1>2. CASE Index
  BY <1>2, IndexKeeps
<1>3. CASE UNCHANGED vars
  <2>1. TypeOK' /\ SeenBehind' /\ ReasonAtEnd'
    BY <1>3 DEF vars, IInv, TypeOK, SeenBehind, ReasonAtEnd
  <2>2. Alone'
    BY <1>3 DEF vars, IInv, Alone, Active, Package
  <2>3. DoneMeansVisible' /\ MissesOnlyDeselected' /\ CleanResume'
    BY <1>3 DEF vars, IInv, DoneMeansVisible, MissesOnlyDeselected, CleanResume, Real, Package
  <2>4. QED
    BY <2>1, <2>2, <2>3 DEF IInv
<1>4. QED
  BY <1>1, <1>2, <1>3 DEF Next

-----------------------------------------------------------------------------
(* Theorems.                                                               *)

\* Every reachable state of the runs and the registry satisfies IInv.
THEOREM Invariance == Spec => []IInv
<1>1. IInv /\ [Next]_vars => IInv'
  BY NextIInv
<1>2. QED
  BY InitIInv, <1>1, PTL DEF Spec

\* The registry's index never shows what was not uploaded, and every run
\* stays within the list of crates and the attempts at the index.
THEOREM TypeCorrect == Spec => []TypeOK
<1>1. IInv => TypeOK
  BY DEF IInv
<1>2. QED
  BY Invariance, <1>1, PTL

\* A run that says it has published has published all it was asked to.
THEOREM DoneIsVisible == Spec => []DoneMeansVisible
<1>1. IInv => DoneMeansVisible
  BY DEF IInv
<1>2. QED
  BY Invariance, <1>1, PTL

\* cargo never misses a dependency that the run was asked to publish.
THEOREM DependenciesComeFirst == Spec => []MissesOnlyDeselected
<1>1. IInv => MissesOnlyDeselected
  BY DEF IInv
<1>2. QED
  BY Invariance, <1>1, PTL

\* A full run that skips what is published resumes whatever was left behind.
THEOREM RunsResume == Spec => []CleanResume
<1>1. IInv => CleanResume
  BY DEF IInv
<1>2. QED
  BY Invariance, <1>1, PTL

=============================================================================
