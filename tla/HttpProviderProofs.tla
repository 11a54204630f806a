------------------------ MODULE HttpProviderProofs --------------------------
(***************************************************************************)
(* What holds of the request loop for every set of calls, every retry      *)
(* policy and every largest duration.                                      *)
(***************************************************************************)
EXTENDS HttpProvider, SetInduction, TLAPS

\* The requests of a call are numbered from 1 to the number it has sent.
SentBefore ==
    /\ \A r \in wire : r.attempt <= attempt[r.call]
    /\ \A a \in answered : a.request.attempt <= attempt[a.request.call]

\* A request the node has answered is no longer under way.
AnsweredOnce == \A a \in answered : a.request \notin wire

\* The loop reads the body of an answer the node gave to its last request.
ReadsAnAnswer ==
    \A c \in Calls : phase[c] = "reading" =>
        [request |-> Request(c, attempt[c]), status |-> status[c][attempt[c]]] \in answered

\* Only a finished call has an outcome.
OutcomeAtEnd == \A c \in Calls : phase[c] = "finished" <=> outcome[c] # "none"

\* A call that has not begun has sent nothing and spent nothing; one that
\* runs has sent a request.
Spent ==
    \A c \in Calls :
        /\ phase[c] = "idle" => attempt[c] = 0 /\ budget[c] = MaxRetries
        /\ phase[c] \in Running => attempt[c] >= 1

\* While the loop sleeps, its last attempt too has ended in something a
\* retry might cure.
SleepsAfterTransient ==
    \A c \in Calls :
        phase[c] = "sleeping" => ended[c][attempt[c]] \in {"transient", "server"}

-----------------------------------------------------------------------------
(* What a step does to the call that takes it, in terms of that call.      *)

Retried(c) ==
    /\ phase[c] \in {"sending", "reading"}
    /\ budget[c] > 0
    /\ budget'[c] = budget[c] - 1
    /\ \E e \in {"transient", "server"} :
          ended'[c] = [ended[c] EXCEPT ![attempt[c]] = e]

Sends(c) ==
    /\ \/ phase[c] \in {"idle", "sleeping"} /\ UNCHANGED <<budget, ended>>
       \/ Retried(c)
    /\ phase'[c] = "sending"
    /\ attempt'[c] = attempt[c] + 1
    /\ wire' = wire \cup {Request(c, attempt[c] + 1)}
    /\ UNCHANGED <<status, outcome>>

Pauses(c) ==
    /\ Retried(c)
    /\ phase'[c] = "sleeping"
    /\ UNCHANGED <<attempt, status, outcome, wire>>

FinishedBy(c, e) ==
    /\ phase[c] \in {"sending", "reading"}
    /\ ended'[c] = [ended[c] EXCEPT ![attempt[c]] = e]
    /\ e \in {"transient", "server"} => budget[c] = 0

Finishes(c) ==
    /\ phase'[c] = "finished"
    /\ UNCHANGED <<budget, attempt, status, wire>>
    /\ \/ phase[c] = "idle" /\ outcome'[c] = "build" /\ UNCHANGED ended
       \/ \E e \in ErrorClasses : FinishedBy(c, e) /\ outcome'[c] = e
       \/ /\ phase[c] = "reading"
          /\ FinishedBy(c, "success")
          /\ status[c][attempt[c]] = "success"
          /\ outcome'[c] \in {"ok", "json"}
       \/ \E e \in {"client", "server"} :
             /\ phase[c] = "reading"
             /\ FinishedBy(c, e)
             /\ status[c][attempt[c]] = e
             /\ outcome'[c] = "request"

Reads(c) ==
    /\ phase[c] = "sending"
    /\ phase'[c] = "reading"
    /\ [request |-> Request(c, attempt[c]), status |-> status'[c][attempt[c]]] \in answered
    /\ UNCHANGED <<budget, attempt, ended, outcome, wire>>

Drops(c) ==
    /\ phase[c] \in Running
    /\ phase'[c] = "dropped"
    /\ UNCHANGED <<budget, attempt, status, ended, outcome, wire>>

Others(c) ==
    /\ \A d \in Calls \ {c} :
          /\ phase'[d] = phase[d]
          /\ budget'[d] = budget[d]
          /\ attempt'[d] = attempt[d]
          /\ status'[d] = status[d]
          /\ ended'[d] = ended[d]
          /\ outcome'[d] = outcome[d]
    /\ UNCHANGED answered

-----------------------------------------------------------------------------
LEMMA DoubledType == \A d \in 0 .. MaxDuration : Doubled(d) \in 0 .. MaxDuration
  BY PolicyAssumption DEF Doubled

LEMMA RetryAfterType ==
    ASSUME TypeOK, RetryBudget, NEW c \in Calls, RetryAfter(c),
           budget[c] > 0, phase[c] \in {"sending", "reading"}
    PROVE  /\ phase' \in [Calls -> Phases]
           /\ budget' \in [Calls -> 0 .. MaxRetries]
           /\ backoff' \in [Calls -> 0 .. MaxDuration]
           /\ attempt' \in [Calls -> 0 .. MaxRetries + 1]
           /\ pauses' \in [Calls -> Seq(1 .. MaxDuration)]
           /\ outcome' \in [Calls -> Outcomes]
           /\ wire' \subseteq Requests
<1>1. attempt[c] + 1 \in Attempts
  BY PolicyAssumption DEF TypeOK, RetryBudget, Attempts
<1>2. budget' \in [Calls -> 0 .. MaxRetries]
  BY PolicyAssumption DEF TypeOK, RetryAfter
<1>3. backoff' \in [Calls -> 0 .. MaxDuration]
  BY DoubledType DEF TypeOK, RetryAfter
<1>4. outcome' \in [Calls -> Outcomes]
  BY DEF TypeOK, RetryAfter
<1>5. CASE backoff[c] = 0
  <2>1. Send(c) /\ UNCHANGED pauses
    BY <1>5 DEF RetryAfter
  <2>2. attempt' \in [Calls -> 0 .. MaxRetries + 1]
    BY <1>1, <2>1, PolicyAssumption DEF TypeOK, Send, Attempts
  <2>3. wire' \subseteq Requests
    BY <1>1, <2>1 DEF TypeOK, Send, Requests, Request
  <2>4. phase' \in [Calls -> Phases]
    BY <2>1 DEF TypeOK, Send, Phases, Running
  <2>5. QED
    BY <1>2, <1>3, <1>4, <2>1, <2>2, <2>3, <2>4 DEF TypeOK
<1>6. CASE backoff[c] # 0
  <2>1. /\ phase' = [phase EXCEPT ![c] = "sleeping"]
        /\ pauses' = [pauses EXCEPT ![c] = Append(pauses[c], backoff[c])]
        /\ UNCHANGED <<attempt, wire>>
    BY <1>6 DEF RetryAfter
  <2>2. backoff[c] \in 1 .. MaxDuration
    BY <1>6, PolicyAssumption DEF TypeOK
  <2>3. pauses' \in [Calls -> Seq(1 .. MaxDuration)]
    BY <2>1, <2>2 DEF TypeOK
  <2>4. phase' \in [Calls -> Phases]
    BY <2>1 DEF TypeOK, Phases, Running
  <2>5. QED
    BY <1>2, <1>3, <1>4, <2>1, <2>3, <2>4 DEF TypeOK
<1>7. QED
  BY <1>5, <1>6

LEMMA FinishType ==
    ASSUME TypeOK, NEW c \in Calls, NEW result \in Outcomes, Finish(c, result)
    PROVE  /\ phase' \in [Calls -> Phases]
           /\ budget' \in [Calls -> 0 .. MaxRetries]
           /\ backoff' \in [Calls -> 0 .. MaxDuration]
           /\ attempt' \in [Calls -> 0 .. MaxRetries + 1]
           /\ pauses' \in [Calls -> Seq(1 .. MaxDuration)]
           /\ outcome' \in [Calls -> Outcomes]
           /\ wire' \subseteq Requests
  BY DEF TypeOK, Finish, Phases

LEMMA TypeStep == TypeOK /\ RetryBudget /\ Spent /\ [Next]_vars => TypeOK'
<1> SUFFICES ASSUME TypeOK, RetryBudget, Spent, [Next]_vars PROVE TypeOK'
  OBVIOUS
<1>1. ASSUME NEW c \in Calls, NEW e \in StatusClasses \cup ErrorClasses,
             ended' = [ended EXCEPT ![c][attempt[c]] = e]
      PROVE  ended' \in [Calls -> [Attempts -> {"open"} \cup StatusClasses \cup ErrorClasses]]
  BY <1>1 DEF TypeOK
<1>2. ASSUME NEW c \in Calls, NEW e \in ErrorClasses, ErrorEnds(c, e),
             phase[c] \in {"sending", "reading"}, UNCHANGED <<status, answered>>
      PROVE  TypeOK'
  <2>1. CASE budget[c] > 0 /\ e = "transient"
    BY <1>1, <1>2, <2>1, RetryAfterType DEF ErrorEnds, TypeOK
  <2>2. CASE ~(budget[c] > 0 /\ e = "transient")
    BY <1>1, <1>2, <2>2, FinishType DEF ErrorEnds, TypeOK, Outcomes
  <2>3. QED
    BY <2>1, <2>2
<1>3. ASSUME NEW c \in Calls, Begin(c) \/ Wake(c)
      PROVE  TypeOK'
  <2>1. attempt[c] + 1 \in Attempts
    BY <1>3, PolicyAssumption DEF TypeOK, RetryBudget, Spent, Begin, Wake, Attempts
  <2>2. Send(c)
    BY <1>3 DEF Begin, Wake
  <2>3. attempt' \in [Calls -> 0 .. MaxRetries + 1]
    BY <2>1, <2>2, PolicyAssumption DEF TypeOK, Send, Attempts
  <2>4. wire' \subseteq Requests
    BY <2>1, <2>2 DEF TypeOK, Send, Requests, Request
  <2>5. phase' \in [Calls -> Phases]
    BY <2>2 DEF TypeOK, Send, Phases, Running
  <2>6. QED
    BY <1>3, <2>3, <2>4, <2>5 DEF TypeOK, Begin, Wake
<1>4. ASSUME NEW c \in Calls, BuildFails(c)
      PROVE  TypeOK'
  BY <1>4, FinishType DEF BuildFails, TypeOK, Outcomes
<1>5. ASSUME NEW c \in Calls, NEW e \in ErrorClasses, SendFails(c, e) \/ BodyFails(c, e)
      PROVE  TypeOK'
  BY <1>2, <1>5 DEF SendFails, BodyFails
<1>6. ASSUME NEW c \in Calls, NEW e \in StatusClasses, HeadersArrive(c, e)
      PROVE  TypeOK'
  BY <1>6 DEF HeadersArrive, TypeOK, Phases, Running
<1>7. ASSUME NEW c \in Calls, BodyArrives(c)
      PROVE  TypeOK'
  <2> DEFINE e == status[c][attempt[c]]
  <2>1. e \in StatusClasses
    BY <1>7 DEF BodyArrives, StatusEnds, StatusClasses
  <2>2. ended' \in [Calls -> [Attempts -> {"open"} \cup StatusClasses \cup ErrorClasses]]
    BY <1>1, <1>7, <2>1 DEF BodyArrives, StatusEnds
  <2>3. CASE budget[c] > 0 /\ RetryAfter(c)
    BY <1>7, <2>2, <2>3, RetryAfterType DEF BodyArrives, TypeOK
  <2>4. CASE \E result \in {"ok", "json", "request"} : Finish(c, result)
    BY <1>7, <2>2, <2>4, FinishType DEF BodyArrives, TypeOK, Outcomes
  <2>5. QED
    BY <1>7, <2>3, <2>4 DEF BodyArrives, StatusEnds, TextResults
<1>8. ASSUME NEW c \in Calls, Drop(c)
      PROVE  TypeOK'
  BY <1>8 DEF Drop, TypeOK, Phases, Running
<1>9. ASSUME NEW r \in wire, NEW e \in StatusClasses, NodeAnswers(r, e)
      PROVE  TypeOK'
  BY <1>9 DEF NodeAnswers, TypeOK, Answers, local
<1>10. CASE UNCHANGED vars
  BY <1>10 DEF vars, local, TypeOK
<1>11. QED
  BY <1>3, <1>4, <1>5, <1>6, <1>7, <1>8, <1>9, <1>10 DEF Next, CallNext, Progress

-----------------------------------------------------------------------------
LEMMA RetryAfterShape ==
    ASSUME TypeOK, NEW c \in Calls, NEW e \in {"transient", "server"},
           RetryAfter(c), budget[c] > 0, phase[c] \in {"sending", "reading"},
           ended' = [ended EXCEPT ![c][attempt[c]] = e],
           UNCHANGED <<status, answered>>
    PROVE  Others(c) /\ (Sends(c) \/ Pauses(c))
<1>1. Retried(c)
  BY DEF TypeOK, RetryAfter, Retried
<1>2. CASE backoff[c] = 0
  <2>1. Send(c)
    BY <1>2 DEF RetryAfter
  <2>2. Sends(c)
    BY <1>1, <2>1 DEF Sends, Send, RetryAfter, TypeOK
  <2>3. Others(c)
    BY <2>1 DEF Others, Send, RetryAfter, TypeOK
  <2>4. QED
    BY <2>2, <2>3
<1>3. CASE backoff[c] # 0
  <2>1. Pauses(c)
    BY <1>1, <1>3 DEF Pauses, RetryAfter, TypeOK
  <2>2. Others(c)
    BY <1>3 DEF Others, RetryAfter, TypeOK
  <2>3. QED
    BY <2>1, <2>2
<1>4. QED
  BY <1>2, <1>3

\* Every step of a call is one of five shapes, and leaves the other calls and
\* the node alone.
LEMMA StepShape ==
    ASSUME TypeOK, NEW c \in Calls, CallNext(c)
    PROVE  /\ Others(c)
           /\ Sends(c) \/ Pauses(c) \/ Finishes(c) \/ Reads(c) \/ Drops(c)
<1>1. CASE Begin(c) \/ Wake(c)
  BY <1>1 DEF TypeOK, Begin, Wake, Send, Sends, Others
<1>2. CASE BuildFails(c)
  BY <1>2 DEF TypeOK, BuildFails, Finish, Finishes, Others
<1>3. ASSUME NEW e \in ErrorClasses, SendFails(c, e) \/ BodyFails(c, e)
      PROVE  Others(c) /\ (Sends(c) \/ Pauses(c) \/ Finishes(c))
  <2>1. /\ phase[c] \in {"sending", "reading"}
        /\ ErrorEnds(c, e)
        /\ UNCHANGED <<status, answered>>
    BY <1>3 DEF SendFails, BodyFails
  <2>2. CASE budget[c] > 0 /\ e = "transient"
    BY <2>1, <2>2, RetryAfterShape DEF ErrorEnds
  <2>3. CASE ~(budget[c] > 0 /\ e = "transient")
    <3>1. Finish(c, e) /\ ended' = [ended EXCEPT ![c][attempt[c]] = e]
      BY <2>1, <2>3 DEF ErrorEnds
    <3>2. budget[c] = 0 \/ e = "permanent"
      BY <2>3, PolicyAssumption DEF TypeOK, ErrorClasses
    <3>3. FinishedBy(c, e)
      BY <2>1, <3>1, <3>2 DEF FinishedBy, TypeOK
    <3>4. Finishes(c)
      BY <2>1, <3>1, <3>3 DEF Finish, Finishes, TypeOK
    <3>5. Others(c)
      BY <2>1, <3>1 DEF Finish, Others, TypeOK
    <3>6. QED
      BY <3>4, <3>5
  <2>4. QED
    BY <2>2, <2>3
<1>4. ASSUME NEW e \in StatusClasses, HeadersArrive(c, e)
      PROVE  Others(c) /\ Reads(c)
  <2>2. [request |-> Request(c, attempt[c]), status |-> e] \in Answers
    BY <1>4 DEF HeadersArrive, TypeOK
  <2>3. attempt[c] \in Attempts
    BY <2>2 DEF Answers, Requests, Request
  <2>4. status'[c][attempt[c]] = e
    BY <1>4, <2>3 DEF HeadersArrive, TypeOK
  <2>5. Reads(c)
    BY <1>4, <2>4 DEF HeadersArrive, Reads, TypeOK
  <2>6. Others(c)
    BY <1>4 DEF HeadersArrive, Others, TypeOK
  <2>7. QED
    BY <2>5, <2>6
<1>5. CASE BodyArrives(c)
  <2> DEFINE e == status[c][attempt[c]]
  <2>1. /\ phase[c] = "reading"
        /\ ended' = [ended EXCEPT ![c][attempt[c]] = e]
        /\ UNCHANGED <<status, answered>>
    BY <1>5 DEF BodyArrives, StatusEnds
  <2>2. CASE e = "server" /\ budget[c] > 0 /\ RetryAfter(c)
    BY <2>1, <2>2, RetryAfterShape
  <2>3. CASE \E result \in {"ok", "json"} : e = "success" /\ Finish(c, result)
    <3>1. Others(c)
      BY <2>1, <2>3 DEF Finish, Others, TypeOK
    <3>2. Finishes(c)
      BY <2>1, <2>3 DEF Finish, Finishes, FinishedBy, TypeOK
    <3>3. QED
      BY <3>1, <3>2
  <2>4. CASE /\ e = "client" \/ (e = "server" /\ budget[c] = 0)
             /\ Finish(c, "request")
    <3>1. Others(c)
      BY <2>1, <2>4 DEF Finish, Others, TypeOK
    <3>2. FinishedBy(c, e) /\ e \in {"client", "server"}
      BY <2>1, <2>4 DEF Finish, FinishedBy, TypeOK
    <3>3. Finishes(c)
      BY <2>1, <2>4, <3>2 DEF Finish, Finishes, TypeOK
    <3>4. QED
      BY <3>1, <3>3
  <2>5. QED
    BY <1>5, <2>2, <2>3, <2>4 DEF BodyArrives, StatusEnds, TextResults
<1>6. CASE Drop(c)
  BY <1>6 DEF TypeOK, Drop, Drops, Others
<1>7. QED
  BY <1>1, <1>2, <1>3, <1>4, <1>5, <1>6 DEF CallNext, Progress

-----------------------------------------------------------------------------
(* The inductive invariant.                                                *)

IInv ==
    /\ TypeOK
    /\ SentBefore
    /\ AnsweredOnce
    /\ ReadsAnAnswer
    /\ OutcomeAtEnd
    /\ Spent
    /\ SleepsAfterTransient
    /\ RetryBudget
    /\ OutcomeJustified
    /\ GivesUpOnlyWhenSpent
    /\ ResendOnlyAfterTransient

LEMMA InitIInv == Init => IInv
<1> SUFFICES ASSUME Init PROVE IInv
  OBVIOUS
<1>1. TypeOK
  BY PolicyAssumption DEF Init, TypeOK, Phases, Outcomes
<1>2. SentBefore /\ AnsweredOnce /\ ReadsAnAnswer /\ OutcomeAtEnd
  BY DEF Init, SentBefore, AnsweredOnce, ReadsAnAnswer, OutcomeAtEnd
<1>3. Spent /\ SleepsAfterTransient /\ RetryBudget
  BY PolicyAssumption DEF Init, Spent, SleepsAfterTransient, RetryBudget, Running
<1>4. OutcomeJustified /\ GivesUpOnlyWhenSpent /\ ResendOnlyAfterTransient
  BY PolicyAssumption DEF Init, OutcomeJustified, GivesUpOnlyWhenSpent, ResendOnlyAfterTransient
<1>5. QED
  BY <1>1, <1>2, <1>3, <1>4 DEF IInv

\* The step of a call keeps the invariant.
LEMMA CallStep ==
    ASSUME IInv, TypeOK', NEW c \in Calls, CallNext(c)
    PROVE  IInv'
<1>1. /\ TypeOK
      /\ Others(c)
      /\ Sends(c) \/ Pauses(c) \/ Finishes(c) \/ Reads(c) \/ Drops(c)
  BY StepShape DEF IInv
<1>2. SentBefore'
  <2>1. SentBefore
    BY DEF IInv
  <2>2. \A d \in Calls : attempt[d] <= attempt'[d]
    BY <1>1 DEF TypeOK, Others, Sends, Pauses, Finishes, Reads, Drops
  <2>3. wire' \subseteq wire \cup {Request(c, attempt'[c])}
    BY <1>1 DEF TypeOK, Others, Sends, Pauses, Finishes, Reads, Drops
  <2>4. attempt \in [Calls -> Nat] /\ attempt' \in [Calls -> Nat]
    BY <1>1, PolicyAssumption DEF TypeOK
  <2>5. \A r \in wire' : r.attempt <= attempt'[r.call]
    <3>1. ASSUME NEW r \in wire PROVE r.attempt <= attempt'[r.call]
      <4>1. r.call \in Calls /\ r.attempt \in Nat
        <5>1. r \in Requests
          BY <1>1 DEF TypeOK
        <5>2. QED
          BY <5>1, PolicyAssumption DEF Requests, Attempts
      <4>2. r.attempt <= attempt[r.call] /\ attempt[r.call] <= attempt'[r.call]
        BY <2>1, <2>2, <4>1 DEF SentBefore
      <4>3. attempt[r.call] \in Nat /\ attempt'[r.call] \in Nat
        BY <2>4, <4>1
      <4>4. QED
        BY <4>1, <4>2, <4>3
    <3>2. Request(c, attempt'[c]).attempt <= attempt'[Request(c, attempt'[c]).call]
      BY <2>4 DEF Request
    <3>3. QED
      BY <2>3, <3>1, <3>2
  <2>6. \A a \in answered : a.request.attempt <= attempt'[a.request.call]
    <3> TAKE a \in answered
    <3> DEFINE r == a.request
    <3>1. r \in Requests
      BY <1>1 DEF TypeOK, Answers
    <3>2. r.call \in Calls /\ r.attempt \in Nat
      BY <3>1, PolicyAssumption DEF Requests, Attempts
    <3>3. r.attempt <= attempt[r.call] /\ attempt[r.call] <= attempt'[r.call]
      BY <2>1, <2>2, <3>2 DEF SentBefore
    <3>4. attempt[r.call] \in Nat /\ attempt'[r.call] \in Nat
      BY <2>4, <3>2
    <3>5. QED
      BY <3>2, <3>3, <3>4
  <2>7. QED
    BY <1>1, <2>5, <2>6 DEF SentBefore, Others
<1>3. AnsweredOnce'
  <2>1. wire' \subseteq wire \cup {Request(c, attempt[c] + 1)}
    BY <1>1 DEF Sends, Pauses, Finishes, Reads, Drops
  <2>2. \A a \in answered : a.request # Request(c, attempt[c] + 1)
    BY <1>1, PolicyAssumption DEF IInv, SentBefore, TypeOK, Request
  <2>3. QED
    BY <1>1, <2>1, <2>2 DEF IInv, AnsweredOnce, Others
<1>4. ReadsAnAnswer'
  BY <1>1 DEF IInv, ReadsAnAnswer, Others, Sends, Pauses, Finishes, Reads, Drops, Request
<1>5. OutcomeAtEnd'
  BY <1>1 DEF IInv, OutcomeAtEnd, Others, Sends, Pauses, Finishes, Reads, Drops, Retried,
              FinishedBy, Running, ErrorClasses
<1>6. Spent' /\ RetryBudget'
  <2> DEFINE Own(p, a, b) ==
        /\ p = "idle" => a = 0 /\ b = MaxRetries
        /\ p \in Running => a >= 1
        /\ p \in {"sending", "reading"} => a + b = MaxRetries + 1
        /\ p = "sleeping" => a + b = MaxRetries
        /\ a <= MaxRetries + 1
  <2>1. \A d \in Calls : Own(phase[d], attempt[d], budget[d])
    BY DEF IInv, Spent, RetryBudget
  <2>2. \A d \in Calls : attempt[d] \in Nat /\ budget[d] \in Nat
    BY <1>1, PolicyAssumption DEF TypeOK
  <2>3. Own(phase'[c], attempt'[c], budget'[c])
    <3>1. CASE Sends(c)
      BY <2>1, <2>2, <3>1, PolicyAssumption DEF Sends, Retried, Running
    <3>2. CASE Pauses(c)
      BY <2>1, <2>2, <3>2, PolicyAssumption DEF Pauses, Retried, Running
    <3>3. CASE Finishes(c)
      BY <2>1, <3>3 DEF Finishes, Running
    <3>4. CASE Reads(c) \/ Drops(c)
      BY <2>1, <3>4 DEF Reads, Drops, Running
    <3>5. QED
      BY <1>1, <3>1, <3>2, <3>3, <3>4
  <2>4. \A d \in Calls \ {c} : Own(phase'[d], attempt'[d], budget'[d])
    BY <1>1, <2>1 DEF Others
  <2>5. \A d \in Calls : Own(phase'[d], attempt'[d], budget'[d])
    BY <2>3, <2>4
  <2>6. QED
    BY <2>5 DEF Spent, RetryBudget
<1>7. SleepsAfterTransient'
  <2>1. \A d \in Calls : phase[d] \in {"sending", "reading"} => attempt[d] \in Attempts
    BY <1>1, PolicyAssumption DEF IInv, TypeOK, Spent, Running, Attempts
  <2>2. QED
    <3>1. ASSUME phase'[c] = "sleeping"
          PROVE  ended'[c][attempt'[c]] \in {"transient", "server"}
      <4>1. Pauses(c)
        BY <1>1, <3>1 DEF Sends, Finishes, Reads, Drops
      <4>2. attempt[c] \in Attempts /\ attempt' = attempt
        BY <2>1, <4>1 DEF Pauses, Retried
      <4>3. ended[c] \in [Attempts -> {"open"} \cup StatusClasses \cup ErrorClasses]
        BY <1>1 DEF TypeOK
      <4>4. QED
        BY <4>1, <4>2, <4>3 DEF Pauses, Retried
    <3>2. QED
      BY <1>1, <3>1 DEF IInv, SleepsAfterTransient, Others
<1>8. OutcomeJustified'
  <2>1. ASSUME NEW d \in Calls, d # c
        PROVE  /\ outcome'[d] = outcome[d] /\ attempt'[d] = attempt[d]
               /\ answered' = answered
    BY <1>1, <2>1 DEF Others
  <2>2. CASE Finishes(c)
    BY <1>1, <2>1, <2>2
       DEF IInv, OutcomeJustified, ReadsAnAnswer, Finishes, Others, ErrorClasses
  <2>3. CASE outcome'[c] = "none"
    BY <1>1, <2>1, <2>3 DEF IInv, OutcomeJustified
  <2>4. ASSUME ~ Finishes(c) PROVE outcome'[c] = "none"
    BY <1>1, <2>4 DEF IInv, OutcomeAtEnd, Sends, Pauses, Reads, Drops, Retried, Running
  <2>5. QED
    BY <2>2, <2>3, <2>4
<1>9. GivesUpOnlyWhenSpent'
  <2>1. ASSUME NEW d \in Calls, d # c
        PROVE  /\ outcome'[d] = outcome[d] /\ attempt'[d] = attempt[d]
               /\ budget'[d] = budget[d] /\ ended'[d] = ended[d]
    BY <1>1, <2>1 DEF Others
  <2>2. CASE Finishes(c)
    <3>1. phase[c] # "idle" => attempt[c] \in Attempts
      BY <1>1, <2>2, PolicyAssumption
         DEF IInv, TypeOK, Spent, Running, Attempts, Finishes, FinishedBy
    <3>2. \/ outcome'[c] = "transient"
          \/ outcome'[c] = "request" /\ ended'[c][attempt'[c]] = "server"
          => budget'[c] = 0
      BY <1>1, <2>2, <3>1 DEF Finishes, FinishedBy, TypeOK, ErrorClasses
    <3>3. QED
      BY <2>1, <3>2 DEF IInv, GivesUpOnlyWhenSpent
  <2>3. CASE outcome'[c] = "none"
    BY <2>1, <2>3 DEF IInv, GivesUpOnlyWhenSpent
  <2>4. ASSUME ~ Finishes(c) PROVE outcome'[c] = "none"
    BY <1>1, <2>4 DEF IInv, OutcomeAtEnd, Sends, Pauses, Reads, Drops, Retried, Running
  <2>5. QED
    BY <2>2, <2>3, <2>4
<1>10. ResendOnlyAfterTransient'
  <2>1. ASSUME NEW d \in Calls, d # c
        PROVE  attempt'[d] = attempt[d] /\ ended'[d] = ended[d]
    BY <1>1, <2>1 DEF Others
  <2>2. ASSUME NEW k \in 1 .. attempt'[c] - 1
        PROVE  ended'[c][k] \in {"transient", "server"}
    <3>1. k \in Attempts /\ attempt[c] \in Int
      BY <1>1, PolicyAssumption DEF TypeOK, Attempts
    <3>2. CASE k = attempt[c]
      BY <1>1, <3>1, <3>2
         DEF IInv, TypeOK, Spent, SleepsAfterTransient, Sends, Pauses, Finishes, Reads, Drops,
             Retried
    <3>3. CASE k # attempt[c]
      <4>1. k \in 1 .. attempt[c] - 1
        BY <1>1, <3>1, <3>3 DEF Sends, Pauses, Finishes, Reads, Drops
      <4>2. ended'[c][k] = ended[c][k]
        <5>1. \/ ended'[c] = ended[c]
              \/ \E e \in StatusClasses \cup ErrorClasses :
                    ended'[c] = [ended[c] EXCEPT ![attempt[c]] = e]
          BY <1>1
             DEF Sends, Pauses, Finishes, FinishedBy, Reads, Drops, Retried, StatusClasses,
                 ErrorClasses
        <5>2. ended[c] \in [Attempts -> {"open"} \cup StatusClasses \cup ErrorClasses]
          BY <1>1 DEF TypeOK
        <5>3. QED
          BY <3>1, <3>3, <5>1, <5>2
      <4>3. QED
        BY <4>1, <4>2 DEF IInv, ResendOnlyAfterTransient
    <3>4. QED
      BY <3>2, <3>3
  <2>3. QED
    BY <2>1, <2>2 DEF IInv, ResendOnlyAfterTransient
<1>11. QED
  BY <1>2, <1>3, <1>4, <1>5, <1>6, <1>7, <1>8, <1>9, <1>10 DEF IInv

\* So does an answer of the node.
LEMMA NodeStep ==
    ASSUME IInv, TypeOK', NEW r \in wire, NEW e \in StatusClasses, NodeAnswers(r, e)
    PROVE  IInv'
<1>1. /\ wire' = wire \ {r}
      /\ answered' = answered \cup {[request |-> r, status |-> e]}
      /\ UNCHANGED <<phase, budget, attempt, status, ended, outcome>>
  BY DEF NodeAnswers, local
<1>2. SentBefore' /\ AnsweredOnce'
  BY <1>1 DEF IInv, SentBefore, AnsweredOnce
<1>3. ReadsAnAnswer' /\ OutcomeAtEnd' /\ Spent'
  BY <1>1 DEF IInv, ReadsAnAnswer, OutcomeAtEnd, Spent
<1>4. OutcomeJustified'
  BY <1>1 DEF IInv, OutcomeJustified
<1>5. /\ SleepsAfterTransient' /\ RetryBudget'
      /\ GivesUpOnlyWhenSpent' /\ ResendOnlyAfterTransient'
  BY <1>1
     DEF IInv, SleepsAfterTransient, RetryBudget, GivesUpOnlyWhenSpent, ResendOnlyAfterTransient
<1>6. QED
  BY <1>2, <1>3, <1>4, <1>5 DEF IInv

LEMMA StepIInv == IInv /\ [Next]_vars => IInv'
<1> SUFFICES ASSUME IInv, [Next]_vars PROVE IInv'
  OBVIOUS
<1>1. TypeOK'
  BY TypeStep DEF IInv
<1>2. ASSUME NEW c \in Calls, CallNext(c) PROVE IInv'
  BY <1>1, <1>2, CallStep
<1>3. ASSUME NEW r \in wire, NEW e \in StatusClasses, NodeAnswers(r, e) PROVE IInv'
  BY <1>1, <1>3, NodeStep
<1>4. CASE UNCHANGED vars
  BY <1>1, <1>4
     DEF IInv, vars, local, SentBefore, AnsweredOnce, ReadsAnAnswer, OutcomeAtEnd, Spent,
         SleepsAfterTransient, RetryBudget, OutcomeJustified, GivesUpOnlyWhenSpent,
         ResendOnlyAfterTransient
<1>5. QED
  BY <1>2, <1>3, <1>4 DEF Next

\* The invariant of the loop, from which the theorems below follow.
THEOREM Invariance == Spec => []IInv
  BY InitIInv, StepIInv, PTL DEF Spec

-----------------------------------------------------------------------------
(* The properties.                                                         *)

\* Every variable keeps its type: no request beyond the budget, and the
\* unsigned max_retries never goes below zero.
THEOREM TypeCorrect == Spec => []TypeOK
  BY Invariance, PTL DEF IInv

\* Requests sent and retries left add up to the policy's budget.
THEOREM BudgetKept == Spec => []RetryBudget
  BY Invariance, PTL DEF IInv

\* A success or a response error reports what the node answered to the last
\* request.
THEOREM OutcomesJustified == Spec => []OutcomeJustified
  BY Invariance, PTL DEF IInv

\* A fault that a retry might cure is reported only when no retry is left.
THEOREM NeverGivesUpEarly == Spec => []GivesUpOnlyWhenSpent
  BY Invariance, PTL DEF IInv

\* A request is repeated only behind a transient error or a server error.
THEOREM ResendsJustified == Spec => []ResendOnlyAfterTransient
  BY Invariance, PTL DEF IInv

\* A call that has returned or was dropped sends nothing more.
THEOREM EndedCallsAreSilent == Spec => SilentAfterEnd
<1> DEFINE Silent ==
      \A c \in Calls : phase[c] \in {"finished", "dropped"} =>
          \A k \in Attempts : Request(c, k) \in wire' => Request(c, k) \in wire
<1>1. IInv /\ [Next]_vars => [Silent]_vars
  <2> SUFFICES ASSUME IInv, [Next]_vars PROVE Silent \/ UNCHANGED vars
    OBVIOUS
  <2>1. ASSUME NEW c \in Calls, CallNext(c) PROVE Silent
    <3>1. Sends(c) \/ wire' = wire
      BY <2>1, StepShape DEF IInv, Pauses, Finishes, Reads, Drops
    <3>2. CASE Sends(c)
      <4>1. phase[c] \notin {"finished", "dropped"}
        BY <3>2 DEF Sends, Retried
      <4>2. wire' = wire \cup {Request(c, attempt[c] + 1)}
        BY <3>2 DEF Sends
      <4>3. QED
        BY <4>1, <4>2 DEF Request
    <3>3. QED
      BY <3>1, <3>2
  <2>2. ASSUME NEW r \in wire, NEW e \in StatusClasses, NodeAnswers(r, e) PROVE Silent
    BY <2>2 DEF NodeAnswers
  <2>3. QED
    BY <2>1, <2>2 DEF Next
<1>2. QED
  BY <1>1, Invariance, PTL DEF Spec, SilentAfterEnd

-----------------------------------------------------------------------------
(* The pauses.                                                             *)

\* The backoffs up to the n-th, which a recursive definition is about.
BackoffChain(chain, n) ==
    chain = [i \in 0 .. n |-> IF i = 0 THEN InitialBackoff ELSE 2 * chain[i - 1]]

LEMMA BackoffChainAt ==
  ASSUME NEW n \in Nat, NEW chain, BackoffChain(chain, n)
  PROVE  chain[0] = InitialBackoff /\ \A i \in 1 .. n : chain[i] = 2 * chain[i - 1]
<1> DEFINE link(i) == IF i = 0 THEN InitialBackoff ELSE 2 * chain[i - 1]
<1>1. chain = [i \in 0 .. n |-> link(i)]
  BY DEF BackoffChain
<1> HIDE DEF link
<1>2. \A i \in 0 .. n : chain[i] = link(i)
  BY <1>1
<1>3. link(0) = InitialBackoff /\ \A i \in 1 .. n : link(i) = 2 * chain[i - 1]
  BY DEF link
<1>4. QED
  BY <1>2, <1>3

LEMMA BackoffChainExists == \A n \in Nat : \E chain : BackoffChain(chain, n)
<1> DEFINE S == {n \in Nat : \E chain : BackoffChain(chain, n)}
<1>1. 0 \in S
  <2>1. BackoffChain([i \in 0 .. 0 |-> InitialBackoff], 0)
    BY DEF BackoffChain
  <2>2. QED
    BY <2>1
<1>2. ASSUME NEW n \in Nat, n \in S PROVE n + 1 \in S
  <2>1. PICK chain : BackoffChain(chain, n)
    BY <1>2
  <2>2. chain[0] = InitialBackoff /\ \A i \in 1 .. n : chain[i] = 2 * chain[i - 1]
    BY <2>1, BackoffChainAt
  <2> DEFINE next == 2 * chain[n]
             longer == [i \in 0 .. n + 1 |-> IF i = n + 1 THEN next ELSE chain[i]]
             link(i) == IF i = 0 THEN InitialBackoff ELSE 2 * longer[i - 1]
  <2>3. longer[n + 1] = next /\ \A i \in 0 .. n : longer[i] = chain[i]
    OBVIOUS
  <2>4. longer = [i \in 0 .. n + 1 |-> longer[i]]
    OBVIOUS
  <2> HIDE DEF longer
  <2>5. \A i \in 1 .. n : i - 1 \in 0 .. n /\ longer[i] = 2 * longer[i - 1]
    BY <2>2, <2>3
  <2>6. longer[0] = InitialBackoff
    BY <2>2, <2>3
  <2>7. longer[n + 1] = 2 * longer[n]
    BY <2>3
  <2>8. \A i \in 0 .. n + 1 : longer[i] = link(i)
    BY <2>5, <2>6, <2>7
  <2>9. longer = [i \in 0 .. n + 1 |-> link(i)]
    <3> HIDE DEF link
    <3>1. QED
      BY <2>4, <2>8
  <2>10. BackoffChain(longer, n + 1)
    BY <2>9 DEF BackoffChain
  <2>11. QED
    BY <2>10
<1> HIDE DEF S
<1>3. \A n \in Nat : n \in S
  BY <1>1, <1>2, NatSetInduction
<1>4. QED
  BY <1>3 DEF S

\* What the recursive definition says is so.
LEMMA UnlimitedAt ==
  /\ Unlimited[0] = InitialBackoff
  /\ \A i \in 1 .. MaxRetries : Unlimited[i] = 2 * Unlimited[i - 1]
<1>1. MaxRetries \in Nat
  BY PolicyAssumption
<1>2. BackoffChain(Unlimited, MaxRetries)
  <2>1. Unlimited = CHOOSE chain : BackoffChain(chain, MaxRetries)
    BY Zenon DEF Unlimited, BackoffChain
  <2>2. QED
    BY <1>1, <2>1, BackoffChainExists
<1>3. QED
  BY <1>1, <1>2, BackoffChainAt

LEMMA UnlimitedType == \A i \in 0 .. MaxRetries : Unlimited[i] \in Nat
<1> DEFINE S == {i \in Nat : i \in 0 .. MaxRetries => Unlimited[i] \in Nat}
<1>1. 0 \in S
  BY UnlimitedAt, PolicyAssumption
<1>2. ASSUME NEW i \in Nat, i \in S PROVE i + 1 \in S
  <2>1. CASE i + 1 \in 0 .. MaxRetries
    <3>1. i \in 0 .. MaxRetries /\ i + 1 \in 1 .. MaxRetries /\ (i + 1) - 1 = i
      BY <2>1, PolicyAssumption
    <3>2. Unlimited[i + 1] = 2 * Unlimited[i]
      BY <3>1, UnlimitedAt
    <3>3. QED
      BY <1>2, <3>1, <3>2
  <2>2. QED
    BY <2>1
<1> HIDE DEF S
<1>3. \A i \in Nat : i \in S
  BY <1>1, <1>2, NatSetInduction
<1>4. QED
  BY <1>3, PolicyAssumption DEF S

\* Doubling and saturating every time is doubling, then saturating once.
LEMMA DueDoubles ==
  /\ Due(0) = InitialBackoff
  /\ \A i \in 0 .. MaxRetries - 1 : Due(i + 1) = Doubled(Due(i))
<1>1. Due(0) = InitialBackoff
  BY UnlimitedAt, PolicyAssumption DEF Due
<1>2. ASSUME NEW i \in 0 .. MaxRetries - 1 PROVE Due(i + 1) = Doubled(Due(i))
  <2>1. i + 1 \in 1 .. MaxRetries /\ (i + 1) - 1 = i /\ i \in 0 .. MaxRetries
    BY PolicyAssumption
  <2>2. Unlimited[i + 1] = 2 * Unlimited[i] /\ Unlimited[i] \in Nat
    BY <2>1, UnlimitedAt, UnlimitedType
  <2>3. QED
    BY <2>2, PolicyAssumption DEF Due, Doubled
<1>3. QED
  BY <1>1, <1>2

\* The backoff a call holds is the one due next; a zero backoff stays zero.
BackoffIsDue ==
    \A c \in Calls :
        /\ backoff[c] = Due(MaxRetries - budget[c])
        /\ backoff[c] = 0 <=> InitialBackoff = 0

\* Only a retry touches budget, backoff or pauses.
LEMMA RetriesOnly ==
    ASSUME TypeOK, NEW c \in Calls, CallNext(c)
    PROVE  \/ UNCHANGED <<budget, backoff, pauses>>
           \/ RetryAfter(c) /\ budget[c] > 0
<1>1. ASSUME NEW e, ErrorEnds(c, e)
      PROVE  UNCHANGED <<budget, backoff, pauses>> \/ (RetryAfter(c) /\ budget[c] > 0)
  BY <1>1 DEF ErrorEnds, Finish
<1>2. ASSUME NEW e, StatusEnds(c, e)
      PROVE  UNCHANGED <<budget, backoff, pauses>> \/ (RetryAfter(c) /\ budget[c] > 0)
  BY <1>2 DEF StatusEnds, Finish
<1>3. QED
  BY <1>1, <1>2
     DEF CallNext, Begin, BuildFails, Finish, Progress, SendFails, BodyFails, HeadersArrive,
         BodyArrives, Wake, Drop

LEMMA PausesStep ==
    TypeOK /\ BackoffIsDue /\ PauseSchedule /\ [Next]_vars
        => BackoffIsDue' /\ PauseSchedule'
<1> SUFFICES ASSUME TypeOK, BackoffIsDue, PauseSchedule, [Next]_vars
             PROVE  BackoffIsDue' /\ PauseSchedule'
  OBVIOUS
<1>1. CASE UNCHANGED <<budget, backoff, pauses>>
  BY <1>1 DEF BackoffIsDue, PauseSchedule
<1>2. ASSUME NEW c \in Calls, RetryAfter(c), budget[c] > 0
      PROVE  BackoffIsDue' /\ PauseSchedule'
  <2> DEFINE n == MaxRetries - budget[c]
  <2>1. budget[c] \in 1 .. MaxRetries /\ n \in 0 .. MaxRetries - 1
    BY <1>2, PolicyAssumption DEF TypeOK
  <2>2. /\ budget'[c] = budget[c] - 1 /\ backoff'[c] = Doubled(backoff[c])
        /\ \A d \in Calls \ {c} : budget'[d] = budget[d] /\ backoff'[d] = backoff[d]
    BY <1>2 DEF RetryAfter, TypeOK
  <2>3. MaxRetries - budget'[c] = n + 1
    BY <2>1, <2>2, PolicyAssumption
  <2>4. backoff'[c] = Due(n + 1)
    BY <2>1, <2>2, DueDoubles DEF BackoffIsDue
  <2>5. backoff'[c] = 0 <=> InitialBackoff = 0
    BY <1>2, <2>2, PolicyAssumption DEF BackoffIsDue, Doubled, TypeOK
  <2>6. BackoffIsDue'
    BY <2>2, <2>3, <2>4, <2>5 DEF BackoffIsDue
  <2>7. CASE InitialBackoff = 0
    <3>1. UNCHANGED pauses
      BY <1>2, <2>7 DEF RetryAfter, BackoffIsDue
    <3>2. QED
      BY <2>6, <2>7, <3>1 DEF PauseSchedule
  <2>8. CASE InitialBackoff # 0
    <3>1. pauses' = [pauses EXCEPT ![c] = Append(pauses[c], backoff[c])]
      BY <1>2, <2>8 DEF RetryAfter, BackoffIsDue
    <3>2. pauses[c] \in Seq(1 .. MaxDuration) /\ pauses \in [Calls -> Seq(1 .. MaxDuration)]
      BY DEF TypeOK
    <3>3. /\ \A d \in Calls \ {c} : pauses'[d] = pauses[d]
          /\ pauses'[c] = Append(pauses[c], backoff[c])
      BY <3>1, <3>2
    <3>4. Len(pauses[c]) = n /\ \A i \in 1 .. n : pauses[c][i] = Due(i - 1)
      BY <2>8 DEF PauseSchedule
    <3>5. /\ Len(pauses'[c]) = n + 1 /\ pauses'[c][n + 1] = backoff[c]
          /\ \A i \in 1 .. n : pauses'[c][i] = pauses[c][i]
      BY <2>1, <3>2, <3>3, <3>4
    <3>6. backoff[c] = Due(n)
      BY DEF BackoffIsDue
    <3> HIDE DEF n
    <3>7. \A i \in 1 .. n + 1 : pauses'[c][i] = Due(i - 1)
      BY <2>1, <3>4, <3>5, <3>6
    <3>8. PauseSchedule'
      <4>1. Len(pauses'[c]) = MaxRetries - budget'[c]
        BY <2>3, <3>5
      <4>2. \A i \in 1 .. Len(pauses'[c]) : pauses'[c][i] = Due(i - 1)
        BY <3>5, <3>7
      <4>3. ASSUME NEW d \in Calls, d # c
            PROVE  /\ Len(pauses'[d]) = MaxRetries - budget'[d]
                   /\ \A i \in 1 .. Len(pauses'[d]) : pauses'[d][i] = Due(i - 1)
        <5>1. pauses'[d] = pauses[d] /\ budget'[d] = budget[d]
          BY <2>2, <3>3, <4>3
        <5>2. QED
          BY <2>8, <5>1 DEF PauseSchedule
      <4>4. QED
        BY <2>8, <4>1, <4>2, <4>3, Zenon DEF PauseSchedule
    <3>9. QED
      BY <2>6, <3>8
  <2>9. QED
    BY <2>7, <2>8
<1>3. ASSUME NEW r \in wire, NEW e \in StatusClasses, NodeAnswers(r, e)
      PROVE  UNCHANGED <<budget, backoff, pauses>>
  BY <1>3 DEF NodeAnswers, local
<1>4. QED
  BY <1>1, <1>2, <1>3, RetriesOnly DEF Next, vars, local

\* What is slept is the configured backoff, doubled for every retry and never
\* longer than a duration can be: however long the backoff and the budget are.
THEOREM PausesDouble == Spec => []PauseSchedule
<1>1. Init => BackoffIsDue /\ PauseSchedule
  <2> SUFFICES ASSUME Init PROVE BackoffIsDue /\ PauseSchedule
    OBVIOUS
  <2>1. \A c \in Calls : backoff[c] = InitialBackoff /\ budget[c] = MaxRetries
                         /\ pauses[c] = <<>>
    BY DEF Init
  <2>2. MaxRetries - MaxRetries = 0 /\ Len(<<>>) = 0
    BY PolicyAssumption
  <2>3. BackoffIsDue
    BY <2>1, <2>2, DueDoubles DEF BackoffIsDue
  <2>4. PauseSchedule
    <3> SUFFICES ASSUME NEW c \in Calls
                 PROVE  /\ Len(pauses[c]) = IF InitialBackoff = 0 THEN 0
                                            ELSE MaxRetries - budget[c]
                        /\ \A i \in 1 .. Len(pauses[c]) : pauses[c][i] = Due(i - 1)
      BY DEF PauseSchedule
    <3>1. Len(pauses[c]) = 0 /\ MaxRetries - budget[c] = 0
      BY <2>1, <2>2
    <3>2. 1 .. 0 = {}
      OBVIOUS
    <3>3. QED
      BY <3>1, <3>2
  <2>5. QED
    BY <2>3, <2>4
<1>2. QED
  BY <1>1, PausesStep, TypeCorrect, PTL DEF Spec

-----------------------------------------------------------------------------
(* The loop implements RemoteCall, step by step.                           *)

LEMMA RefinesInit == Init => RC!Init
<1> SUFFICES ASSUME Init PROVE RC!Init
  OBVIOUS
<1>1. \A c \in Calls : CallStatus(c) = "idle"
  <2>1. \A c \in Calls : phase[c] = "idle"
    BY DEF Init
  <2>2. ASSUME NEW c \in Calls, phase[c] = "idle" PROVE CallStatus(c) = "idle"
    BY <2>2 DEF CallStatus, Running
  <2>3. QED
    BY <2>1, <2>2
<1>2. \A c \in Calls : Executed(c) = {}
  BY DEF Init, Executed
<1>3. QED
  BY <1>1, <1>2 DEF Init, RC!Init

\* Only the call that steps changes its status and its number of requests.
LEMMA MappingOfOthers ==
    ASSUME NEW c \in Calls, Others(c)
    PROVE  /\ \A d \in Calls \ {c} : CallStatus(d)' = CallStatus(d) /\ attempt'[d] = attempt[d]
           /\ \A d \in Calls : Executed(d)' = Executed(d)
  BY DEF Others, CallStatus, Executed

LEMMA RefinesCallStep ==
    ASSUME IInv, IInv', NEW c \in Calls, CallNext(c)
    PROVE  [RC!Next]_(RC!vars)
<1> DEFINE call == [d \in Calls |-> CallStatus(d)]
           executed == [d \in Calls |-> Executed(d)]
<1>1. /\ TypeOK /\ TypeOK'
      /\ Others(c)
      /\ Sends(c) \/ Pauses(c) \/ Finishes(c) \/ Reads(c) \/ Drops(c)
  BY StepShape DEF IInv
<1>2. executed' = executed
  BY <1>1, MappingOfOthers
<1>3. call' = [call EXCEPT ![c] = CallStatus(c)']
  BY <1>1, MappingOfOthers
<1>4. CASE Sends(c)
  <2>1. attempt' = [attempt EXCEPT ![c] = attempt[c] + 1]
    BY <1>1, <1>4 DEF Sends, Others, TypeOK
  <2>2. CallStatus(c)' = "pending"
    BY <1>4 DEF Sends, CallStatus, Running
  <2>3. CASE phase[c] = "idle"
    <3>1. CallStatus(c) = "idle" /\ attempt[c] = 0
      BY <2>3 DEF CallStatus, IInv, Spent
    <3>2. RC!Invoke(c)
      BY <1>2, <1>3, <2>1, <2>2, <3>1 DEF RC!Invoke
    <3>3. QED
      BY <3>2 DEF RC!Next
  <2>4. CASE phase[c] # "idle"
    <3>1. CallStatus(c) = "pending"
      BY <1>4, <2>4 DEF Sends, Retried, CallStatus, Running
    <3>2. attempt[c] < MaxRetries + 1
      BY <1>1, <2>1, PolicyAssumption DEF TypeOK
    <3>3. call' = call
      BY <1>3, <2>2, <3>1
    <3>4. RC!Reissue(c)
      BY <1>2, <2>1, <3>1, <3>2, <3>3 DEF RC!Reissue
    <3>5. QED
      BY <3>4 DEF RC!Next
  <2>5. QED
    BY <2>3, <2>4
<1>5. CASE Pauses(c) \/ Reads(c)
  <2>1. attempt' = attempt /\ CallStatus(c)' = CallStatus(c)
    BY <1>5 DEF Pauses, Retried, Reads, CallStatus, Running
  <2>2. QED
    BY <1>2, <1>3, <2>1 DEF RC!vars
<1>6. CASE Drops(c)
  <2>1. CallStatus(c) = "pending" /\ CallStatus(c)' = "gone" /\ attempt' = attempt
    BY <1>6 DEF Drops, CallStatus, Running
  <2>2. RC!Abandon(c)
    BY <1>2, <1>3, <2>1 DEF RC!Abandon
  <2>3. QED
    BY <2>2 DEF RC!Next
<1>7. CASE Finishes(c)
  <2>1. attempt' = attempt
    BY <1>7 DEF Finishes
  <2>2. CASE phase[c] = "idle"
    <3>1. CallStatus(c) = "idle" /\ CallStatus(c)' = "refused"
      BY <1>7, <2>2 DEF Finishes, FinishedBy, CallStatus, Running
    <3>2. RC!Refuse(c)
      BY <1>2, <1>3, <2>1, <3>1 DEF RC!Refuse
    <3>3. QED
      BY <3>2 DEF RC!Next
  <2>3. CASE phase[c] # "idle"
    <3>1. CallStatus(c) = "pending"
      BY <1>7, <2>3 DEF Finishes, FinishedBy, CallStatus, Running
    <3>2. CASE outcome'[c] = "ok"
      <4>1. CallStatus(c)' = "ok"
        BY <1>7, <3>2 DEF Finishes, CallStatus, Running
      <4>2. [request |-> Request(c, attempt[c]), status |-> "success"] \in answered
        BY <1>1, <1>7, <2>1, <3>2 DEF IInv, OutcomeJustified, Others, Request
      <4>3. attempt[c] \in Executed(c)
        BY <1>1, <4>2 DEF Executed, TypeOK, Answers, Requests, Request, StatusClasses
      <4>4. RC!ReturnOk(c)
        BY <1>2, <1>3, <2>1, <3>1, <4>1, <4>3 DEF RC!ReturnOk
      <4>5. QED
        BY <4>4 DEF RC!Next, RC!Return
    <3>3. CASE outcome'[c] # "ok"
      <4>1. CallStatus(c)' = "err"
        BY <1>7, <2>3, <3>3 DEF Finishes, FinishedBy, CallStatus, Running, ErrorClasses
      <4>2. RC!ReturnErr(c)
        BY <1>2, <1>3, <2>1, <3>1, <4>1 DEF RC!ReturnErr
      <4>3. QED
        BY <4>2 DEF RC!Next, RC!Return
    <3>4. QED
      BY <3>2, <3>3
  <2>4. QED
    BY <2>2, <2>3
<1>8. QED
  BY <1>1, <1>4, <1>5, <1>6, <1>7

LEMMA RefinesNodeStep ==
    ASSUME IInv, NEW r \in wire, NEW e \in StatusClasses, NodeAnswers(r, e)
    PROVE  [RC!Next]_(RC!vars)
<1> DEFINE c == r.call
           k == r.attempt
           executed == [d \in Calls |-> Executed(d)]
<1>1. r \in Requests
  BY DEF IInv, TypeOK
<1>2. c \in Calls /\ k \in Attempts /\ r = Request(c, k)
  BY <1>1 DEF Requests, Request
<1>3. UNCHANGED <<phase, outcome, attempt>>
  BY DEF NodeAnswers, local
<1>4. k \in 1 .. attempt[c]
  BY <1>2, PolicyAssumption DEF IInv, SentBefore, TypeOK, Attempts
<1>5. k \notin Executed(c)
  BY <1>2 DEF IInv, AnsweredOnce, Executed
<1>6. Executed(c)' = Executed(c) \cup {k}
  BY <1>2 DEF NodeAnswers, Executed, Request
<1>7. ASSUME NEW d \in Calls \ {c}
      PROVE  Executed(d)' = Executed(d)
  <2>1. \A m \in Attempts : Request(d, m) # r
    BY <1>2 DEF Request
  <2>2. \A m \in Attempts, s \in StatusClasses :
          [request |-> Request(d, m), status |-> s] \in answered'
            <=> [request |-> Request(d, m), status |-> s] \in answered
    BY <2>1 DEF NodeAnswers
  <2>3. QED
    BY <2>2 DEF Executed
<1>8. executed' = [executed EXCEPT ![c] = executed[c] \cup {k}]
  BY <1>2, <1>6, <1>7
<1>9. UNCHANGED [d \in Calls |-> CallStatus(d)]
  BY <1>3 DEF CallStatus
<1>10. RC!Execute(c, k)
  BY <1>2, <1>3, <1>4, <1>5, <1>8, <1>9 DEF RC!Execute
<1>11. QED
  BY <1>2, <1>10 DEF RC!Next, Attempts

\* Every behaviour of the loop is, to its caller and the node, a behaviour of
\* RemoteCall (its safety part; the liveness part is model-checked).
THEOREM RefinesRemoteCall == Spec => RC!Init /\ [][RC!Next]_(RC!vars)
<1>1. IInv /\ IInv' /\ [Next]_vars => [RC!Next]_(RC!vars)
  <2> SUFFICES ASSUME IInv, IInv', [Next]_vars PROVE [RC!Next]_(RC!vars)
    OBVIOUS
  <2>1. CASE UNCHANGED vars
    BY <2>1 DEF vars, local, RC!vars, CallStatus, Executed
  <2>2. QED
    BY <2>1, RefinesCallStep, RefinesNodeStep DEF Next
<1>2. QED
  BY <1>1, RefinesInit, Invariance, PTL DEF Spec

=============================================================================
