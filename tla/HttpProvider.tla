---------------------------- MODULE HttpProvider ----------------------------
(***************************************************************************)
(* The request loop of HttpProvider (crates/aelf-client/src/provider.rs):  *)
(* request_text with its retries and its doubling backoff, request_json on *)
(* top of it, the node at the other end and a caller that may drop the     *)
(* future at any await.                                                    *)
(*                                                                         *)
(* An HTTP status is abstracted to its class; the class "client" stands    *)
(* for every status the loop neither accepts nor retries.  An error of     *)
(* reqwest is "transient" when should_retry_error holds of it and          *)
(* "permanent" otherwise.  Durations are numbers, saturating at            *)
(* MaxDuration as Duration::saturating_mul does.                           *)
(***************************************************************************)
EXTENDS Integers, Sequences

CONSTANTS
    Calls,            \* the calls made of one provider
    JsonCalls,        \* those made through request_json
    MaxRetries,       \* RetryPolicy::max_retries
    InitialBackoff,   \* RetryPolicy::initial_backoff
    MaxDuration       \* Duration::MAX

ASSUME CallsAssumption == JsonCalls \subseteq Calls

ASSUME PolicyAssumption ==
    /\ MaxRetries \in Nat
    /\ MaxDuration \in Nat
    /\ InitialBackoff \in 0 .. MaxDuration

VARIABLES
    phase,      \* phase[c]: where request_text is suspended
    budget,     \* budget[c]: the local max_retries
    backoff,    \* backoff[c]: the local initial_backoff
    attempt,    \* attempt[c]: how often the loop body has sent the request
    status,     \* status[c][k]: class of the status line attempt k received
    ended,      \* ended[c][k]: what the loop made of attempt k (history)
    pauses,     \* pauses[c]: the durations slept so far (history)
    outcome,    \* outcome[c]: what the call returned
    wire,       \* requests the node has not answered, lost ones included
    answered    \* what the node answered, and so what it acted upon

local == <<phase, budget, backoff, attempt, status, ended, pauses, outcome>>

vars == <<local, wire, answered>>

Attempts == 1 .. MaxRetries + 1

StatusClasses == {"success", "client", "server"}

ErrorClasses == {"transient", "permanent"}

Running == {"sending", "reading", "sleeping"}

Phases == {"idle", "finished", "dropped"} \cup Running

Outcomes == {"none", "ok", "json", "request", "build"} \cup ErrorClasses

Request(c, k) == [call |-> c, attempt |-> k]

Requests == [call : Calls, attempt : Attempts]

Answers == [request : Requests, status : StatusClasses]

TypeOK ==
    /\ phase \in [Calls -> Phases]
    /\ budget \in [Calls -> 0 .. MaxRetries]
    /\ backoff \in [Calls -> 0 .. MaxDuration]
    /\ attempt \in [Calls -> 0 .. MaxRetries + 1]
    /\ status \in [Calls -> [Attempts -> {"none"} \cup StatusClasses]]
    /\ ended \in [Calls -> [Attempts -> {"open"} \cup StatusClasses \cup ErrorClasses]]
    /\ pauses \in [Calls -> Seq(1 .. MaxDuration)]
    /\ outcome \in [Calls -> Outcomes]
    /\ wire \subseteq Requests
    /\ answered \subseteq Answers

Init ==
    /\ phase = [c \in Calls |-> "idle"]
    /\ budget = [c \in Calls |-> MaxRetries]
    /\ backoff = [c \in Calls |-> InitialBackoff]
    /\ attempt = [c \in Calls |-> 0]
    /\ status = [c \in Calls |-> [k \in Attempts |-> "none"]]
    /\ ended = [c \in Calls |-> [k \in Attempts |-> "open"]]
    /\ pauses = [c \in Calls |-> <<>>]
    /\ outcome = [c \in Calls |-> "none"]
    /\ wire = {}
    /\ answered = {}

-----------------------------------------------------------------------------
(* The steps of the loop.                                                  *)

\* build_request, then request.send() is polled.
Send(c) ==
    /\ phase' = [phase EXCEPT ![c] = "sending"]
    /\ attempt' = [attempt EXCEPT ![c] = @ + 1]
    /\ wire' = wire \cup {Request(c, attempt[c] + 1)}

Finish(c, result) ==
    /\ phase' = [phase EXCEPT ![c] = "finished"]
    /\ outcome' = [outcome EXCEPT ![c] = result]
    /\ UNCHANGED <<budget, backoff, attempt, pauses, wire>>

Doubled(duration) ==
    IF 2 * duration > MaxDuration THEN MaxDuration ELSE 2 * duration

\* Mutant of RetryAfter: the retry is not paid for.
RetryAfterFree(c) ==
    /\ IF backoff[c] = 0
       THEN Send(c) /\ UNCHANGED pauses
       ELSE /\ phase' = [phase EXCEPT ![c] = "sleeping"]
            /\ pauses' = [pauses EXCEPT ![c] = Append(@, backoff[c])]
            /\ UNCHANGED <<attempt, wire>>
    /\ UNCHANGED <<budget, backoff, outcome>>

\* Mutant of RetryAfter: the backoff is doubled before it is slept.
RetryAfterDoubledFirst(c) ==
    /\ budget' = [budget EXCEPT ![c] = @ - 1]
    /\ backoff' = [backoff EXCEPT ![c] = Doubled(@)]
    /\ phase' = [phase EXCEPT ![c] = "sleeping"]
    /\ pauses' = [pauses EXCEPT ![c] = Append(@, Doubled(backoff[c]))]
    /\ UNCHANGED <<attempt, wire, outcome>>

\* retry_after and the `continue` behind it: a zero backoff does not sleep,
\* so the next request leaves in the same step.
RetryAfter(c) ==
    /\ budget' = [budget EXCEPT ![c] = @ - 1]
    /\ backoff' = [backoff EXCEPT ![c] = Doubled(@)]
    /\ IF backoff[c] = 0
       THEN Send(c) /\ UNCHANGED pauses
       ELSE /\ phase' = [phase EXCEPT ![c] = "sleeping"]
            /\ pauses' = [pauses EXCEPT ![c] = Append(@, backoff[c])]
            /\ UNCHANGED <<attempt, wire>>
    /\ UNCHANGED outcome

\* Mutant of ErrorEnds: `max_retries > 0` is forgotten.
ErrorEndsUnguarded(c, class) ==
    /\ ended' = [ended EXCEPT ![c][attempt[c]] = class]
    /\ IF class = "transient" THEN RetryAfter(c) ELSE Finish(c, class)

\* How the loop leaves an attempt that failed with an error of reqwest.
ErrorEnds(c, class) ==
    /\ ended' = [ended EXCEPT ![c][attempt[c]] = class]
    /\ IF budget[c] > 0 /\ class = "transient"
       THEN RetryAfter(c)
       ELSE Finish(c, class)

\* Mutant of StatusEnds: a server error is final.
StatusEndsGivesUp(c, class) ==
    /\ ended' = [ended EXCEPT ![c][attempt[c]] = class]
    /\ Finish(c, IF class = "success" THEN "ok" ELSE "request")

\* Mutant of StatusEnds: should_retry_status holds of client errors too.
StatusEndsRetriesClient(c, class) ==
    /\ ended' = [ended EXCEPT ![c][attempt[c]] = class]
    /\ \/ class = "success" /\ Finish(c, "ok")
       \/ class # "success" /\ budget[c] > 0 /\ RetryAfter(c)
       \/ class # "success" /\ budget[c] = 0 /\ Finish(c, "request")

\* Mutant of StatusEnds: the status is looked at for retries only.
StatusEndsAccepts(c, class) ==
    /\ ended' = [ended EXCEPT ![c][attempt[c]] = class]
    /\ IF class = "server" /\ budget[c] > 0 THEN RetryAfter(c) ELSE Finish(c, "ok")

\* What a call makes of the text of a success: request_json parses it, and
\* the node may have sent what is no JSON.
TextResults(c) == IF c \in JsonCalls THEN {"ok", "json"} ELSE {"ok"}

\* How the loop leaves an attempt whose response has been read to its end.
StatusEnds(c, class) ==
    /\ ended' = [ended EXCEPT ![c][attempt[c]] = class]
    /\ \/ class = "success" /\ \E result \in TextResults(c) : Finish(c, result)
       \/ class = "server" /\ budget[c] > 0 /\ RetryAfter(c)
       \/ class = "server" /\ budget[c] = 0 /\ Finish(c, "request")
       \/ class = "client" /\ Finish(c, "request")

-----------------------------------------------------------------------------
(* The actions of a call.                                                  *)

Begin(c) ==
    /\ phase[c] = "idle"
    /\ Send(c)
    /\ UNCHANGED <<budget, backoff, status, ended, pauses, outcome, answered>>

\* A header or query the builder rejects: send() fails before it sends, with
\* an error that is not retried.
BuildFails(c) ==
    /\ phase[c] = "idle"
    /\ Finish(c, "build")
    /\ UNCHANGED <<status, ended, answered>>

\* Mutant of SendFails: the client has no timeout, so that only a request
\* that was answered can fail.
SendFailsWithoutTimeout(c, class) ==
    /\ phase[c] = "sending"
    /\ Request(c, attempt[c]) \notin wire
    /\ ErrorEnds(c, class)
    /\ UNCHANGED <<status, answered>>

SendFails(c, class) ==
    /\ phase[c] = "sending"
    /\ ErrorEnds(c, class)
    /\ UNCHANGED <<status, answered>>

\* Mutant of HeadersArrive: the response to another request is taken for it.
HeadersArriveMixedUp(c, class) ==
    /\ phase[c] = "sending"
    /\ \E r \in Requests : [request |-> r, status |-> class] \in answered
    /\ phase' = [phase EXCEPT ![c] = "reading"]
    /\ status' = [status EXCEPT ![c][attempt[c]] = class]
    /\ UNCHANGED <<budget, backoff, attempt, ended, pauses, outcome, wire, answered>>

HeadersArrive(c, class) ==
    /\ phase[c] = "sending"
    /\ [request |-> Request(c, attempt[c]), status |-> class] \in answered
    /\ phase' = [phase EXCEPT ![c] = "reading"]
    /\ status' = [status EXCEPT ![c][attempt[c]] = class]
    /\ UNCHANGED <<budget, backoff, attempt, ended, pauses, outcome, wire, answered>>

\* response.text() fails: the status already known is not looked at.
BodyFails(c, class) ==
    /\ phase[c] = "reading"
    /\ ErrorEnds(c, class)
    /\ UNCHANGED <<status, answered>>

BodyArrives(c) ==
    /\ phase[c] = "reading"
    /\ StatusEnds(c, status[c][attempt[c]])
    /\ UNCHANGED <<status, answered>>

\* Mutant of Wake: the retry runs in a task of its own, which survives the
\* future that spawned it.
WakeDetached(c) ==
    /\ phase[c] \in {"sleeping", "dropped"}
    /\ attempt[c] <= MaxRetries
    /\ Send(c)
    /\ UNCHANGED <<budget, backoff, status, ended, pauses, outcome, answered>>

Wake(c) ==
    /\ phase[c] = "sleeping"
    /\ Send(c)
    /\ UNCHANGED <<budget, backoff, status, ended, pauses, outcome, answered>>

\* The caller drops the future at one of its three awaits.
Drop(c) ==
    /\ phase[c] \in Running
    /\ phase' = [phase EXCEPT ![c] = "dropped"]
    /\ UNCHANGED <<budget, backoff, attempt, status, ended, pauses, outcome>>
    /\ UNCHANGED <<wire, answered>>

\* The node acts on a request and answers it.  It knows nothing of timeouts:
\* the call that sent the request may have moved on or ended.
NodeAnswers(r, class) ==
    /\ r \in wire
    /\ wire' = wire \ {r}
    /\ answered' = answered \cup {[request |-> r, status |-> class]}
    /\ UNCHANGED local

\* What goes on without the caller or the node: the per-attempt timeout of
\* the reqwest client fails an attempt that hangs, and a sleep ends.
Progress(c) ==
    \/ \E class \in ErrorClasses : SendFails(c, class) \/ BodyFails(c, class)
    \/ \E class \in StatusClasses : HeadersArrive(c, class)
    \/ BodyArrives(c)
    \/ Wake(c)

CallNext(c) == Begin(c) \/ BuildFails(c) \/ Progress(c) \/ Drop(c)

Next ==
    \/ \E c \in Calls : CallNext(c)
    \/ \E r \in wire, class \in StatusClasses : NodeAnswers(r, class)

Spec == Init /\ [][Next]_vars /\ \A c \in Calls : WF_vars(Progress(c))

-----------------------------------------------------------------------------
(* Safety.                                                                 *)

\* Requests sent and retries left always add up to the configured budget, in
\* every phase: no path through the loop retries for free or pays twice, and
\* the unsigned counter is never decremented at zero (provider.rs 115-120).
RetryBudget ==
    \A c \in Calls :
        /\ phase[c] \in {"sending", "reading"} => attempt[c] + budget[c] = MaxRetries + 1
        /\ phase[c] = "sleeping" => attempt[c] + budget[c] = MaxRetries
        /\ attempt[c] <= MaxRetries + 1

\* A success is the node's word: the last request sent was answered with a
\* success status, and by the node, not by a guess of the loop.  A response
\* error carries a status the node answered with.  (provider.rs 177-191)
OutcomeJustified ==
    \A c \in Calls :
        LET told(class) ==
              [request |-> Request(c, attempt[c]), status |-> class] \in answered
        IN /\ outcome[c] \in {"ok", "json"} => told("success")
           /\ outcome[c] = "request" => told("client") \/ told("server")

\* A call reports a fault that a retry might cure only when its retries are
\* spent (provider.rs 154, 170, 181).
GivesUpOnlyWhenSpent ==
    \A c \in Calls :
        \/ outcome[c] = "transient"
        \/ outcome[c] = "request" /\ ended[c][attempt[c]] = "server"
        => budget[c] = 0

\* A request is sent again only behind an attempt that ended in a transient
\* error or a server error: never behind an answer the caller should have
\* been given (provider.rs 153-184).
ResendOnlyAfterTransient ==
    \A c \in Calls : \A k \in 1 .. attempt[c] - 1 :
        ended[c][k] \in {"transient", "server"}

\* A call that has ended, by returning or by being dropped, never puts
\* another request on the wire, though requests it left there may still be
\* answered (provider.rs 150-193).
SilentAfterEnd ==
    [][\A c \in Calls : phase[c] \in {"finished", "dropped"} =>
          \A k \in Attempts : Request(c, k) \in wire' => Request(c, k) \in wire]_vars

\* The configured backoff doubled i times, were there no longest duration.
Unlimited[i \in 0 .. MaxRetries] ==
    IF i = 0 THEN InitialBackoff ELSE 2 * Unlimited[i - 1]

Due(i) == IF Unlimited[i] > MaxDuration THEN MaxDuration ELSE Unlimited[i]

\* The pauses double from the configured backoff and saturate; a zero backoff
\* never pauses, and otherwise every retry pauses (provider.rs 109-120).
PauseSchedule ==
    \A c \in Calls :
        /\ Len(pauses[c]) = IF InitialBackoff = 0 THEN 0 ELSE MaxRetries - budget[c]
        /\ \A i \in 1 .. Len(pauses[c]) : pauses[c][i] = Due(i - 1)

-----------------------------------------------------------------------------
(* Liveness.                                                               *)

\* Every call returns or is dropped: the loop cannot go on for ever.
EveryCallEnds ==
    \A c \in Calls : phase[c] = "sending" ~> phase[c] \in {"finished", "dropped"}

-----------------------------------------------------------------------------
(* The loop implements RemoteCall.                                         *)

CallStatus(c) ==
    CASE phase[c] = "idle" -> "idle"
      [] phase[c] \in Running -> "pending"
      [] phase[c] = "dropped" -> "gone"
      [] phase[c] = "finished" /\ outcome[c] = "ok" -> "ok"
      [] phase[c] = "finished" /\ outcome[c] = "build" -> "refused"
      [] OTHER -> "err"

Executed(c) ==
    {k \in Attempts : \E s \in StatusClasses :
        [request |-> Request(c, k), status |-> s] \in answered}

RC == INSTANCE RemoteCall WITH
        Limit <- MaxRetries + 1,
        call <- [c \in Calls |-> CallStatus(c)],
        issued <- attempt,
        executed <- [c \in Calls |-> Executed(c)]

\* To its caller the loop is a remote call: a bounded number of requests, all
\* sent while the call is pending, each acted upon at most once, a success
\* only behind one that was, and an end to every call.
ImplementsRemoteCall == RC!Spec

-----------------------------------------------------------------------------
(* What the documentation says of the loop.                                *)

\* README.md: "`4xx` responses are returned immediately without retry."  An
\* attempt that was answered with a client error is the last one.
ClientErrorsAreFinal ==
    \A c \in Calls : \A k \in 1 .. attempt[c] - 1 : status[c][k] # "client"

=============================================================================
