----------------------------- MODULE RemoteCall -----------------------------
(***************************************************************************)
(* What a caller of the SDK may rely on when it calls                      *)
(* Provider::request_text or Provider::request_json, with the HTTP loop    *)
(* behind it left out: a call puts at most Limit requests on the wire, and *)
(* only while it is pending; each of them takes effect at the node at most *)
(* once, possibly long after the call has ended; a success says that one   *)
(* of them took effect; an error, or a dropped future, says nothing.       *)
(*                                                                         *)
(* HttpProvider implements this module.                                    *)
(***************************************************************************)
EXTENDS Naturals

CONSTANTS
    Calls,    \* the calls of the trait's methods
    Limit     \* the most requests one call may send, at least one

VARIABLES
    call,       \* call[c]: how far the call has come, as its caller sees it
    issued,     \* issued[c]: how many requests it has put on the wire
    executed    \* executed[c]: which of them the node has acted upon

vars == <<call, issued, executed>>

Status == {"idle", "pending", "ok", "err", "refused", "gone"}

Init ==
    /\ call = [c \in Calls |-> "idle"]
    /\ issued = [c \in Calls |-> 0]
    /\ executed = [c \in Calls |-> {}]

\* The caller polls the future for the first time.
Invoke(c) ==
    /\ call[c] = "idle"
    /\ call' = [call EXCEPT ![c] = "pending"]
    /\ issued' = [issued EXCEPT ![c] = 1]
    /\ UNCHANGED executed

\* The request cannot even be built: an error, and nothing is ever sent.
Refuse(c) ==
    /\ call[c] = "idle"
    /\ call' = [call EXCEPT ![c] = "refused"]
    /\ UNCHANGED <<issued, executed>>

\* The call sends its request once more.
Reissue(c) ==
    /\ call[c] = "pending"
    /\ issued[c] < Limit
    /\ issued' = [issued EXCEPT ![c] = @ + 1]
    /\ UNCHANGED <<call, executed>>

\* The node acts on a request, whatever has become of the call meanwhile.
Execute(c, k) ==
    /\ k \in (1 .. issued[c]) \ executed[c]
    /\ executed' = [executed EXCEPT ![c] = @ \cup {k}]
    /\ UNCHANGED <<call, issued>>

ReturnOk(c) ==
    /\ call[c] = "pending"
    /\ executed[c] # {}
    /\ call' = [call EXCEPT ![c] = "ok"]
    /\ UNCHANGED <<issued, executed>>

ReturnErr(c) ==
    /\ call[c] = "pending"
    /\ call' = [call EXCEPT ![c] = "err"]
    /\ UNCHANGED <<issued, executed>>

\* The caller drops the future (a timeout of its own, a select!, an abort).
Abandon(c) ==
    /\ call[c] = "pending"
    /\ call' = [call EXCEPT ![c] = "gone"]
    /\ UNCHANGED <<issued, executed>>

Return(c) == ReturnOk(c) \/ ReturnErr(c)

Next ==
    \E c \in Calls :
        \/ Invoke(c)
        \/ Refuse(c)
        \/ Reissue(c)
        \/ \E k \in 1 .. Limit : Execute(c, k)
        \/ Return(c)
        \/ Abandon(c)

Spec == Init /\ [][Next]_vars /\ \A c \in Calls : WF_vars(Return(c))

=============================================================================
