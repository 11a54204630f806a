--------------------------- MODULE TransactionFlow --------------------------
(***************************************************************************)
(* From a TransactionBuilder to a mined transaction                        *)
(* (crates/aelf-client/src/lib.rs): build_signed with its look-up of a     *)
(* system contract, the one read of the chain status that gives both the   *)
(* number and the prefix of the reference block, send_transaction, and the *)
(* caller who submits the same bytes again or builds anew after an error.  *)
(*                                                                         *)
(* A submission is a call of RemoteCall, so that its requests may reach    *)
(* the node twice, late, or after the caller was told of an error.  Reads  *)
(* have no effect at the node and are one step each: what is returned is   *)
(* the best block of some moment while the read was under way.             *)
(*                                                                         *)
(* The node is external: it accepts a transaction whose reference block is *)
(* on its best chain and not too old, keeps each transaction once, mines   *)
(* it into a later block, and may replace the last block by another.  A    *)
(* transaction is its content, for its id is the hash of its bytes.        *)
(***************************************************************************)
EXTENDS Integers, Sequences, FiniteSets

CONSTANTS
    Intents,      \* what callers want done, each with a payload of its own
    Builders,     \* the fields a builder may have been given
    Labels,       \* hash prefixes: blocks of one height differ in them
    Validity,     \* how many blocks behind its reference block one may mine
    Limit,        \* the most requests of one call, as in RemoteCall
    MaxHeight,    \* bound on the height of the chain
    MaxBuilds,    \* bound on the transactions built for one intent
    MaxSends      \* bound on the submissions made for one intent

ASSUME BuildersAssumption ==
    Builders \subseteq [wallet : BOOLEAN,
                        contract : {"address", "name", "none"},
                        method : BOOLEAN]

ASSUME BoundsAssumption ==
    /\ Validity \in Nat
    /\ Limit \in Nat \ {0}
    /\ MaxHeight \in Nat \ {0}
    /\ MaxBuilds \in Nat
    /\ MaxSends \in Nat

VARIABLES
    chain,        \* the best chain: a sequence of blocks
    pool,         \* transactions the node has accepted and not mined
    accepted,     \* transactions the node ever accepted (history)
    fields,       \* fields[i]: what the builder of the intent was given
    stage,        \* stage[i]: where the intent's builder or submission stands
    snap,         \* snap[i]: the best block the node reported to the read
    asked,        \* asked[i]: the reads made for the intent (history)
    seen,         \* seen[i]: the best blocks since the build began (history)
    tx,           \* tx[i]: the transaction built last
    builds,       \* builds[i]: how many transactions were built
    sends,        \* sends[i]: how many submissions were made
    submitted,    \* submitted[c]: the raw transaction submission c carries
    verdict,      \* verdict[c]: what the node answered to its requests
    call, issued, executed    \* RemoteCall's, one call for each submission

submissions == <<submitted, verdict, call, issued, executed>>

node == <<chain, pool, accepted>>

building == <<fields, stage, snap, asked, tx, builds, sends>>

vars == <<node, seen, building, submissions>>

Submissions == Intents \X (1 .. MaxSends)

RC == INSTANCE RemoteCall WITH Calls <- Submissions

Tip == [height |-> Len(chain), prefix |-> chain[Len(chain)].label]

Tips == [height : 1 .. MaxHeight, prefix : Labels]

NoTip == [height |-> 0, prefix |-> "none"]

Transactions == [intent : Intents, ref : Tips]

NoTx == [intent |-> "none", ref |-> NoTip]

Mined == UNION {chain[h].txs : h \in 1 .. Len(chain)}

ReadStages == {"genesis", "lookupRef", "lookup", "status"}

Stages == {"new", "built", "sending", "failed", "sendFailed", "sent"} \cup ReadStages

TypeOK ==
    /\ chain \in Seq([label : Labels, txs : SUBSET Transactions])
    /\ Len(chain) \in 1 .. MaxHeight
    /\ pool \subseteq accepted
    /\ accepted \subseteq Transactions
    /\ fields \in [Intents -> Builders]
    /\ stage \in [Intents -> Stages]
    /\ snap \in [Intents -> Tips \cup {NoTip}]
    /\ asked \in [Intents -> SUBSET ReadStages]
    /\ seen \in [Intents -> SUBSET Tips]
    /\ tx \in [Intents -> Transactions \cup {NoTx}]
    /\ builds \in [Intents -> 0 .. MaxBuilds]
    /\ sends \in [Intents -> 0 .. MaxSends]
    /\ submitted \in [Submissions -> Transactions \cup {NoTx}]
    /\ verdict \in [Submissions -> SUBSET {"accepted", "rejected"}]
    /\ call \in [Submissions -> RC!Status]
    /\ issued \in [Submissions -> 0 .. Limit]
    /\ executed \in [Submissions -> SUBSET (1 .. Limit)]

Init ==
    /\ \E l \in Labels : chain = <<[label |-> l, txs |-> {}]>>
    /\ pool = {}
    /\ accepted = {}
    /\ fields \in [Intents -> Builders]
    /\ stage = [i \in Intents |-> "new"]
    /\ snap = [i \in Intents |-> NoTip]
    /\ asked = [i \in Intents |-> {}]
    /\ seen = [i \in Intents |-> {}]
    /\ tx = [i \in Intents |-> NoTx]
    /\ builds = [i \in Intents |-> 0]
    /\ sends = [i \in Intents |-> 0]
    /\ submitted = [c \in Submissions |-> NoTx]
    /\ verdict = [c \in Submissions |-> {}]
    /\ RC!Init

-----------------------------------------------------------------------------
(* Building.                                                               *)

\* A read is put to the node; the node has not yet reported to it.
Ask(i, read) ==
    /\ stage' = [stage EXCEPT ![i] = read]
    /\ snap' = [snap EXCEPT ![i] = NoTip]
    /\ asked' = [asked EXCEPT ![i] = @ \cup {read}]

Fail(i) ==
    /\ stage' = [stage EXCEPT ![i] = "failed"]
    /\ UNCHANGED <<snap, asked>>

\* Where build_unsigned goes once it has the address of the contract.
AddressKnown(i) ==
    IF fields[i].method THEN Ask(i, "status") ELSE Fail(i)

\* Mutant of FirstRead: the reference block is read whatever is missing.
FirstReadUnchecked(i) == Ask(i, "status")

\* build_signed asks for the wallet, build_unsigned for the contract: an
\* address is preferred, a name is looked up before the method is asked for.
FirstRead(i) ==
    \/ ~ fields[i].wallet /\ Fail(i)
    \/ /\ fields[i].wallet
       /\ \/ fields[i].contract = "address" /\ AddressKnown(i)
          \/ fields[i].contract = "name" /\ Ask(i, "genesis")
          \/ fields[i].contract = "none" /\ Fail(i)

\* The caller builds a transaction: the first, or anew after an error.
Start(i) ==
    /\ stage[i] \in {"new", "failed", "sendFailed"}
    /\ builds[i] < MaxBuilds
    /\ FirstRead(i)
    /\ seen' = [seen EXCEPT ![i] = {Tip}]
    /\ UNCHANGED <<node, fields, tx, builds, sends, submissions>>

\* The node reports its best block; a retry of the read reports once more.
NodeReports(i) ==
    /\ stage[i] \in ReadStages
    /\ snap[i] # Tip
    /\ snap' = [snap EXCEPT ![i] = Tip]
    /\ UNCHANGED <<node, seen, fields, stage, asked, tx, builds, sends, submissions>>

\* One of the reads of get_contract_address_by_name returns: the status for
\* the genesis address, the status for the reference block of the query, and
\* the query itself, run with the read-only wallet.
LookupReturns(i) ==
    /\ snap[i] # NoTip
    /\ \/ stage[i] = "genesis" /\ Ask(i, "lookupRef")
       \/ stage[i] = "lookupRef" /\ Ask(i, "lookup")
       \/ stage[i] = "lookup" /\ AddressKnown(i)
    /\ UNCHANGED <<node, seen, fields, tx, builds, sends, submissions>>

\* Mutant of RefBlock: the hash comes from a second read of the status.
RefBlockTorn(i) == [height |-> snap[i].height, prefix |-> Tip.prefix]

\* Mutant of RefBlock: the number is that of the block before.
RefBlockBehind(i) == [height |-> snap[i].height - 1, prefix |-> snap[i].prefix]

\* What generate_transaction takes from the status it has read.
RefBlock(i) == snap[i]

\* The status returns: the transaction is made and signed.
Build(i) ==
    /\ stage[i] = "status"
    /\ snap[i] # NoTip
    /\ stage' = [stage EXCEPT ![i] = "built"]
    /\ tx' = [tx EXCEPT ![i] = [intent |-> i, ref |-> RefBlock(i)]]
    /\ builds' = [builds EXCEPT ![i] = @ + 1]
    /\ UNCHANGED <<node, seen, fields, snap, asked, sends, submissions>>

ReadFails(i) ==
    /\ stage[i] \in ReadStages
    /\ Fail(i)
    /\ UNCHANGED <<node, seen, fields, tx, builds, sends, submissions>>

-----------------------------------------------------------------------------
(* Submitting.                                                             *)

\* send_transaction is called with the transaction as it was built: for the
\* first time, or again after an error.
Submit(i) ==
    /\ stage[i] \in {"built", "sendFailed"}
    /\ sends[i] < MaxSends
    /\ stage' = [stage EXCEPT ![i] = "sending"]
    /\ sends' = [sends EXCEPT ![i] = @ + 1]
    /\ LET c == <<i, sends[i] + 1>>
       IN RC!Invoke(c) /\ submitted' = [submitted EXCEPT ![c] = tx[i]]
    /\ UNCHANGED <<node, seen, fields, snap, asked, tx, builds, verdict>>

\* The provider sends the same body again.
Retry(c) ==
    /\ RC!Reissue(c)
    /\ UNCHANGED <<node, seen, building, submitted, verdict>>

Current(c) == stage[c[1]] = "sending" /\ c[2] = sends[c[1]]

\* Mutant of Succeeds: any response with a success status will do.
SucceedsUnread(c) == RC!ReturnOk(c)

\* Only a transaction id counts as success.
Succeeds(c) == RC!ReturnOk(c) /\ "accepted" \in verdict[c]

SendOk(c) ==
    /\ Current(c)
    /\ Succeeds(c)
    /\ stage' = [stage EXCEPT ![c[1]] = "sent"]
    /\ UNCHANGED <<node, seen, fields, snap, asked, tx, builds, sends, submitted, verdict>>

\* An error, or the caller's own timeout.
SendFails(c) ==
    /\ Current(c)
    /\ RC!ReturnErr(c) \/ RC!Abandon(c)
    /\ stage' = [stage EXCEPT ![c[1]] = "sendFailed"]
    /\ UNCHANGED <<node, seen, fields, snap, asked, tx, builds, sends, submitted, verdict>>

-----------------------------------------------------------------------------
(* The node.                                                               *)

Valid(t) ==
    /\ t.ref.height \in 1 .. Len(chain)
    /\ chain[t.ref.height].label = t.ref.prefix
    /\ Len(chain) < t.ref.height + Validity

\* Mutant of Body: every attempt is signed anew for the best block.
BodyRebuilt(c, k) ==
    IF k = 1 THEN submitted[c] ELSE [submitted[c] EXCEPT !.ref = Tip]

\* What request k of a submission carries: the body is encoded once.
Body(c, k) == submitted[c]

\* A request reaches the node, however late.  Of a transaction it knows the
\* node may say either.
NodeTakes(c, k) ==
    LET t == Body(c, k)
        known == t \in pool \cup Mined
    IN /\ RC!Execute(c, k)
       /\ IF Valid(t) /\ ~ known
          THEN /\ pool' = pool \cup {t}
               /\ accepted' = accepted \cup {t}
               /\ verdict' = [verdict EXCEPT ![c] = @ \cup {"accepted"}]
          ELSE /\ \E v \in {"accepted", "rejected"} :
                     /\ v = "accepted" => known
                     /\ verdict' = [verdict EXCEPT ![c] = @ \cup {v}]
               /\ UNCHANGED <<pool, accepted>>
       /\ UNCHANGED <<chain, seen, building, submitted>>

\* The best chain is now `new`, and its last block the best block.
Becomes(new) ==
    /\ chain' = new
    /\ seen' = [i \in Intents |->
                  IF stage[i] \in ReadStages
                  THEN seen[i] \cup {[height |-> Len(new), prefix |-> new[Len(new)].label]}
                  ELSE seen[i]]
    /\ UNCHANGED <<accepted, building, submissions>>

MineBlock ==
    /\ Len(chain) < MaxHeight
    /\ \E l \in Labels, txs \in SUBSET {t \in pool : Valid(t)} :
          /\ Becomes(Append(chain, [label |-> l, txs |-> txs]))
          /\ pool' = pool \ txs

\* Another block takes the place of the last; what that had mined returns to
\* the pool.
Reorganise ==
    LET last == Len(chain)
    IN \E l \in Labels \ {chain[last].label} :
          /\ Becomes([chain EXCEPT ![last] = [label |-> l, txs |-> {}]])
          /\ pool' = pool \cup chain[last].txs

-----------------------------------------------------------------------------
Next ==
    \/ \E i \in Intents :
          Start(i) \/ NodeReports(i) \/ LookupReturns(i) \/ Build(i) \/ ReadFails(i) \/ Submit(i)
    \/ \E c \in Submissions :
          \/ Retry(c) \/ SendOk(c) \/ SendFails(c)
          \/ \E k \in 1 .. Limit : NodeTakes(c, k)
    \/ MineBlock
    \/ Reorganise

Spec == Init /\ [][Next]_vars

-----------------------------------------------------------------------------
(* Safety.                                                                 *)

\* The number and the prefix of the reference block belong to one block, and
\* it was the best block at a moment since the build began, however the chain
\* grows or is reorganised meanwhile (lib.rs 558-568).
RefBlockCoherent ==
    \A i \in Intents : stage[i] = "built" => tx[i].ref \in seen[i]

\* Whoever is told of success has had exactly that transaction accepted by
\* the node, be it by an earlier submission of it (lib.rs 376-402).
OkMeansAccepted ==
    \A c \in Submissions : call[c] = "ok" => submitted[c] \in accepted

\* However often the provider retries and the caller submits again, late
\* requests included, an intent takes effect no more often than transactions
\* were built for it: only building anew can double it.
OneEffectPerBuild ==
    \A i \in Intents : Cardinality({t \in Mined : t.intent = i}) <= builds[i]

\* A builder that lacks its wallet or its contract asks the node nothing, and
\* one that lacks its method never reads a reference block; only a name is
\* looked up, and wholly so before the reference block is read (lib.rs 681-716).
ReadsInOrder ==
    \A i \in Intents :
        /\ asked[i] # {} => fields[i].wallet /\ fields[i].contract # "none"
        /\ "status" \in asked[i] =>
              /\ fields[i].method
              /\ (asked[i] = ReadStages <=> fields[i].contract = "name")

=============================================================================
