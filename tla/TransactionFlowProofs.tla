------------------------ MODULE TransactionFlowProofs -----------------------
(***************************************************************************)
(* What holds of builders, submissions and the chain for any intents, any  *)
(* number of builds, submissions and requests, and any height.             *)
(***************************************************************************)
EXTENDS TransactionFlow, FiniteSetTheorems, SequenceTheorems, TLAPS

\* While a builder reads, one of its builds is left.
BuildLeft == \A i \in Intents : stage[i] \in ReadStages => builds[i] < MaxBuilds

\* The best block, and what the node reported of it, was seen.
BestSeen ==
    \A i \in Intents : stage[i] \in ReadStages =>
        Tip \in seen[i] /\ snap[i] \in seen[i] \cup {NoTip}

\* Where a builder stands tells which reads are behind it, and why it is there.
ReadsMade ==
    \A i \in Intents :
        /\ fields[i].contract # "name" => asked[i] \subseteq {"status"}
        /\ stage[i] \in {"genesis", "lookupRef", "lookup"} =>
              fields[i].contract = "name" /\ "genesis" \in asked[i]
        /\ stage[i] \in {"lookupRef", "lookup"} => "lookupRef" \in asked[i]
        /\ stage[i] = "lookup" => "lookup" \in asked[i]

\* What is to be submitted was built, for the intent it is submitted for.
TxBuilt ==
    \A i \in Intents :
        /\ tx[i] # NoTx => tx[i].intent = i
        /\ stage[i] \in {"built", "sending", "sendFailed", "sent"} => tx[i] # NoTx

\* A submission carries a transaction of its intent, and before it begins the
\* node has said nothing of it.
SubmittedBuilt ==
    \A c \in Submissions :
        /\ call[c] = "idle" => issued[c] = 0 /\ submitted[c] = NoTx /\ verdict[c] = {}
        /\ call[c] # "idle" => submitted[c] # NoTx
        /\ submitted[c] # NoTx => submitted[c].intent = c[1]

\* The node mines what it accepted, and accepts what was submitted.
AcceptedSubmitted ==
    /\ Mined \subseteq accepted
    /\ \A t \in accepted : \E c \in Submissions : submitted[c] = t

\* Only of a transaction it has accepted does the node say so.
VerdictsTrue ==
    \A c \in Submissions : "accepted" \in verdict[c] => submitted[c] \in accepted

\* The transactions of an intent that can still be sent, or were.
Made(i) ==
    ({tx[i]} \cup {submitted[c] : c \in {d \in Submissions : d[1] = i}}) \ {NoTx}

\* There are no more of them than were built.
MadeCounted ==
    \A i \in Intents : IsFiniteSet(Made(i)) /\ Cardinality(Made(i)) <= builds[i]

IInv ==
    /\ TypeOK
    /\ BuildLeft
    /\ BestSeen
    /\ RefBlockCoherent
    /\ ReadsMade
    /\ ReadsInOrder
    /\ TxBuilt
    /\ SubmittedBuilt
    /\ AcceptedSubmitted
    /\ VerdictsTrue
    /\ OkMeansAccepted
    /\ MadeCounted

-----------------------------------------------------------------------------
(* Initially. *)

LEMMA NoTipIsNone == NoTip \notin Tips /\ NoTx \notin Transactions
  BY DEF NoTip, Tips, NoTx, Transactions

LEMMA InitIInv == Init => IInv
<1> SUFFICES ASSUME Init PROVE IInv
  OBVIOUS
<1> USE BuildersAssumption, BoundsAssumption, NoTipIsNone
<1>1. PICK l \in Labels : chain = <<[label |-> l, txs |-> {}]>>
  BY DEF Init
<1>2. Mined = {} /\ Len(chain) = 1
  BY <1>1 DEF Mined
<1>3. TypeOK
  <2>1. chain \in Seq([label : Labels, txs : SUBSET Transactions])
    BY <1>1
  <2>2. QED
    BY <1>2, <2>1 DEF Init, TypeOK, RC!Init, RC!Status, Stages
<1>4. BuildLeft /\ BestSeen /\ RefBlockCoherent /\ ReadsMade /\ ReadsInOrder
  BY DEF Init, BuildLeft, BestSeen, RefBlockCoherent, ReadsMade, ReadsInOrder, ReadStages
<1>5. TxBuilt /\ SubmittedBuilt /\ VerdictsTrue /\ OkMeansAccepted
  BY DEF Init, RC!Init, TxBuilt, SubmittedBuilt, VerdictsTrue, OkMeansAccepted
<1>6. AcceptedSubmitted
  BY <1>2 DEF Init, AcceptedSubmitted
<1>7. MadeCounted
  <2> SUFFICES ASSUME NEW i \in Intents
               PROVE IsFiniteSet(Made(i)) /\ Cardinality(Made(i)) <= builds[i]
    BY DEF MadeCounted
  <2>1. Made(i) = {} /\ builds[i] = 0
    BY DEF Init, Made
  <2>2. QED
    BY <2>1, FS_EmptySet
<1>8. QED
  BY <1>3, <1>4, <1>5, <1>6, <1>7 DEF IInv

-----------------------------------------------------------------------------
(* Types. *)

LEMMA LastElement ==
  ASSUME NEW S, NEW s \in Seq(S), NEW n \in Nat, Len(s) \in 1 .. n
  PROVE  s[Len(s)] \in S
  BY ElementOfSeq, Len(s) \in 1 .. Len(s)

\* The best block is a tip.
LEMMA TipType == TypeOK => Tip \in Tips
<1> SUFFICES ASSUME TypeOK PROVE Tip \in Tips
  OBVIOUS
<1>1. chain[Len(chain)] \in [label : Labels, txs : SUBSET Transactions]
  BY BoundsAssumption, LastElement DEF TypeOK
<1>2. QED
  BY <1>1 DEF TypeOK, Tip, Tips

\* Where a read, or its end, leaves a builder.
LEMMA ReadType ==
  ASSUME TypeOK, NEW i \in Intents, FirstRead(i) \/ Ask(i, "lookupRef")
             \/ Ask(i, "lookup") \/ AddressKnown(i) \/ Fail(i)
  PROVE  /\ stage' \in [Intents -> Stages]
         /\ snap' \in [Intents -> Tips \cup {NoTip}]
         /\ asked' \in [Intents -> SUBSET ReadStages]
<1>1. CASE Fail(i)
  BY <1>1 DEF Fail, TypeOK, Stages
<1>2. ASSUME NEW read \in ReadStages, Ask(i, read)
      PROVE  /\ stage' \in [Intents -> Stages]
             /\ snap' \in [Intents -> Tips \cup {NoTip}]
             /\ asked' \in [Intents -> SUBSET ReadStages]
  BY <1>2 DEF Ask, TypeOK, Stages
<1>3. Fail(i) \/ \E read \in ReadStages : Ask(i, read)
  BY DEF FirstRead, AddressKnown, ReadStages
<1>4. QED
  BY <1>1, <1>2, <1>3

\* A chain of proper blocks and height, with a pool of what the node accepted.
LEMMA ChainGrows ==
  ASSUME TypeOK, NEW new, Becomes(new), Len(new) \in 1 .. MaxHeight,
         new \in Seq([label : Labels, txs : SUBSET Transactions]),
         pool' \subseteq accepted
  PROVE  TypeOK'
<1>1. [height |-> Len(new), prefix |-> new[Len(new)].label] \in Tips
  <2>1. new[Len(new)] \in [label : Labels, txs : SUBSET Transactions]
    BY BoundsAssumption, LastElement
  <2>2. QED
    BY <2>1 DEF Tips
<1>2. seen' \in [Intents -> SUBSET Tips]
  BY <1>1 DEF Becomes, TypeOK
<1>3. QED
  BY <1>2 DEF Becomes, TypeOK, building, submissions

\* The node accepts what a request carries, or answers and changes nothing.
LEMMA NodeAnswers ==
  ASSUME NEW c, NEW k, NodeTakes(c, k)
  PROVE  /\ RC!Execute(c, k)
         /\ \/ /\ pool' = pool \cup {submitted[c]}
               /\ accepted' = accepted \cup {submitted[c]}
               /\ verdict' = [verdict EXCEPT ![c] = @ \cup {"accepted"}]
            \/ /\ \E v \in {"accepted", "rejected"} :
                     /\ v = "accepted" => submitted[c] \in pool \cup Mined
                     /\ verdict' = [verdict EXCEPT ![c] = @ \cup {v}]
               /\ pool' = pool
               /\ accepted' = accepted
         /\ UNCHANGED <<chain, seen, building, submitted>>
<1>1. CASE Valid(submitted[c]) /\ ~ (submitted[c] \in pool \cup Mined)
  BY <1>1, Zenon DEF NodeTakes, Body
<1>2. CASE ~ (Valid(submitted[c]) /\ ~ (submitted[c] \in pool \cup Mined))
  BY <1>2, Zenon DEF NodeTakes, Body
<1>3. QED
  BY <1>1, <1>2

LEMMA TypeStep == IInv /\ [Next]_vars => TypeOK'
<1> SUFFICES ASSUME IInv, TypeOK, [Next]_vars PROVE TypeOK'
  BY DEF IInv
<1> USE BuildersAssumption, BoundsAssumption
<1>1. ASSUME NEW i \in Intents, Start(i) PROVE TypeOK'
  BY <1>1, ReadType, TipType DEF Start, TypeOK, node, submissions
<1>2. ASSUME NEW i \in Intents, NodeReports(i) PROVE TypeOK'
  BY <1>2, TipType DEF NodeReports, TypeOK, node, submissions
<1>3. ASSUME NEW i \in Intents, LookupReturns(i) PROVE TypeOK'
  <2>1. Ask(i, "lookupRef") \/ Ask(i, "lookup") \/ AddressKnown(i)
    BY <1>3 DEF LookupReturns
  <2>2. QED
    BY <1>3, <2>1, ReadType DEF LookupReturns, TypeOK, node, submissions
<1>4. ASSUME NEW i \in Intents, Build(i) PROVE TypeOK'
  <2>1. [intent |-> i, ref |-> snap[i]] \in Transactions
    BY <1>4 DEF Build, TypeOK, Transactions
  <2>2. builds' \in [Intents -> 0 .. MaxBuilds]
    BY <1>4 DEF Build, TypeOK, IInv, BuildLeft, ReadStages
  <2>3. QED
    BY <1>4, <2>1, <2>2 DEF Build, RefBlock, TypeOK, Stages, node, submissions
<1>5. ASSUME NEW i \in Intents, ReadFails(i) PROVE TypeOK'
  BY <1>5, ReadType DEF ReadFails, TypeOK, node, submissions
<1>6. ASSUME NEW i \in Intents, Submit(i) PROVE TypeOK'
  <2>1. sends[i] + 1 \in 1 .. MaxSends
    BY <1>6 DEF Submit, TypeOK
  <2>2. <<i, sends[i] + 1>> \in Submissions
    BY <2>1 DEF Submissions
  <2>3. QED
    BY <1>6, <2>1, <2>2 DEF Submit, RC!Invoke, RC!Status, TypeOK, Stages, node
<1>7. ASSUME NEW c \in Submissions, Retry(c) PROVE TypeOK'
  BY <1>7 DEF Retry, RC!Reissue, TypeOK, node, building
<1>8. ASSUME NEW c \in Submissions, SendOk(c) \/ SendFails(c) PROVE TypeOK'
  BY <1>8 DEF SendOk, SendFails, Succeeds, RC!ReturnOk, RC!ReturnErr, RC!Abandon,
              RC!Status, TypeOK, Stages, node
<1>9. ASSUME NEW c \in Submissions, NEW k \in 1 .. Limit, NodeTakes(c, k) PROVE TypeOK'
  <2>1. submitted[c] \in Transactions
    BY <1>9, NoTipIsNone DEF NodeTakes, RC!Execute, IInv, SubmittedBuilt, TypeOK, RC!Status
  <2>2. executed' \in [Submissions -> SUBSET (1 .. Limit)]
    BY <1>9 DEF NodeTakes, RC!Execute, TypeOK
  <2>3. verdict' \in [Submissions -> SUBSET {"accepted", "rejected"}]
    <3>1. PICK v \in {"accepted", "rejected"} :
              verdict' = [verdict EXCEPT ![c] = @ \cup {v}]
      BY <1>9, NodeAnswers
    <3>2. QED
      BY <3>1 DEF TypeOK
  <2>4. pool' \subseteq accepted' /\ accepted' \subseteq Transactions
    BY <1>9, <2>1, NodeAnswers DEF TypeOK
  <2>5. QED
    BY <1>9, <2>2, <2>3, <2>4, NodeAnswers DEF RC!Execute, TypeOK, building
<1>10. CASE MineBlock
  <2>1. PICK l \in Labels, txs \in SUBSET {t \in pool : Valid(t)} :
            /\ Becomes(Append(chain, [label |-> l, txs |-> txs]))
            /\ pool' = pool \ txs
    BY <1>10 DEF MineBlock
  <2>2. [label |-> l, txs |-> txs] \in [label : Labels, txs : SUBSET Transactions]
    BY DEF TypeOK
  <2>3. Append(chain, [label |-> l, txs |-> txs])
            \in Seq([label : Labels, txs : SUBSET Transactions])
    BY <2>2, AppendProperties DEF TypeOK
  <2>4. Len(Append(chain, [label |-> l, txs |-> txs])) \in 1 .. MaxHeight
    BY <1>10, <2>2, AppendProperties DEF TypeOK, MineBlock
  <2>5. QED
    BY <2>1, <2>3, <2>4, ChainGrows DEF TypeOK
<1>11. CASE Reorganise
  <2> DEFINE last == Len(chain)
  <2>1. PICK l \in Labels \ {chain[last].label} :
            /\ Becomes([chain EXCEPT ![last] = [label |-> l, txs |-> {}]])
            /\ pool' = pool \cup chain[last].txs
    BY <1>11 DEF Reorganise
  <2>2. last \in 1 .. Len(chain)
    BY DEF TypeOK
  <2>3. /\ [chain EXCEPT ![last] = [label |-> l, txs |-> {}]]
              \in Seq([label : Labels, txs : SUBSET Transactions])
        /\ Len([chain EXCEPT ![last] = [label |-> l, txs |-> {}]]) = Len(chain)
    BY <2>2, ExceptSeq, [label |-> l, txs |-> {}] \in [label : Labels, txs : SUBSET Transactions]
       DEF TypeOK
  <2>4. pool' \subseteq accepted
    <3>1. chain[last].txs \subseteq Mined
      BY <2>2 DEF Mined
    <3>2. QED
      BY <2>1, <3>1 DEF IInv, AcceptedSubmitted, TypeOK
  <2>5. QED
    BY <2>1, <2>3, <2>4, ChainGrows DEF TypeOK
<1>12. CASE UNCHANGED vars
  BY <1>12 DEF vars, node, building, submissions, TypeOK
<1>13. QED
  BY <1>1, <1>2, <1>3, <1>4, <1>5, <1>6, <1>7, <1>8, <1>9, <1>10, <1>11, <1>12 DEF Next

-----------------------------------------------------------------------------
(* Building. *)

\* A block mined, or put in the place of the last: the builders that read have
\* the new best block before them, and all that is mined was accepted.
LEMMA ChainMoves ==
  ASSUME TypeOK, AcceptedSubmitted, MineBlock \/ Reorganise
  PROVE  /\ UNCHANGED <<accepted, building, submissions>>
         /\ seen' = [i \in Intents |->
                       IF stage[i] \in ReadStages THEN seen[i] \cup {Tip'} ELSE seen[i]]
         /\ Mined' \subseteq accepted
<1>1. CASE MineBlock
  <2>1. PICK l \in Labels, txs \in SUBSET {t \in pool : Valid(t)} :
            Becomes(Append(chain, [label |-> l, txs |-> txs]))
    BY <1>1 DEF MineBlock
  <2> DEFINE block == [label |-> l, txs |-> txs]
  <2>2. /\ Len(chain') = Len(chain) + 1
        /\ \A h \in 1 .. Len(chain) : chain'[h] = chain[h]
        /\ chain'[Len(chain) + 1] = block
    BY <2>1, AppendProperties, block \in [label : Labels, txs : SUBSET Transactions]
       DEF Becomes, TypeOK
  <2>3. \A h \in 1 .. Len(chain') : chain'[h].txs \subseteq accepted
    <3> SUFFICES ASSUME NEW h \in 1 .. Len(chain') PROVE chain'[h].txs \subseteq accepted
      OBVIOUS
    <3>1. CASE h \in 1 .. Len(chain)
      BY <2>2, <3>1 DEF AcceptedSubmitted, Mined
    <3>2. CASE h = Len(chain) + 1
      BY <2>2, <3>2 DEF TypeOK
    <3>3. QED
      BY <2>2, <3>1, <3>2 DEF TypeOK
  <2>4. QED
    BY <2>1, <2>3 DEF Becomes, Mined, Tip
<1>2. CASE Reorganise
  <2> DEFINE last == Len(chain)
  <2>1. PICK l \in Labels : Becomes([chain EXCEPT ![last] = [label |-> l, txs |-> {}]])
    BY <1>2 DEF Reorganise
  <2>2. /\ Len(chain') = Len(chain)
        /\ \A h \in 1 .. Len(chain) :
              chain'[h] = IF h = last THEN [label |-> l, txs |-> {}] ELSE chain[h]
    BY <2>1, ExceptSeq, [label |-> l, txs |-> {}] \in [label : Labels, txs : SUBSET Transactions]
       DEF Becomes, TypeOK
  <2>3. \A h \in 1 .. Len(chain') : chain'[h].txs \subseteq accepted
    BY <2>2 DEF AcceptedSubmitted, Mined
  <2>4. QED
    BY <2>1, <2>3 DEF Becomes, Mined, Tip
<1>3. QED
  BY <1>1, <1>2

\* What is reported, or was reported and used, is a best block of the build.
LEMMA BlocksStep == IInv /\ [Next]_vars => BuildLeft' /\ BestSeen' /\ RefBlockCoherent'
<1> SUFFICES ASSUME IInv, TypeOK, BuildLeft, BestSeen, RefBlockCoherent, AcceptedSubmitted,
                    [Next]_vars
             PROVE  BuildLeft' /\ BestSeen' /\ RefBlockCoherent'
  BY DEF IInv
<1> USE DEF BuildLeft, BestSeen, RefBlockCoherent
<1>1. ASSUME UNCHANGED chain PROVE Tip' = Tip
  BY <1>1 DEF Tip
<1>2. ASSUME NEW i \in Intents, Start(i) PROVE BuildLeft' /\ BestSeen' /\ RefBlockCoherent'
  <2>1. stage'[i] # "built" /\ snap'[i] \in {snap[i], NoTip}
    BY <1>2 DEF Start, FirstRead, AddressKnown, Ask, Fail, TypeOK
  <2>2. snap'[i] = NoTip \/ stage'[i] \notin ReadStages
    BY <1>2 DEF Start, FirstRead, AddressKnown, Ask, Fail, TypeOK, ReadStages
  <2>3. \A j \in Intents \ {i} : stage'[j] = stage[j] /\ snap'[j] = snap[j]
    BY <1>2 DEF Start, FirstRead, AddressKnown, Ask, Fail, TypeOK
  <2>4. QED
    BY <1>1, <1>2, <2>1, <2>2, <2>3 DEF Start, TypeOK, node
<1>3. ASSUME NEW i \in Intents, NodeReports(i)
      PROVE  BuildLeft' /\ BestSeen' /\ RefBlockCoherent'
  BY <1>1, <1>3 DEF NodeReports, TypeOK, node
<1>4. ASSUME NEW i \in Intents, LookupReturns(i) \/ ReadFails(i)
      PROVE  BuildLeft' /\ BestSeen' /\ RefBlockCoherent'
  <2>1. stage'[i] # "built" /\ (snap'[i] = NoTip \/ stage'[i] \notin ReadStages)
    BY <1>4 DEF LookupReturns, ReadFails, AddressKnown, Ask, Fail, TypeOK, ReadStages
  <2>2. \A j \in Intents \ {i} : stage'[j] = stage[j] /\ snap'[j] = snap[j]
    BY <1>4 DEF LookupReturns, ReadFails, AddressKnown, Ask, Fail, TypeOK
  <2>3. stage[i] \in ReadStages
    BY <1>4 DEF LookupReturns, ReadFails, ReadStages
  <2>4. UNCHANGED <<node, seen, tx, builds>>
    BY <1>4 DEF LookupReturns, ReadFails
  <2>5. QED
    BY <1>1, <2>1, <2>2, <2>3, <2>4 DEF node
<1>5. ASSUME NEW i \in Intents, Build(i) PROVE BuildLeft' /\ BestSeen' /\ RefBlockCoherent'
  <2>1. snap[i] \in seen[i] /\ tx'[i].ref = snap[i] /\ stage'[i] = "built"
    BY <1>5 DEF Build, RefBlock, TypeOK, ReadStages
  <2>2. \A j \in Intents \ {i} : /\ stage'[j] = stage[j] /\ tx'[j] = tx[j]
                                 /\ builds'[j] = builds[j]
    BY <1>5 DEF Build, TypeOK
  <2>3. QED
    BY <1>1, <1>5, <2>1, <2>2 DEF Build, node, ReadStages
<1>6. ASSUME NEW i \in Intents, Submit(i) PROVE BuildLeft' /\ BestSeen' /\ RefBlockCoherent'
  BY <1>1, <1>6 DEF Submit, TypeOK, node, ReadStages
<1>7. ASSUME NEW c \in Submissions, Retry(c) PROVE BuildLeft' /\ BestSeen' /\ RefBlockCoherent'
  BY <1>1, <1>7 DEF Retry, node, building
<1>8. ASSUME NEW c \in Submissions, SendOk(c) \/ SendFails(c)
      PROVE  BuildLeft' /\ BestSeen' /\ RefBlockCoherent'
  <2>1. \A j \in Intents : stage'[j] = stage[j] \/ stage'[j] \in {"sent", "sendFailed"}
    BY <1>8 DEF SendOk, SendFails, TypeOK
  <2>2. UNCHANGED <<node, seen, snap, tx, builds>>
    BY <1>8 DEF SendOk, SendFails
  <2>3. QED
    BY <1>1, <2>1, <2>2 DEF node, ReadStages
<1>9. ASSUME NEW c \in Submissions, NEW k, NodeTakes(c, k)
      PROVE  BuildLeft' /\ BestSeen' /\ RefBlockCoherent'
  BY <1>1, <1>9, NodeAnswers DEF building
<1>10. ASSUME MineBlock \/ Reorganise PROVE BuildLeft' /\ BestSeen' /\ RefBlockCoherent'
  BY <1>10, ChainMoves DEF building, ReadStages
<1>11. CASE UNCHANGED vars
  BY <1>1, <1>11 DEF vars, node, building
<1>12. QED
  BY <1>2, <1>3, <1>4, <1>5, <1>6, <1>7, <1>8, <1>9, <1>10, <1>11 DEF Next

\* The reads come in the order of build_unsigned, and none is left out.
LEMMA ReadsStep == IInv /\ [Next]_vars => ReadsMade' /\ ReadsInOrder'
<1> SUFFICES ASSUME TypeOK, ReadsMade, ReadsInOrder, AcceptedSubmitted, [Next]_vars
             PROVE  ReadsMade' /\ ReadsInOrder'
  BY DEF IInv
<1> DEFINE Moved(i) ==
      /\ fields' = fields
      /\ \A j \in Intents \ {i} : stage'[j] = stage[j] /\ asked'[j] = asked[j]
      /\ \/ stage'[i] \notin ReadStages /\ asked'[i] = asked[i]
         \/ stage'[i] = "status" /\ asked'[i] = asked[i] \cup {"status"} /\ fields[i].method
            /\ fields[i].wallet
            /\ \/ fields[i].contract = "address"
               \/ fields[i].contract = "name" /\ stage[i] = "lookup"
         \/ stage'[i] = "genesis" /\ asked'[i] = asked[i] \cup {"genesis"}
            /\ fields[i].wallet /\ fields[i].contract = "name"
         \/ stage'[i] = "lookupRef" /\ asked'[i] = asked[i] \cup {"lookupRef"}
            /\ stage[i] = "genesis"
         \/ stage'[i] = "lookup" /\ asked'[i] = asked[i] \cup {"lookup"}
            /\ stage[i] = "lookupRef"
<1>1. ASSUME NEW i \in Intents, Start(i) \/ LookupReturns(i) \/ ReadFails(i) PROVE Moved(i)
  <2>1. CASE Start(i)
    BY <2>1 DEF Start, FirstRead, AddressKnown, Ask, Fail, TypeOK, ReadStages
  <2>2. CASE LookupReturns(i)
    <3>1. stage[i] \in ReadStages /\ asked[i] # {} /\ fields[i].wallet
      BY <2>2 DEF LookupReturns, ReadsMade, ReadsInOrder, ReadStages
    <3>2. QED
      BY <2>2, <3>1 DEF LookupReturns, AddressKnown, Ask, Fail, TypeOK, ReadStages, ReadsMade
  <2>3. CASE ReadFails(i)
    BY <2>3 DEF ReadFails, Fail, TypeOK, ReadStages
  <2>4. QED
    BY <1>1, <2>1, <2>2, <2>3
<1>2. ASSUME NEW i \in Intents, Moved(i) PROVE ReadsMade' /\ ReadsInOrder'
  <2>1. asked[i] \subseteq ReadStages
    BY DEF TypeOK
  <2>2. /\ fields' = fields
        /\ \A j \in Intents \ {i} : stage'[j] = stage[j] /\ asked'[j] = asked[j]
    BY <1>2
  <2>3. CASE stage'[i] \notin ReadStages /\ asked'[i] = asked[i]
    BY <2>2, <2>3 DEF ReadsMade, ReadsInOrder, ReadStages
  <2>4. CASE stage'[i] = "status"
    BY <1>2, <2>1, <2>2, <2>4 DEF ReadsMade, ReadsInOrder, ReadStages
  <2>5. CASE stage'[i] = "genesis"
    BY <1>2, <2>1, <2>2, <2>5 DEF ReadsMade, ReadsInOrder, ReadStages
  <2>6. CASE stage'[i] = "lookupRef"
    BY <1>2, <2>1, <2>2, <2>6 DEF ReadsMade, ReadsInOrder, ReadStages
  <2>7. CASE stage'[i] = "lookup"
    BY <1>2, <2>1, <2>2, <2>7 DEF ReadsMade, ReadsInOrder, ReadStages
  <2>8. QED
    BY <1>2, <2>3, <2>4, <2>5, <2>6, <2>7
<1> HIDE DEF Moved
<1>3. ASSUME UNCHANGED <<fields, asked>>,
             \A j \in Intents : stage'[j] = stage[j] \/ stage'[j] \notin ReadStages
      PROVE  ReadsMade' /\ ReadsInOrder'
  BY <1>3 DEF ReadsMade, ReadsInOrder, ReadStages
<1>4. ASSUME NEW i \in Intents, NodeReports(i) \/ Build(i) \/ Submit(i)
      PROVE  ReadsMade' /\ ReadsInOrder'
  BY <1>3, <1>4 DEF NodeReports, Build, Submit, TypeOK, ReadStages
<1>5. ASSUME NEW c \in Submissions, Retry(c) \/ SendOk(c) \/ SendFails(c)
      PROVE  ReadsMade' /\ ReadsInOrder'
  BY <1>3, <1>5 DEF Retry, SendOk, SendFails, building, TypeOK, ReadStages
<1>6. ASSUME NEW c \in Submissions, NEW k, NodeTakes(c, k) PROVE ReadsMade' /\ ReadsInOrder'
  BY <1>3, <1>6, NodeAnswers DEF building
<1>7. ASSUME MineBlock \/ Reorganise PROVE ReadsMade' /\ ReadsInOrder'
  BY <1>3, <1>7, ChainMoves DEF building
<1>8. CASE UNCHANGED vars
  BY <1>3, <1>8 DEF vars, building
<1>9. QED
  BY <1>1, <1>2, <1>4, <1>5, <1>6, <1>7, <1>8 DEF Next

-----------------------------------------------------------------------------
(* Submitting. *)

\* A submission that begins has not been used, and carries what was built.
LEMMA SubmitsBuilt ==
  ASSUME TypeOK, TxBuilt, SubmittedBuilt, NEW i \in Intents, Submit(i)
  PROVE  \E c \in Submissions :
            /\ c[1] = i
            /\ call[c] = "idle" /\ submitted[c] = NoTx /\ verdict[c] = {}
            /\ call' = [call EXCEPT ![c] = "pending"]
            /\ submitted' = [submitted EXCEPT ![c] = tx[i]]
            /\ tx[i] # NoTx /\ tx[i].intent = i
<1> DEFINE c == <<i, sends[i] + 1>>
<1>1. c \in Submissions
  BY BoundsAssumption DEF Submit, TypeOK, Submissions
<1>2. call[c] = "idle" /\ call' = [call EXCEPT ![c] = "pending"]
  BY DEF Submit, RC!Invoke
<1>3. tx[i] # NoTx /\ tx[i].intent = i
  BY DEF Submit, TxBuilt
<1>4. QED
  BY <1>1, <1>2, <1>3 DEF Submit, SubmittedBuilt

\* What the steps other than a submission do to the calls.
LEMMA CallsMove ==
  ASSUME TypeOK, NEW c \in Submissions, Retry(c) \/ SendOk(c) \/ SendFails(c)
  PROVE  /\ UNCHANGED <<node, seen, snap, asked, tx, builds, sends, submitted, verdict>>
         /\ call[c] = "pending" /\ \A d \in Submissions : (call'[d] = "idle") = (call[d] = "idle")
         /\ \A d \in Submissions \ {c} : issued'[d] = issued[d] /\ call'[d] = call[d]
         /\ call'[c] = "ok" => "accepted" \in verdict[c]
         /\ \A i \in Intents : stage'[i] \in {stage[i], "sent", "sendFailed"}
         /\ stage'[c[1]] = stage[c[1]] \/ stage[c[1]] = "sending"
<1>1. CASE Retry(c)
  BY <1>1 DEF Retry, RC!Reissue, building, TypeOK
<1>2. CASE SendOk(c)
  BY <1>2 DEF SendOk, Succeeds, Current, RC!ReturnOk, TypeOK
<1>3. CASE SendFails(c)
  BY <1>3 DEF SendFails, Current, RC!ReturnErr, RC!Abandon, TypeOK
<1>4. QED
  BY <1>1, <1>2, <1>3

\* What a builder hands over, and a submission carries, is of its intent.
LEMMA SubmittedStep == IInv /\ [Next]_vars => TxBuilt' /\ SubmittedBuilt'
<1> SUFFICES ASSUME TypeOK, TxBuilt, SubmittedBuilt, AcceptedSubmitted, [Next]_vars
             PROVE  TxBuilt' /\ SubmittedBuilt'
  BY DEF IInv
<1> USE DEF TxBuilt, SubmittedBuilt
<1>1. ASSUME NEW i \in Intents,
             Start(i) \/ NodeReports(i) \/ LookupReturns(i) \/ ReadFails(i)
      PROVE  TxBuilt' /\ SubmittedBuilt'
  <2>1. UNCHANGED <<tx, submissions>>
    BY <1>1 DEF Start, NodeReports, LookupReturns, ReadFails
  <2>2. \A j \in Intents :
            stage'[j] = stage[j] \/ stage'[j] \in {"failed"} \cup ReadStages
    BY <1>1 DEF Start, NodeReports, LookupReturns, ReadFails, FirstRead, AddressKnown, Ask, Fail,
                ReadStages, TypeOK
  <2>3. QED
    BY <2>1, <2>2 DEF submissions, ReadStages
<1>2. ASSUME NEW i \in Intents, Build(i) PROVE TxBuilt' /\ SubmittedBuilt'
  <2>1. tx'[i] \in Transactions /\ tx'[i].intent = i
    BY <1>2 DEF Build, RefBlock, TypeOK, Transactions
  <2>2. \A j \in Intents \ {i} : stage'[j] = stage[j] /\ tx'[j] = tx[j]
    BY <1>2 DEF Build, TypeOK
  <2>3. QED
    BY <1>2, <2>1, <2>2, NoTipIsNone DEF Build, submissions
<1>3. ASSUME NEW i \in Intents, Submit(i) PROVE TxBuilt' /\ SubmittedBuilt'
  <2>1. PICK c \in Submissions :
            /\ c[1] = i /\ call[c] = "idle"
            /\ call' = [call EXCEPT ![c] = "pending"]
            /\ submitted' = [submitted EXCEPT ![c] = tx[i]]
            /\ tx[i] # NoTx /\ tx[i].intent = i
    BY <1>3, SubmitsBuilt
  <2>2. c = <<i, sends[i] + 1>>
    BY <1>3, <2>1 DEF Submit, RC!Invoke, TypeOK, RC!Status
  <2>3. \A d \in Submissions \ {c} : /\ call'[d] = call[d] /\ submitted'[d] = submitted[d]
                                     /\ issued'[d] = issued[d] /\ verdict'[d] = verdict[d]
    BY <1>3, <2>1, <2>2 DEF Submit, RC!Invoke, TypeOK
  <2>4. call'[c] = "pending" /\ submitted'[c] = tx[i]
    BY <2>1 DEF TypeOK
  <2>5. SubmittedBuilt'
    BY <2>1, <2>3, <2>4
  <2>6. TxBuilt'
    BY <1>3, <2>1 DEF Submit, TypeOK
  <2>7. QED
    BY <2>5, <2>6
<1>4. ASSUME NEW c \in Submissions, Retry(c) \/ SendOk(c) \/ SendFails(c)
      PROVE  TxBuilt' /\ SubmittedBuilt'
  <2>1. TxBuilt'
    <3>1. UNCHANGED tx /\ \A i \in Intents : stage'[i] # stage[i] => stage[i] = "sending"
      BY <1>4 DEF Retry, SendOk, SendFails, Current, building, TypeOK
    <3>2. QED
      BY <3>1
  <2>2. SubmittedBuilt'
    BY <1>4, CallsMove
  <2>3. QED
    BY <2>1, <2>2
<1>5. ASSUME NEW c \in Submissions, NEW k, NodeTakes(c, k) PROVE TxBuilt' /\ SubmittedBuilt'
  <2>1. UNCHANGED <<stage, tx, submitted, call, issued>> /\ call[c] # "idle"
    BY <1>5, NodeAnswers DEF building, RC!Execute, TypeOK
  <2>2. \A d \in Submissions \ {c} : verdict'[d] = verdict[d]
    BY <1>5, NodeAnswers DEF TypeOK
  <2>3. QED
    BY <2>1, <2>2
<1>6. ASSUME MineBlock \/ Reorganise PROVE TxBuilt' /\ SubmittedBuilt'
  BY <1>6, ChainMoves DEF building, submissions
<1>7. CASE UNCHANGED vars
  BY <1>7 DEF vars, building, submissions
<1>8. QED
  BY <1>1, <1>2, <1>3, <1>4, <1>5, <1>6, <1>7 DEF Next

\* What the node says and mines, and callers hear, is of what it accepted.
LEMMA AcceptedStep ==
  IInv /\ [Next]_vars => AcceptedSubmitted' /\ VerdictsTrue' /\ OkMeansAccepted'
<1> SUFFICES ASSUME TypeOK, TxBuilt, SubmittedBuilt, AcceptedSubmitted, VerdictsTrue,
                    OkMeansAccepted, [Next]_vars
             PROVE  AcceptedSubmitted' /\ VerdictsTrue' /\ OkMeansAccepted'
  BY DEF IInv
<1> USE DEF AcceptedSubmitted, VerdictsTrue, OkMeansAccepted
<1>1. ASSUME UNCHANGED chain PROVE Mined' = Mined
  BY <1>1 DEF Mined
<1>2. ASSUME NEW i \in Intents,
             Start(i) \/ NodeReports(i) \/ LookupReturns(i) \/ Build(i) \/ ReadFails(i)
      PROVE  AcceptedSubmitted' /\ VerdictsTrue' /\ OkMeansAccepted'
  <2>1. UNCHANGED <<node, submissions>>
    BY <1>2 DEF Start, NodeReports, LookupReturns, Build, ReadFails
  <2>2. QED
    BY <1>1, <2>1 DEF node, submissions
<1>3. ASSUME NEW i \in Intents, Submit(i)
      PROVE  AcceptedSubmitted' /\ VerdictsTrue' /\ OkMeansAccepted'
  <2>1. PICK c \in Submissions :
            /\ submitted[c] = NoTx /\ verdict[c] = {}
            /\ call' = [call EXCEPT ![c] = "pending"]
            /\ submitted' = [submitted EXCEPT ![c] = tx[i]]
    BY <1>3, SubmitsBuilt
  <2>2. UNCHANGED <<node, verdict>>
    BY <1>3 DEF Submit
  <2>3. \A d \in Submissions \ {c} : call'[d] = call[d] /\ submitted'[d] = submitted[d]
    BY <2>1 DEF TypeOK
  <2>4. AcceptedSubmitted'
    BY <1>1, <2>1, <2>2, <2>3, NoTipIsNone DEF node, TypeOK
  <2>5. call'[c] # "ok"
    BY <2>1 DEF TypeOK
  <2>6. QED
    BY <2>1, <2>2, <2>3, <2>4, <2>5 DEF node
<1>4. ASSUME NEW c \in Submissions, Retry(c) \/ SendOk(c) \/ SendFails(c)
      PROVE  AcceptedSubmitted' /\ VerdictsTrue' /\ OkMeansAccepted'
  BY <1>1, <1>4, CallsMove DEF node
<1>5. ASSUME NEW c \in Submissions, NEW k, NodeTakes(c, k)
      PROVE  AcceptedSubmitted' /\ VerdictsTrue' /\ OkMeansAccepted'
  <2>1. UNCHANGED <<chain, submitted, call>>
    BY <1>5, NodeAnswers DEF RC!Execute
  <2>2. accepted \subseteq accepted' /\ \A t \in accepted' \ accepted : t = submitted[c]
    BY <1>5, NodeAnswers
  <2>3. \A d \in Submissions \ {c} : verdict'[d] = verdict[d]
    <3>1. PICK v : verdict' = [verdict EXCEPT ![c] = @ \cup {v}]
      BY <1>5, NodeAnswers
    <3>2. verdict \in [Submissions -> SUBSET {"accepted", "rejected"}]
      BY DEF TypeOK
    <3>3. QED
      BY <3>1, <3>2
  <2>4. "accepted" \in verdict'[c] => submitted[c] \in accepted'
    <3>1. submitted[c] \in accepted' \/
              \E v \in {"accepted", "rejected"} :
                  /\ v = "accepted" => submitted[c] \in pool \cup Mined
                  /\ verdict' = [verdict EXCEPT ![c] = @ \cup {v}]
      BY <1>5, NodeAnswers
    <3>2. ASSUME NEW v \in {"accepted", "rejected"},
                 v = "accepted" => submitted[c] \in pool \cup Mined,
                 verdict' = [verdict EXCEPT ![c] = @ \cup {v}],
                 "accepted" \in verdict'[c]
          PROVE  submitted[c] \in accepted'
      <4>1. "accepted" \in verdict[c] \/ v = "accepted"
        BY <3>2 DEF TypeOK
      <4>2. QED
        BY <2>2, <3>2, <4>1 DEF TypeOK
    <3>3. QED
      BY <3>1, <3>2
  <2>5. QED
    BY <1>1, <2>1, <2>2, <2>3, <2>4
<1>6. ASSUME MineBlock \/ Reorganise
      PROVE  AcceptedSubmitted' /\ VerdictsTrue' /\ OkMeansAccepted'
  BY <1>6, ChainMoves DEF submissions
<1>7. CASE UNCHANGED vars
  BY <1>1, <1>7 DEF vars, node, submissions
<1>8. QED
  BY <1>2, <1>3, <1>4, <1>5, <1>6, <1>7 DEF Next

-----------------------------------------------------------------------------
(* Counting. *)

\* Only building adds to what can be sent, and it adds one transaction.
LEMMA MadeStep == IInv /\ [Next]_vars => MadeCounted'
<1> SUFFICES ASSUME IInv, TypeOK, TxBuilt, SubmittedBuilt, AcceptedSubmitted, MadeCounted,
                    [Next]_vars
             PROVE  MadeCounted'
  BY DEF IInv
<1>1. ASSUME NEW j \in Intents, Made(j)' \subseteq Made(j), builds'[j] = builds[j]
      PROVE  IsFiniteSet(Made(j)') /\ Cardinality(Made(j)') <= builds'[j]
  <2>1. IsFiniteSet(Made(j)) /\ Cardinality(Made(j)) <= builds[j]
    BY DEF MadeCounted
  <2>2. IsFiniteSet(Made(j)') /\ Cardinality(Made(j)') <= Cardinality(Made(j))
    BY <1>1, <2>1, FS_Subset
  <2>3. Cardinality(Made(j)) \in Nat /\ Cardinality(Made(j)') \in Nat /\ builds[j] \in Nat
    BY <2>1, <2>2, FS_CardinalityType DEF TypeOK
  <2>4. QED
    BY <1>1, <2>1, <2>2, <2>3
<1>2. ASSUME UNCHANGED <<tx, builds, submitted>> PROVE MadeCounted'
  BY <1>1, <1>2 DEF MadeCounted, Made
<1>3. ASSUME NEW i \in Intents,
             Start(i) \/ NodeReports(i) \/ LookupReturns(i) \/ ReadFails(i)
      PROVE  MadeCounted'
  BY <1>2, <1>3 DEF Start, NodeReports, LookupReturns, ReadFails, submissions
<1>4. ASSUME NEW i \in Intents, Build(i) PROVE MadeCounted'
  <2>1. ASSUME NEW j \in Intents, j # i
        PROVE  IsFiniteSet(Made(j)') /\ Cardinality(Made(j)') <= builds'[j]
    <3>1. tx'[j] = tx[j] /\ builds'[j] = builds[j] /\ submitted' = submitted
      BY <1>4, <2>1 DEF Build, TypeOK, submissions
    <3>2. Made(j)' = Made(j)
      BY <3>1 DEF Made
    <3>3. QED
      BY <1>1, <3>1, <3>2
  <2>2. IsFiniteSet(Made(i)') /\ Cardinality(Made(i)') <= builds'[i]
    <3>1. submitted' = submitted /\ builds'[i] = builds[i] + 1
      BY <1>4 DEF Build, TypeOK, submissions
    <3>2. Made(i)' \subseteq Made(i) \cup {tx'[i]}
      BY <3>1 DEF Made
    <3>3. IsFiniteSet(Made(i)) /\ Cardinality(Made(i)) <= builds[i]
      BY DEF MadeCounted
    <3>4. /\ IsFiniteSet(Made(i) \cup {tx'[i]})
          /\ Cardinality(Made(i) \cup {tx'[i]}) <= Cardinality(Made(i)) + 1
      BY <3>3, FS_AddElement, FS_CardinalityType
    <3>5. IsFiniteSet(Made(i)') /\ Cardinality(Made(i)') <= Cardinality(Made(i) \cup {tx'[i]})
      BY <3>2, <3>4, FS_Subset
    <3>6. /\ Cardinality(Made(i)) \in Nat /\ Cardinality(Made(i)') \in Nat /\ builds[i] \in Nat
          /\ Cardinality(Made(i) \cup {tx'[i]}) \in Nat
      BY <3>3, <3>4, <3>5, FS_CardinalityType DEF TypeOK
    <3>7. QED
      BY <3>1, <3>3, <3>4, <3>5, <3>6
  <2>3. QED
    BY <2>1, <2>2 DEF MadeCounted
<1>5. ASSUME NEW i \in Intents, Submit(i) PROVE MadeCounted'
  <2>1. PICK c \in Submissions :
            /\ c[1] = i /\ submitted[c] = NoTx
            /\ submitted' = [submitted EXCEPT ![c] = tx[i]]
    BY <1>5, SubmitsBuilt
  <2>2. UNCHANGED <<tx, builds>>
    BY <1>5 DEF Submit
  <2>3. \A d \in Submissions : submitted'[d] = IF d = c THEN tx[i] ELSE submitted[d]
    BY <2>1 DEF TypeOK
  <2>4. \A j \in Intents : Made(j)' \subseteq Made(j)
    BY <2>1, <2>2, <2>3 DEF Made
  <2>5. QED
    BY <1>1, <2>2, <2>4 DEF MadeCounted
<1>6. ASSUME NEW c \in Submissions, Retry(c) \/ SendOk(c) \/ SendFails(c) PROVE MadeCounted'
  BY <1>2, <1>6, CallsMove
<1>7. ASSUME NEW c \in Submissions, NEW k, NodeTakes(c, k) PROVE MadeCounted'
  BY <1>2, <1>7, NodeAnswers DEF building
<1>8. ASSUME MineBlock \/ Reorganise PROVE MadeCounted'
  BY <1>2, <1>8, ChainMoves DEF building, submissions
<1>9. CASE UNCHANGED vars
  BY <1>2, <1>9 DEF vars, building, submissions
<1>10. QED
  BY <1>3, <1>4, <1>5, <1>6, <1>7, <1>8, <1>9 DEF Next

\* What is mined of an intent was made for it.
LEMMA MinedMade ==
  ASSUME TypeOK, SubmittedBuilt, AcceptedSubmitted, NEW i \in Intents
  PROVE  {t \in Mined : t.intent = i} \subseteq Made(i)
<1> SUFFICES ASSUME NEW t \in Mined, t.intent = i PROVE t \in Made(i)
  OBVIOUS
<1>1. PICK c \in Submissions : submitted[c] = t
  BY DEF AcceptedSubmitted
<1>2. t # NoTx
  BY NoTipIsNone DEF AcceptedSubmitted, TypeOK
<1>3. QED
  BY <1>1, <1>2 DEF Made, SubmittedBuilt

LEMMA IInvCounts == IInv => OneEffectPerBuild
<1> SUFFICES ASSUME IInv, NEW i \in Intents
             PROVE  Cardinality({t \in Mined : t.intent = i}) <= builds[i]
  BY DEF OneEffectPerBuild
<1> DEFINE effects == {t \in Mined : t.intent = i}
<1>1. effects \subseteq Made(i)
  BY MinedMade DEF IInv
<1>2. IsFiniteSet(Made(i)) /\ Cardinality(Made(i)) <= builds[i]
  BY DEF IInv, MadeCounted
<1>3. IsFiniteSet(effects) /\ Cardinality(effects) <= Cardinality(Made(i))
  BY <1>1, <1>2, FS_Subset
<1>4. Cardinality(effects) \in Nat /\ Cardinality(Made(i)) \in Nat /\ builds[i] \in Nat
  BY <1>2, <1>3, FS_CardinalityType DEF IInv, TypeOK
<1> HIDE DEF effects
<1>5. Cardinality(effects) <= builds[i]
  BY <1>2, <1>3, <1>4
<1>6. QED
  BY <1>5 DEF effects

-----------------------------------------------------------------------------
LEMMA Invariance == Spec => []IInv
<1>1. Init => IInv
  BY InitIInv
<1>2. IInv /\ [Next]_vars => IInv'
  BY TypeStep, BlocksStep, ReadsStep, SubmittedStep, AcceptedStep, MadeStep DEF IInv
<1>3. QED
  BY <1>1, <1>2, PTL DEF Spec

\* Every part of the state keeps its type.
THEOREM TypeCorrect == Spec => []TypeOK
<1>1. IInv => TypeOK
  BY DEF IInv
<1>2. QED
  BY <1>1, Invariance, PTL

\* Number and prefix of the reference block generate_transaction puts into a
\* transaction are those of one block, which was the best block at a moment
\* of that build, whatever was mined or reorganised while it read.
THEOREM RefBlocksCohere == Spec => []RefBlockCoherent
<1>1. IInv => RefBlockCoherent
  BY DEF IInv
<1>2. QED
  BY <1>1, Invariance, PTL

\* A caller that send_transaction tells of success has had the node accept
\* the very transaction it submitted, over any retries and late requests.
THEOREM SuccessMeansAccepted == Spec => []OkMeansAccepted
<1>1. IInv => OkMeansAccepted
  BY DEF IInv
<1>2. QED
  BY <1>1, Invariance, PTL

\* build_signed and build_unsigned read from the node only what the fields
\* given call for, and read it in their order, failures and new builds included.
THEOREM ReadsStayInOrder == Spec => []ReadsInOrder
<1>1. IInv => ReadsInOrder
  BY DEF IInv
<1>2. QED
  BY <1>1, Invariance, PTL

\* No number of retries, submissions and late requests, and no reorganisation,
\* makes an intent take effect more often than transactions were built for it.
THEOREM EffectsBounded == Spec => []OneEffectPerBuild
<1>1. IInv => OneEffectPerBuild
  BY IInvCounts
<1>2. QED
  BY <1>1, Invariance, PTL

-----------------------------------------------------------------------------
(* Submissions are calls of RemoteCall, step by step.                      *)

LEMMA CallStep == TypeOK /\ [Next]_vars => [RC!Next]_(RC!vars)
<1> SUFFICES ASSUME TypeOK, [Next]_vars
      PROVE  RC!Next \/ UNCHANGED RC!vars
  OBVIOUS
<1>1. ASSUME NEW i \in Intents,
             Start(i) \/ NodeReports(i) \/ LookupReturns(i) \/ Build(i) \/ ReadFails(i)
      PROVE  UNCHANGED RC!vars
  BY <1>1 DEF Start, NodeReports, LookupReturns, Build, ReadFails, submissions, RC!vars
<1>2. ASSUME NEW i \in Intents, Submit(i) PROVE RC!Next
  <2>1. <<i, sends[i] + 1>> \in Submissions
    BY <1>2, BoundsAssumption DEF Submit, TypeOK, Submissions
  <2>2. RC!Invoke(<<i, sends[i] + 1>>)
    BY <1>2 DEF Submit
  <2>3. QED
    BY <2>1, <2>2 DEF RC!Next
<1>3. ASSUME NEW c \in Submissions, Retry(c) PROVE RC!Next
  BY <1>3 DEF Retry, RC!Next
<1>4. ASSUME NEW c \in Submissions, SendOk(c) PROVE RC!Next
  BY <1>4 DEF SendOk, Succeeds, RC!Return, RC!Next
<1>5. ASSUME NEW c \in Submissions, SendFails(c) PROVE RC!Next
  BY <1>5 DEF SendFails, RC!Return, RC!Next
<1>6. ASSUME NEW c \in Submissions, NEW k \in 1 .. Limit, NodeTakes(c, k) PROVE RC!Next
  BY <1>6 DEF NodeTakes, RC!Next
<1>7. CASE MineBlock \/ Reorganise
  BY <1>7 DEF MineBlock, Reorganise, Becomes, submissions, RC!vars
<1>8. CASE UNCHANGED vars
  BY <1>8 DEF vars, submissions, RC!vars
<1>9. QED
  BY <1>1, <1>2, <1>3, <1>4, <1>5, <1>6, <1>7, <1>8 DEF Next

\* The submissions of send_transaction use the transport as RemoteCall, which
\* the HTTP provider implements, lets its callers: one call for each of them,
\* no request before it or after it has returned, no more of them than Limit.
THEOREM SubmissionsAreCalls == Spec => RC!Init /\ [][RC!Next]_(RC!vars)
<1>1. Init => RC!Init
  BY DEF Init
<1>2. QED
  BY <1>1, CallStep, TypeCorrect, PTL DEF Spec

=============================================================================
