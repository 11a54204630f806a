------------------------------- MODULE Codecs -------------------------------
(***************************************************************************)
(* The pure algorithms of NodeReadings, Credentials, JsonForms,            *)
(* TokenAmount and ScryptMix, each on every input of a set: a behaviour    *)
(* picks an algorithm and an input, and an invariant compares what the     *)
(* algorithm gives with what it is to give.                                *)
(***************************************************************************)
EXTENDS NodeReadings, JsonForms, TokenAmount, ScryptMix

CONSTANTS
    Inputs,        \* Inputs[a]: what algorithm a is given
    SortedKeys     \* the keys of JSON objects with block heights, in order

SentResponses == [shape : {"object", "array", "text"}, body : Seq(STRING)]

\* Every hash, and every height a hash may be written under, is a key.  A hash
\* that is a height itself is not written the inverted way: nothing could tell.
KnownHeights(in) ==
    /\ in.map \in [DOMAIN in.map -> Int]
    /\ in.way \in [DOMAIN in.map -> {"number", "text", "inverted"}]
    /\ \A h \in DOMAIN in.map :
          /\ h[1] = "hash" \/ (h[1] = "num" /\ in.way[h] # "inverted")
          /\ {h, <<"num", in.map[h]>>} \subseteq Range(SortedKeys)

FeeLogs == [name : STRING, decodes : BOOLEAN, symbol : STRING, amount : Nat]

PrivateKeyTexts == [prefix : {"", "0x", "0X"}, digits : Seq({0, 1})]

\* Chunks of 2r blocks each, r at least 1.
Chunks(r) == Seq([1 .. 2 * r -> Words])

\* n - 1 is the mask of the numbers below n: n is a power of two.
HasMask(n) == n \in Nat \ {0} /\ \A w \in Words : BitAnd(w, n - 1) = w % n

ASSUME InputsAssumption ==
    /\ SortedKeys \in Seq(Range(SortedKeys))
    /\ \A in \in Inputs.response : in \in SentResponses
    /\ \A in \in Inputs.heights : KnownHeights(in)
    /\ \A logs \in Inputs.fees : logs \in Seq(FeeLogs)
    /\ \A in \in Inputs.key : in[1] \in PrivateKeyTexts
    /\ \A in \in Inputs.json : in[1] \in Types \ {"scalar"} /\ in[2] \in Json[Depth]
    /\ \A in \in Inputs.amount : in[1] \in Amounts /\ in[2] \in Int
    /\ \A in \in Inputs.scrypt :
          /\ in[1] # <<>> /\ HasMask(in[2])
          /\ \E r \in 1 .. Len(in[1][1]) : in[1] \in Chunks(r)

VARIABLE case

None == [of |-> "none"]

Init == case = None

Next ==
    /\ case = None
    /\ \E a \in DOMAIN Inputs : \E in \in Inputs[a] : case' = [of |-> a, in |-> in]

Spec == Init /\ [][Next]_case

-----------------------------------------------------------------------------

\* SameIdInEveryShape: responses to sendTransaction.
TransactionIds == case.of = "response" => SameIdInEveryShape(case.in)

\* HeightsEitherWay: block height maps of the chain status.
BlockHeights ==
    case.of = "heights" => HeightsEitherWay(case.in.map, case.in.way, SortedKeys)

\* FeesAreCharged: fee events of a transaction result.
Fees == case.of = "fees" => FeesAreCharged(case.in)

\* AddressForms: plain and formatted addresses.
AddressTexts ==
    case.of = "address" => AddressForms(case.in[1], case.in[2], case.in[3])

\* AnySpellingSigns: private keys and the signatures made with them.
KeyTextsSign == case.of = "key" => AnySpellingSigns(case.in[1], case.in[2])

\* SameAfterCall: JSON given to a contract call.
JsonThroughCalls == case.of = "json" => SameAfterCall(case.in[1], case.in[2])

\* AmountIsExact: token amounts written with their decimals.
AmountTexts == case.of = "amount" => AmountIsExact(case.in[1], case.in[2])

\* ScryptIsRfc: the second implementation of scrypt.
Scrypt == case.of = "scrypt" => ScryptIsRfc(case.in[1], case.in[2])

=============================================================================
