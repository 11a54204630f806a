----------------------------- MODULE NodeReadings ---------------------------
(***************************************************************************)
(* What the client makes of three answers of the node: the response to     *)
(* sendTransaction (crates/aelf-client/src/lib.rs), the block height maps  *)
(* of the chain status and the fee events of a transaction result          *)
(* (crates/aelf-client/src/dto/mod.rs).                                    *)
(***************************************************************************)
EXTENDS Integers, Sequences, SequencesExt

Ok(v) == [ok |-> TRUE, val |-> v]

Err(e) == [ok |-> FALSE, err |-> e]

\* s without the elements that are in S.
Without(s, S) ==
    LET kept[i \in 0 .. Len(s)] ==
            IF i = 0 THEN <<>>
            ELSE IF s[i] \in S THEN kept[i - 1] ELSE Append(kept[i - 1], s[i])
    IN kept[Len(s)]

-----------------------------------------------------------------------------
(* Transaction ids.  A text is a sequence of tokens: "q" a quote, "sp"     *)
(* white space, "esc" a quote escaped in a JSON string, "0x" and "0X", and *)
(* "hex64" and "other" for 64 hexadecimal digits and for anything else.  A *)
(* response is a JSON object with the id, an array of just the id, which   *)
(* serde takes for the object, or some other text.                         *)

Trim(text) ==
    LET solid == {i \in DOMAIN text : text[i] # "sp"}
    IN IF solid = {} THEN <<>> ELSE SubSeq(text, Min(solid), Max(solid))

StripTransactionIdQuotes(text) ==
    LET t == Trim(text)
    IN IF Len(t) >= 2 /\ t[1] = "q" /\ t[Len(t)] = "q"
       THEN SubSeq(t, 2, Len(t) - 1)
       ELSE t

IsValidTransactionId(text) ==
    StripTransactionIdQuotes(text) \in
        {<<"hex64">>, <<"0x", "hex64">>, <<"0X", "hex64">>}

\* Mutant of ValidateTransactionId: the quotes are stripped for the test only.
ValidateUnstripped(text) ==
    IF text = <<>> THEN Err("empty")
    ELSE IF IsValidTransactionId(text) THEN Ok(text)
    ELSE Err("no id")

ValidateTransactionId(text) ==
    LET id == StripTransactionIdQuotes(text)
    IN IF id = <<>> THEN Err("empty")
       ELSE IF IsValidTransactionId(id) THEN Ok(id)
       ELSE Err("no id")

IsJsonString(text) ==
    LET t == Trim(text)
    IN /\ Len(t) >= 2 /\ t[1] = "q" /\ t[Len(t)] = "q"
       /\ \A i \in 2 .. Len(t) - 1 : t[i] # "q"

JsonString(text) ==
    LET inner == StripTransactionIdQuotes(text)
    IN [i \in DOMAIN inner |-> IF inner[i] = "esc" THEN "q" ELSE inner[i]]

SendTransaction(response) ==
    ValidateTransactionId(
        IF response.shape # "text" THEN response.body
        ELSE IF IsJsonString(response.body) THEN JsonString(response.body)
        ELSE response.body)

\* An id is returned only of a response that consists of one, quotes and white
\* space aside; without quotes of its own it comes out the same, and clean,
\* in whichever shape the node wraps it, and so does a refusal.
Solid(text) == Without(text, {"q", "esc", "sp"})

SameIdInEveryShape(response) ==
    LET r == SendTransaction(response)
        body == response.body
        plain == \A i \in DOMAIN body : body[i] \notin {"q", "esc"}
    IN /\ r.ok => /\ IsValidTransactionId(Solid(r.val))
                  /\ Solid(r.val) = Solid(body)
       /\ plain => /\ r = ValidateTransactionId(Trim(body))
                   /\ r = SendTransaction([shape |-> "text",
                                           body |-> <<"q">> \o body \o <<"q">>])
                   /\ r.ok => r.val = Trim(body)

-----------------------------------------------------------------------------
(* Block height maps.  A text is <<"num", n>>, which parses as a height,   *)
(* or <<"hash", h>>, which does not; a JSON value is a number, a "real"    *)
(* one that is no 64-bit integer, a text or something else; a JSON object  *)
(* is read in the order of its keys.                                       *)

Parses(text) == text[1] = "num"

\* Mutant of HeightEntry: every text is taken for a hash.
HeightEntryHashes(key, value) ==
    IF value[1] = "number" THEN Ok(<<key, value[2]>>)
    ELSE IF value[1] # "text" THEN Err("value")
    ELSE IF Parses(key) THEN Ok(<<value[2], key[2]>>)
    ELSE Err("entry")

\* The entry of the map that an entry of the JSON object stands for: if both
\* of its texts are heights, the value is taken for one.
HeightEntry(key, value) ==
    IF value[1] = "number" THEN Ok(<<key, value[2]>>)
    ELSE IF value[1] # "text" THEN Err("value")
    ELSE IF Parses(value[2]) THEN Ok(<<key, value[2][2]>>)
    ELSE IF Parses(key) THEN Ok(<<value[2], key[2]>>)
    ELSE Err("entry")

\* The first entry that cannot be read fails the whole response.
AddEntry(map, key, value) ==
    LET e == HeightEntry(key, value)
    IN IF ~map.ok THEN map
       ELSE IF ~e.ok THEN e
       ELSE Ok([h \in DOMAIN map.val \cup {e.val[1]} |->
                   IF h = e.val[1] THEN e.val[2] ELSE map.val[h]])

\* keys is the domain of the object, sorted; an object left out or null is
\* empty.
BlockHeightMap(keys, object) ==
    LET map[i \in 0 .. Len(keys)] ==
            IF i = 0 THEN Ok(<<>>) ELSE AddEntry(map[i - 1], keys[i], object[keys[i]])
    IN map[Len(keys)]

\* The three ways a node may write a hash and its height, mixed in one object.
Written(hash, height, way) ==
    CASE way = "number" -> <<hash, <<"number", height>>>>
      [] way = "text" -> <<hash, <<"text", <<"num", height>>>>>>
      [] way = "inverted" -> <<<<"num", height>>, <<"text", hash>>>>

\* What a key cannot have as its value.
Unreadable(key) ==
    {v \in {<<"real">>, <<"other">>, <<"text", <<"hash", "none">>>>} :
        v[1] = "text" => ~Parses(key)}

\* A map from hashes to heights is read back from whichever way each of its
\* entries is written, provided no two need the same key; it is read again
\* from what the client itself would write; and one entry that cannot be read
\* refuses the others.  sorted lists all keys.
HeightsEitherWay(map, way, sorted) ==
    LET entry(h) == Written(h, map[h], way[h])
        entries == {entry(h) : h \in DOMAIN map}
        object == [k \in {e[1] : e \in entries} |->
                      (CHOOSE e \in entries : e[1] = k)[2]]
        Keys(o) == Without(sorted, Range(sorted) \ DOMAIN o)
        again == [h \in DOMAIN map |-> <<"number", map[h]>>]
        distinct == \A g, h \in DOMAIN map : entry(g)[1] = entry(h)[1] => g = h
    IN /\ distinct => BlockHeightMap(Keys(object), object) = Ok(map)
       /\ BlockHeightMap(Keys(again), again) = Ok(map)
       /\ \A k \in DOMAIN object : \A v \in Unreadable(k) :
             ~BlockHeightMap(Keys(object), [object EXCEPT ![k] = v]).ok

-----------------------------------------------------------------------------
(* Fees.  A log has a name, says whether its data decode as the event of   *)
(* that name, and has the symbol and the amount of the event.              *)

FeeEvents == {"TransactionFeeCharged", "ResourceTokenCharged"}

\* Mutant of AddFee: the amount first charged stays.
AddFeeOnce(fees, log) ==
    IF log.name \in FeeEvents /\ log.decodes
    THEN [s \in DOMAIN fees \cup {log.symbol} |->
             IF s \in DOMAIN fees THEN fees[s] ELSE log.amount]
    ELSE fees

AddFee(fees, log) ==
    IF log.name \in FeeEvents /\ log.decodes
    THEN [s \in DOMAIN fees \cup {log.symbol} |->
             IF s = log.symbol THEN log.amount ELSE fees[s]]
    ELSE fees

GetTransactionFees(logs) ==
    LET fees[i \in 0 .. Len(logs)] ==
            IF i = 0 THEN <<>> ELSE AddFee(fees[i - 1], logs[i])
    IN fees[Len(logs)]

\* The fees are those of the symbols that were charged, no matter what is
\* malformed between them; the amount of a symbol charged once is right, and
\* of one charged several times it is the last, never a sum.
FeesAreCharged(logs) ==
    LET fees == GetTransactionFees(logs)
        Charges(s) == {i \in DOMAIN logs : /\ logs[i].name \in FeeEvents
                                           /\ logs[i].decodes
                                           /\ logs[i].symbol = s}
    IN \A s \in DOMAIN fees \cup {logs[i].symbol : i \in DOMAIN logs} :
          /\ s \in DOMAIN fees <=> Charges(s) # {}
          /\ s \in DOMAIN fees => fees[s] = logs[Max(Charges(s))].amount

=============================================================================
