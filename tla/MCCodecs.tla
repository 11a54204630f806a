------------------------------- MODULE MCCodecs -----------------------------
(***************************************************************************)
(* Codecs with small sets of inputs.                                       *)
(***************************************************************************)
EXTENDS Codecs, Bitwise

-----------------------------------------------------------------------------
(* Inputs. *)

Tokens == {"q", "sp", "esc", "0x", "0X", "hex64", "other"}

Responses == [shape : {"object", "array", "text"},
              body : UNION {[1 .. n -> Tokens] : n \in 0 .. 5}]

Hash(h) == <<"hash", h>>

Num(n) == <<"num", n>>

Hashes == {Hash("a"), Hash("b"), Num(7), Num(44)}

MCSortedKeys == <<Num(10), Num(44), Num(7), Hash("a"), Hash("b")>>

HeightMaps ==
    {in \in UNION {[map : [hs -> {7, 10}], way : [hs -> {"number", "text", "inverted"}]] :
                      hs \in SUBSET Hashes} :
        \A h \in DOMAIN in.map : in.way[h] = "inverted" => h \in {Hash("a"), Hash("b")}}

Logs == [name : {"TransactionFeeCharged", "ResourceTokenCharged", "Transferred"},
         decodes : BOOLEAN, symbol : {"ELF", "READ"}, amount : {1, 2}]

LogLists == UNION {[1 .. n -> Logs] : n \in 0 .. 2}
    \cup {<<a, b, c>> : a, b, c \in {l \in Logs : l.name = "TransactionFeeCharged"}}

Bytes == {<<>>, <<"account", 1>>, <<"account", 2>>}

KeyTexts == [prefix : {"", "0x", "0X"},
             digits : UNION {[1 .. n -> {0, 1}] : n \in 0 .. KeyDigits + 2}]

MCByteStrings == Bytes \cup {<<"hash">>}

MCNames ==
    {"value", "to", "memo", "txId", "tx_id", "too", "ownerAddress", "owner_address",
     "transfers", "txIds", "tx_ids", "byName", "by_name", "notes", "x", "y"}

MCDescriptors ==
    LET F(name, json, card, type) ==
            [name |-> name, json |-> json, kind |-> [card |-> card, type |-> type]]
    IN [Transfer |-> {F("to", "to", "one", "aelf.Address"), F("memo", "memo", "one", "scalar"),
                      F("tx_id", "txId", "one", "aelf.Hash")},
        Batch |-> {F("owner_address", "ownerAddress", "one", "aelf.Address"),
                   F("transfers", "transfers", "list", "Transfer"),
                   F("tx_ids", "txIds", "list", "aelf.Hash"),
                   F("by_name", "byName", "map", "aelf.Address"),
                   F("notes", "notes", "map", "scalar")}]

Address(b) == {Str(<<"address", t>>) : t \in {Base58CheckEncode(b),
                  GetFormattedAddress("ELF", Base58CheckEncode(b), "AELF")}}

Addresses == Address(<<>>) \cup Address(<<"account", 1>>)

HashTexts == {Str(<<"hex", c, <<"hash">>>>) : c \in {"lower", "upper"}}

NotOne == Str(<<"text", "none">>)

Array(seq) == <<"array", {<<i, seq[i]>> : i \in DOMAIN seq}>>

Object(f) == Obj({<<k, f[k]>> : k \in DOMAIN f})

\* Objects with each of some keys left out or given one of its values.
Objects(choices) ==
    UNION {{Object(f) : f \in {g \in [ks -> UNION {choices[k] : k \in ks}] :
                                  \A k \in ks : g[k] \in choices[k]}} :
              ks \in SUBSET DOMAIN choices}

Transfers(addresses, hashes) ==
    Objects([to |-> addresses, memo |-> {NotOne, <<"number", 0>>}, txId |-> hashes])
        \cup Objects([tx_id |-> hashes, too |-> {NotOne}])

Batches(addresses, hashes) ==
    LET some == {Object([to |-> a, tx_id |-> h]) : a \in addresses, h \in hashes}
    IN Objects([ownerAddress |-> addresses \cup {Message(<<"account", 2>>), Array(<<>>)},
                transfers |-> {Array(<<s, t>>) : s, t \in some} \cup {Obj({})},
                notes |-> {Object([x |-> NotOne]), Obj({})}])
          \cup Objects([owner_address |-> addresses,
                        tx_ids |-> {Array(<<h>>) : h \in hashes},
                        byName |-> {Object([x |-> a, y |-> b]) : a, b \in addresses}])

JsonInputs ==
    {<<"aelf.Address", v>> : v \in Addresses \cup HashTexts \cup {NotOne}}
    \cup {<<"aelf.Hash", v>> : v \in Addresses \cup HashTexts \cup {NotOne}}
    \cup {<<"Transfer", v>> : v \in Transfers(Addresses \cup {NotOne}, HashTexts \cup {NotOne})}
    \cup {<<"Batch", v>> : v \in Batches(Addresses, HashTexts) \cup Batches({NotOne}, HashTexts)}

MCWords == 0 .. 15

MCXor(x, y) == x ^^ y

MCAnd(x, y) == x & y

MCSalsa == [x \in MCWords |-> (5 * x * x + 3 * x + 9) % 16]

MCChunks ==
    UNION {[1 .. p -> [1 .. 2 -> {0, 6, 11}]] : p \in 1 .. 2}
    \cup [1 .. 1 -> [1 .. 4 -> {1, 6, 12}]] \cup [1 .. 1 -> [1 .. 6 -> {3, 8}]]

MCInputs == [
    response |-> Responses,
    heights |-> HeightMaps,
    fees |-> LogLists,
    address |-> Bytes \X {"", "ELF"} \X {"AELF", "tDVV"},
    key |-> KeyTexts \X {"Transfer", "Vote"},
    amount |-> Amounts \X (-1 .. 4),
    json |-> JsonInputs,
    scrypt |-> MCChunks \X {1, 2, 4, 8}]

=============================================================================
