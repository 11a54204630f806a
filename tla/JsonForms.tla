------------------------------ MODULE JsonForms -----------------------------
(***************************************************************************)
(* Calling a contract with JSON (crates/aelf-contract/src/lib.rs):         *)
(* call_json turns the addresses and hashes people write, anywhere in the  *)
(* input, into the JSON of their protobuf messages, and back in the        *)
(* output.                                                                 *)
(*                                                                         *)
(* A JSON value is <<"string", s>>, <<"number", n>>, <<"array", parts>> or *)
(* <<"object", parts>>, the parts a set of pairs of a place, which is an   *)
(* index or a key, and the value there.  Walks down a value are functions  *)
(* of how deep it may be.                                                  *)
(***************************************************************************)
EXTENDS Credentials

CONSTANTS
    ByteStrings,    \* the contents of addresses and hashes
    Names,          \* the names of fields, and other keys
    Descriptors,    \* Descriptors[m]: the fields of message m
    Depth           \* how deep the JSON given to a call is

Leaves == {"aelf.Address", "aelf.Hash"}    \* messages of one field, value

Types == DOMAIN Descriptors \cup Leaves \cup {"scalar"}

\* A field's kind: one value, a list or a map, and the type of what it holds.
Kinds == [card : {"one", "list", "map"}, type : Types]

One(type) == [card |-> "one", type |-> type]

ASSUME DescriptorsAssumption ==
    /\ <<>> \in ByteStrings /\ "value" \in Names
    /\ Depth \in Nat
    /\ \A m \in DOMAIN Descriptors :
          /\ Descriptors[m] \subseteq [name : Names, json : Names, kind : Kinds]
          /\ \A f, g \in Descriptors[m] : f.json = g.json => f = g

-----------------------------------------------------------------------------
(* JSON values. *)

AddressPart == ({"base58check"} \X ByteStrings) \cup ({"word"} \X STRING)

\* A string is told by what can be read from it; base64 is protobuf's.
Texts ==
    ({"address"} \X Seq(AddressPart))
        \cup ({"hex"} \X {"lower", "upper"} \X ByteStrings)
        \cup ({"base64"} \X ByteStrings) \cup ({"text"} \X STRING)

Flat == ({"string"} \X Texts) \cup ({"number"} \X Nat)

\* Json[n]: the values no deeper than n.
Json[n \in Nat] ==
    IF n = 0 THEN Flat
    ELSE Flat \cup ({"array"} \X SUBSET (Nat \X Json[n - 1]))
              \cup ({"object"} \X SUBSET (Names \X Json[n - 1]))

Str(s) == <<"string", s>>

Obj(parts) == <<"object", parts>>

Failed(v) == v[1] = "error"

Error(e) == <<"error", e>>

\* What a value made of parts is: a failure of one is that of the whole.
Whole(tag, parts) ==
    LET failed == {p \in parts : Failed(p[2])}
    IN IF failed = {} THEN <<tag, parts>> ELSE (CHOOSE p \in failed : TRUE)[2]

Each(form, value) == Whole(value[1], {<<p[1], form[p[2]]>> : p \in value[2]})

Message(bytes) == Obj({<<"value", Str(<<"base64", bytes>>)>>})

\* The JSON of a message of bytes: a default value is not in it.
IsMessage(value) ==
    value[1] = "object" /\
    \/ value[2] = {}
    \/ \E p \in value[2] :
          value[2] = {p} /\ p[1] = "value" /\ p[2][1] = "string" /\ p[2][2][1] = "base64"

BytesOf(value) ==
    IF value[2] = {} THEN <<>> ELSE (CHOOSE p \in value[2] : TRUE)[2][2][2]

\* The fields a key stands for, at most one: by its JSON name, then its name.
FieldOf(type, key) ==
    LET byJson == {f \in Descriptors[type] : f.json = key}
    IN IF byJson # {} THEN byJson ELSE {f \in Descriptors[type] : f.name = key}

Field(type, key) == CHOOSE f \in FieldOf(type, key) : TRUE

Shape(card) == IF card = "list" THEN "array" ELSE "object"

-----------------------------------------------------------------------------
(* normalize_json_message for the two leaf messages. *)

\* Mutant of AddressIn: the text is taken for a plain address.
AddressInPlain(value) ==
    IF value[1] # "string" THEN value
    ELSE IF value[2][1] # "address" THEN Error("InvalidAddress")
    ELSE LET a == Base58CheckDecode(value[2][2])
         IN IF a.ok THEN Message(a.val) ELSE Error(a.err)

AddressIn(value) ==
    IF value[1] # "string" THEN value
    ELSE IF value[2][1] # "address" THEN Error("InvalidAddress")
    ELSE LET a == DecodeAddress(value[2][2])
         IN IF a.ok THEN Message(a.val) ELSE Error(a.err)

HashIn(value) ==
    IF value[1] # "string" THEN value
    ELSE IF value[2][1] # "hex" THEN Error("Hex") ELSE Message(value[2][3])

LeafOut(type, value) ==
    IF value[1] # "object" THEN value
    ELSE IF ~IsMessage(value) THEN Error("Json")
    ELSE IF type = "aelf.Address" THEN Str(<<"address", Base58CheckEncode(BytesOf(value))>>)
    ELSE Str(<<"hex", "lower", BytesOf(value)>>)

LeafForm(type, value, direction) ==
    IF direction = "output" THEN LeafOut(type, value)
    ELSE IF type = "aelf.Address" THEN AddressIn(value)
    ELSE HashIn(value)

\* normalize_json_message, with what becomes of the values below.  Keys are
\* kept, known or not.
NormalizeMessage(type, value, direction, below) ==
    LET Part(p) ==
            IF FieldOf(type, p[1]) = {} THEN p[2]
            ELSE below[Field(type, p[1]).kind][p[2]]
    IN IF type \in Leaves THEN LeafForm(type, value, direction)
       ELSE IF value[1] # "object" THEN value
       ELSE Whole("object", {<<p[1], Part(p)>> : p \in value[2]})

\* normalize_json_field.  What does not fit its field is left as it is.
NormalizeField(kind, value, direction, below) ==
    IF kind.card # "one"
    THEN IF value[1] = Shape(kind.card) THEN Each(below[One(kind.type)], value)
         ELSE value
    ELSE IF kind.type = "scalar" THEN value
    ELSE NormalizeMessage(kind.type, value, direction, below)

Normalize[n \in Nat] ==
    [direction \in {"input", "output"} |-> [kind \in Kinds |-> [value \in Json[n] |->
        NormalizeField(kind, value, direction, Normalize[n - 1][direction])]]]

-----------------------------------------------------------------------------
(* prost_reflect: a value is read as a message and written again.  Fields  *)
(* come out under their JSON names, and not at all with their default      *)
(* value, or empty; a leaf that is no message of bytes and a key that is   *)
(* no field are errors.  A field given under both its names, and scalars   *)
(* with presence, are left out.                                            *)

Default(kind) ==
    IF kind.card # "one" THEN {<<Shape(kind.card), {}>>}
    ELSE IF kind.type = "scalar" THEN {Str(<<"text", "">>), <<"number", 0>>} ELSE {}

ReflectMessage(type, value, below) ==
    IF value[1] # "object" THEN Error("Json")
    ELSE IF type \in Leaves
    THEN IF ~IsMessage(value) THEN Error("Json")
         ELSE IF BytesOf(value) = <<>> THEN Obj({}) ELSE value
    ELSE IF \E p \in value[2] : FieldOf(type, p[1]) = {} THEN Error("Json")
    ELSE LET written == {p \in value[2] : p[2] \notin Default(Field(type, p[1]).kind)}
         IN Whole("object", {<<Field(type, p[1]).json,
                               below[Field(type, p[1]).kind][p[2]]>> : p \in written})

ReflectField(kind, value, below) ==
    IF kind.card # "one"
    THEN IF value[1] = Shape(kind.card) THEN Each(below[One(kind.type)], value)
         ELSE Error("Json")
    ELSE IF kind.type = "scalar"
    THEN IF value[1] \in {"string", "number"} THEN value ELSE Error("Json")
    ELSE ReflectMessage(kind.type, value, below)

Reflect[n \in Nat] ==
    [kind \in Kinds |-> [value \in Json[n] |-> ReflectField(kind, value, Reflect[n - 1])]]

\* The message a call carries: a leaf's is one deeper than its text.
InputMessage(type, value) ==
    LET input == Normalize[Depth]["input"][One(type)][value]
    IN IF Failed(input) THEN input ELSE Reflect[Depth + 1][One(type)][input]

\* call_json of a method that returns its input.
CallJson(type, value) ==
    LET message == InputMessage(type, value)
    IN IF Failed(message) THEN message
       ELSE Normalize[Depth + 1]["output"][One(type)][message]

-----------------------------------------------------------------------------

\* A leaf as its writer could have written it in the first place: an address
\* plain, a hash in small letters.  What is neither, in whatever form, fails.
CanonicalLeaf(type, value) ==
    IF value[1] # "string" THEN IF IsMessage(value) THEN LeafOut(type, value) ELSE Error("Json")
    ELSE IF type = "aelf.Address"
    THEN IF value[2][1] = "address" /\ DecodeAddress(value[2][2]).ok
         THEN Str(<<"address", ParseAelfAddress(value[2][2])>>) ELSE Error("Json")
    ELSE IF value[2][1] = "hex" THEN Str(<<"hex", "lower", value[2][3]>>) ELSE Error("Json")

CanonicalMessage(type, value, below) ==
    LET written == {p \in value[2] : p[2] \notin Default(Field(type, p[1]).kind)}
    IN IF value[1] # "object" \/ \E p \in value[2] : FieldOf(type, p[1]) = {}
       THEN Error("Json")
       ELSE Whole("object", {<<Field(type, p[1]).json,
                               below[Field(type, p[1]).kind][p[2]]>> : p \in written})

\* Every value is where a field of its kind is, and no other values are.
CanonicalField(kind, value, below) ==
    IF kind = One("scalar") THEN IF value \in Flat THEN value ELSE Error("Json")
    ELSE IF kind.card = "one"
    THEN IF kind.type \in Leaves THEN CanonicalLeaf(kind.type, value)
         ELSE CanonicalMessage(kind.type, value, below)
    ELSE IF value[1] = Shape(kind.card) THEN Each(below[One(kind.type)], value)
    ELSE Error("Json")

Canonical[n \in Nat] ==
    [kind \in Kinds |-> [value \in Json[n] |-> CanonicalField(kind, value, Canonical[n - 1])]]

\* What is written with addresses and hashes in the forms people use, at any
\* depth, in lists and in maps, passes through a contract call unchanged but
\* for being brought to its canonical form.  A text that is no address or no
\* hash in the place of one, a value of the wrong kind, or a key that is no
\* field, anywhere in it, fails the call before anything is sent.
SameAfterCall(type, value) ==
    LET canonical == Canonical[Depth][One(type)][value]
    IN IF Failed(canonical) THEN Failed(InputMessage(type, value))
       ELSE CallJson(type, value) = canonical

=============================================================================
