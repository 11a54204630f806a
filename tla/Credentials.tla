----------------------------- MODULE Credentials ----------------------------
(***************************************************************************)
(* Addresses, private keys and signatures (crates/aelf-crypto/src/lib.rs), *)
(* and how the client formats addresses and signs transactions             *)
(* (crates/aelf-client/src/lib.rs).                                        *)
(*                                                                         *)
(* An address text is the sequence of its parts between underscores.  A    *)
(* part is Plain(bytes), the base58check text of the bytes, or a Word that *)
(* is none; base58 texts have no underscore.  A private key text has a     *)
(* prefix and hexadecimal digits.  A signature names the key and the bytes *)
(* it was made with, as far as a verifier can tell.                        *)
(***************************************************************************)
EXTENDS Integers, Sequences, SequencesExt, Numerals

CONSTANTS
    KeyDigits,    \* digits of a private key: 64 in the code
    Order         \* the keys are 1 .. Order - 1

ASSUME KeyAssumption == KeyDigits \in Nat \ {0} /\ Order \in Nat \ {0}

Good(v) == [ok |-> TRUE, val |-> v]

Bad(e) == [ok |-> FALSE, err |-> e]

-----------------------------------------------------------------------------
(* Addresses. *)

Plain(bytes) == <<"base58check", bytes>>

Word(w) == <<"word", w>>

Hollow == Word("")    \* nothing between two underscores

\* Mutant of ParseAelfAddress: a fourth part is not looked for.
ParseOpenEnded(text) ==
    IF Len(text) >= 3 /\ text[2] # Hollow THEN <<text[2]>> ELSE text

\* SYMBOL_address_CHAIN has three parts; anything else is taken as it is.
ParseAelfAddress(text) ==
    IF Len(text) = 3 /\ text[2] # Hollow THEN <<text[2]>> ELSE text

Base58CheckEncode(bytes) == <<Plain(bytes)>>

Base58CheckDecode(text) ==
    IF Len(text) = 1 /\ text[1][1] = "base58check" THEN Good(text[1][2])
    ELSE Bad("InvalidAddress")

DecodeAddress(text) == Base58CheckDecode(ParseAelfAddress(text))

\* The text is put between the others as it is.
GetFormattedAddress(symbol, text, chain) == <<Word(symbol)>> \o text \o <<Word(chain)>>

\* Whatever bytes an address has, those of an unknown contract, none, included,
\* its plain and its formatted text are read as those bytes, and the bytes
\* are printed as the plain text; a text formatted twice, the two parts of one
\* cut off, or a formatted text with nothing in the middle is refused and
\* never read as something else.
AddressForms(bytes, symbol, chain) ==
    LET plain == Base58CheckEncode(bytes)
        formatted == GetFormattedAddress(symbol, plain, chain)
        refused == {GetFormattedAddress(symbol, formatted, chain),
                    GetFormattedAddress(symbol, <<Hollow>>, chain),
                    Tail(formatted), Front(formatted),
                    formatted \o <<Hollow>>, formatted \o plain}
    IN /\ DecodeAddress(plain) = Good(bytes)
       /\ DecodeAddress(formatted) = Good(bytes)
       /\ \A text \in refused : ~DecodeAddress(text).ok

-----------------------------------------------------------------------------
(* Private keys: a prefix, "", "0x" or "0X", and digits, here binary.      *)

KeyOf(digits) == Number(2, digits)

\* Mutant of NormalizePrivateKeyHex: a short key is filled up at its end.
NormalizeAtEnd(text) ==
    IF text.prefix = "0X" \/ Len(text.digits) > KeyDigits THEN Bad("Hex")
    ELSE Good(KeyOf(text.digits \o Zeros(KeyDigits - Len(text.digits))))

\* "0x" is taken off, a short text is filled up with zeros on the left, and
\* what is then too long is refused; "0X" stays, and is no digit.
NormalizePrivateKeyHex(text) ==
    IF text.prefix = "0X" THEN Bad("Hex")
    ELSE IF Len(text.digits) > KeyDigits
    THEN Bad(IF Len(text.digits) % 2 = 1 THEN "Hex" ELSE "InvalidPrivateKey")
    ELSE Good(KeyOf(Zeros(KeyDigits - Len(text.digits)) \o text.digits))

Hex(key) == CHOOSE d \in [1 .. KeyDigits -> {0, 1}] : KeyOf(d) = key

PublicKey(key) == <<"public", key>>

AddressFromPublicKey(public) == Base58CheckEncode(<<"sha256 twice", public>>)

FromPrivateKey(text) ==
    LET key == NormalizePrivateKeyHex(text)
    IN IF ~key.ok THEN key
       ELSE IF key.val \notin 1 .. Order - 1 THEN Bad("InvalidPrivateKey")
       ELSE Good([privateKey |-> [prefix |-> "", digits |-> Hex(key.val)],
                  publicKey |-> PublicKey(key.val),
                  address |-> AddressFromPublicKey(PublicKey(key.val))])

-----------------------------------------------------------------------------
(* Signatures.  A transaction is encoded as it is, its signature included. *)

NoSignature == <<>>

SignPayload(key, payload) == <<"signature", key, payload>>

\* The wallet keeps its key as text and reads it again for each signature.
SignTransaction(wallet, tx) ==
    SignPayload(NormalizePrivateKeyHex(wallet.privateKey).val, tx)

\* Recovering the key from other bytes than those signed gives another key.
VerifySignature(public, payload, signature) ==
    IF signature = NoSignature THEN Bad("InvalidSignature")
    ELSE Good(signature[3] = payload /\ PublicKey(signature[2]) = public)

\* ClientUtilsService::sign_transaction.
Signed(wallet, tx) == [tx EXCEPT !.signature = SignTransaction(wallet, tx)]

\* The node verifies the transaction without its signature, for the sender.
NodeAccepts(tx, public) ==
    /\ tx.from = AddressFromPublicKey(public)
    /\ VerifySignature(public, [tx EXCEPT !.signature = NoSignature],
                       tx.signature) = Good(TRUE)

\* All texts of one private key, short or padded, with 0x or without, give the
\* wallet of that key, which signs so that the node accepts a transaction of
\* its address; and the bytes signed include the signature a transaction
\* already has: signed again it is accepted only if that one was taken off.
AnySpellingSigns(text, method) ==
    LET wallet == FromPrivateKey(text)
        tx == [from |-> wallet.val.address, method |-> method,
               signature |-> NoSignature]
        once == Signed(wallet.val, tx)
        Cleared(t) == [t EXCEPT !.signature = NoSignature]
    IN /\ wallet.ok <=> /\ text.prefix # "0X"
                        /\ Len(text.digits) <= KeyDigits
                        /\ KeyOf(text.digits) \in 1 .. Order - 1
       /\ wallet.ok =>
             /\ wallet.val.publicKey = PublicKey(KeyOf(text.digits))
             /\ NodeAccepts(once, wallet.val.publicKey)
             /\ ~NodeAccepts(Signed(wallet.val, once), wallet.val.publicKey)
             /\ Signed(wallet.val, Cleared(once)) = once

=============================================================================
