------------------------------- MODULE MCSdk -------------------------------
(***************************************************************************)
(* The SDK with small sets of payments, resources, keys, accounts and      *)
(* numbers, and beside it the texts that are read: addresses and the token *)
(* that the circuits take a login's claims from.                           *)
(***************************************************************************)
EXTENDS Sdk, Sequences

VARIABLES
    key, strKey, changed, decoded,
    stage, claims, audList, jwt, payload, decodedPayload, parsed, position

\* One server asks for whole units of the native asset, the other one for a token.
MCAsks ==
    LET first == CHOOSE r \in Resources : TRUE
    IN  {q \in [resource : Resources, asset : {"native", "token"}, amount : {2, 3}] :
           q.asset = "native" <=> q.resource = first}

\* Requests that are in time and requests that are too late.
MCValidity == {-1, 1}

\* Keys whose checksum has a high byte and whose bits fill every accumulator.
Address == INSTANCE StrKey WITH
    Keys <- {<<0, 0>>, <<255, 129>>}, Accumulator <- 2 ^ 20

\* Words of three bytes of four values: every width's ends, data of every length modulo
\* a word; amounts with zeros before and behind their digits.
MCFields ==
    [kind : {"uint32"}, value : {0, 63}]
    \cup [kind : {"int32"}, value : {-1, 31, -32}]
    \cup [kind : {"uint64", "u64"}, value : {64, 4095}]
    \cup [kind : {"i64"}, value : {-1, 4000, 65}]
    \cup [kind : {"i128"}, value : {-1, -4097, 5000}]
    \cup [kind : {"u128"}, value : {16777215}]
    \cup [kind : {"bool"}, value : BOOLEAN]
    \cup [kind : {"opaque", "string"},
          value : {<<>>, <<3>>, <<1, 2>>, <<1, 2, 3>>, <<0, 0, 1, 2>>}]
MCStroops == {0, 1, 5, 10, 99, 100, 101, 110, 12345}

\* Subjects that begin alike, of one and of more elements; salts and halves of keys that
\* the prover takes for decimal numbers, and others that it does not; and moduli of which
\* the first, the last and only the last of the seventeen chunks differ.
MCAccounts ==
    [iss : {<<7>>}, sub : {<<1>>, <<1, 2>>, <<1, 2, 3>>, <<2, 1, 3, 1>>},
     aud : {<<1, 2>>}, salt : {<<52, 53, 61, 52>>, <<54, 0, 0, 1>>}]
    \cup [iss : {<<7>>}, sub : {<<1>>}, aud : {<<1, 2, 1>>}, salt : {<<52, 53, 61, 52>>}]
MCKeys == [high : {<<0, 16>>, <<16, 0>>}, low : {<<0, 16>>, <<0, 171>>},
           epoch : {1, 2}, randomness : {1}]
MCModuli == {<<128, 0>>, <<255, 255>>, <<128, 1>>, <<1, 128>>}

\* Three chunks of three bits with every carry and borrow, and four bytes of two bits,
\* whose ends fall inside of chunks.
MCOperands == {<<x, y, z>> : x \in {0, 1, 7}, y \in {0, 7}, z \in {0, 7}}
MCByteStrings == {<<w, x, y, z>> : w, x, y, z \in {0, 1, 3}}

\* Two headers and three lengths of claims, so that the payload begins and ends anywhere
\* in a block, in two orders, with a key, letters of two bytes and an escaped claim as text.
Jwt == INSTANCE JwtCircuit WITH
    Claims <- [iss : {<<97, 46>>}, sub : {<<49>>, <<49, 48>>, <<115, 117, 98>>},
               aud : {<<99>>}, nonce : {<<45, 95>>}, exp : {1700003600}, iat : {1700000000},
               name : {<<115, 117, 98>>, <<195, 191>>,
                       <<92, 34, 115, 117, 98, 92, 34, 58, 92, 34, 120>>}],
    Orders <- {<<"iss", "name", "sub", "aud", "nonce", "exp", "iat">>,
               <<"iat", "exp", "nonce", "aud", "sub", "name", "iss">>},
    Headers <- {<<101>>, <<101, 121, 74>>}, Signatures <- {<<115, 105>>},
    maxJWTLen <- 480, maxStringLen <- 8, decoded <- decodedPayload

-----------------------------------------------------------------------------
addressVars == <<key, strKey, changed, decoded>>
tokenVars == <<stage, claims, audList, jwt, payload, decodedPayload, parsed, position>>

MCInit ==
    /\ used \in {"connect", "pay", "x402", "salt", "hashes", "circuit", "xdr", "address", "token"}
    /\ PartsInit /\ Address!Init /\ Jwt!Init

MCNext ==
    \/ /\ PartsNext
       /\ UNCHANGED <<addressVars, tokenVars>>
    \/ /\ used = "address" /\ Address!Next
       /\ UNCHANGED <<partsVars, tokenVars>>
    \/ /\ used = "token" /\ Jwt!Next
       /\ UNCHANGED <<partsVars, addressVars>>

MCSpec ==
    /\ MCInit
    /\ [][MCNext]_<<partsVars, addressVars, tokenVars>>
    /\ used = "connect" => Fairness
    /\ used = "salt" => Salt!Fairness

-----------------------------------------------------------------------------
\* StrKey and JwtCircuit: what is read of a text is what was written into it.  An address
\* gives its key and a mistyped one nothing, and the circuits take out of a token what its
\* issuer wrote there.
ReadAsWritten ==
    /\ Address!TypeOK /\ Address!AddressesChecked
    /\ Jwt!TypeOK /\ Jwt!ClaimsRead
=============================================================================
