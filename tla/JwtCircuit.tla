------------------------------ MODULE JwtCircuit ------------------------------
(***************************************************************************)
(* How the zkLogin circuit reads a token: splitting it at its dots         *)
(* (SplitJWT), decoding the payload (Base64URLDecode) and taking the       *)
(* claims out of it (JWTClaimParser), of src/circuits/lib/base64.circom    *)
(* and jwt_parser.circom; and where the prover says that the claims are    *)
(* (find_claim_position of src/prover/src/witness.rs).                     *)
(*                                                                         *)
(* Characters are their ASCII codes.  A circuit's array of fixed length is *)
(* the sequence of what is in it before the zeros that fill it up.         *)
(***************************************************************************)
EXTENDS Integers, SequencesExt, FiniteSetsExt

CONSTANTS
    Claims,        \* [iss, sub, aud, nonce, name: text, exp, iat: ten-digit numbers]
    Orders,        \* orders that issuers write them in: sequences of their keys
    Headers,       \* encoded headers
    Signatures,    \* encoded signatures
    maxJWTLen,     \* characters of the longest token
    maxStringLen,  \* characters of the longest claim
    None

VARIABLES
    stage,    \* what has been done with the token
    claims,   \* what the issuer wrote into it
    audList,  \* whether it wrote the audience as a list
    jwt, payload, decoded,
    parsed,   \* what the circuit takes the claims to be
    position  \* where the prover says they are: [key -> <<start, end>>], counted from 0

vars == <<stage, claims, audList, jwt, payload, decoded, parsed, position>>

Init ==
    /\ stage = "none" /\ claims = None /\ audList = FALSE
    /\ jwt = <<>> /\ payload = <<>> /\ decoded = <<>>
    /\ parsed = None /\ position = None

-----------------------------------------------------------------------------
(* The issuer of the token.                                                *)

Key == [iss |-> <<105, 115, 115>>, aud |-> <<97, 117, 100>>, sub |-> <<115, 117, 98>>,
        nonce |-> <<110, 111, 110, 99, 101>>, exp |-> <<101, 120, 112>>,
        iat |-> <<105, 97, 116>>, name |-> <<110, 97, 109, 101>>]
Strings == {"iss", "aud", "sub", "nonce"}
Numbers == {"exp", "iat"}

Quoted(text) == <<34>> \o text \o <<34>>
DigitsOf(number) == [i \in 1..10 |-> 48 + ((number \div 10 ^ (10 - i)) % 10)]

\* {"key":value,...}
Json(values, order, list) ==
    LET Member(key) ==
          Quoted(Key[key]) \o <<58>>
            \o (IF key \in Numbers THEN DigitsOf(values[key])
                ELSE IF key = "aud" /\ list THEN <<91>> \o Quoted(values.aud) \o <<93>>
                ELSE Quoted(values[key]))
    IN  <<123>> \o FlattenSeq([i \in DOMAIN order |->
                                 (IF i = 1 THEN <<>> ELSE <<44>>) \o Member(order[i])])
          \o <<125>>

Alphabet == [v \in 0..63 |-> IF v < 26 THEN v + 65 ELSE IF v < 52 THEN v + 71
                             ELSE IF v < 62 THEN v - 4 ELSE IF v = 62 THEN 45 ELSE 95]
At(array, i) == IF i \in DOMAIN array THEN array[i] ELSE 0

\* Three bytes in four characters, without padding.
Base64URLEncode(bytes) ==
    [i \in 1..(4 * Len(bytes) + 2) \div 3 |->
       LET first == 3 * ((i - 1) \div 4) + 1
           word == 65536 * At(bytes, first) + 256 * At(bytes, first + 1) + At(bytes, first + 2)
       IN  Alphabet[(word \div 64 ^ (3 - ((i - 1) % 4))) % 64]]

Issue(values, order, header, signature, list) ==
    /\ stage = "none"
    /\ stage' = "issued"
    /\ claims' = values
    /\ audList' = list
    /\ jwt' = header \o <<46>> \o Base64URLEncode(Json(values, order, list))
                \o <<46>> \o signature
    /\ UNCHANGED <<payload, decoded, parsed, position>>

-----------------------------------------------------------------------------
(* The circuit.                                                            *)

\* The first place of a character, counted from zero, which is zero also when there is
\* none.
FindChar(array, target, from) ==
    LET places == {i \in DOMAIN array : i > from /\ array[i] = target}
    IN  IF places = {} THEN 0 ELSE Min(places) - 1

maxPartLen == (maxJWTLen \div 3) + 1

\* The parts are as long as a third of the longest token at most; what follows is lost.
SplitJWT ==
    LET dot1 == FindChar(jwt, 46, 0)
        dot2 == FindChar(jwt, 46, dot1 + 1)
        payloadLen == dot2 - dot1 - 1
    IN  /\ stage = "issued"
        /\ stage' = "split"
        /\ payload' = SubSeq(jwt, dot1 + 2,
                             dot1 + 1 + Min({payloadLen, maxPartLen}))
        /\ UNCHANGED <<claims, audList, jwt, decoded, parsed, position>>

Base64URLCharDecode(char) ==
    CASE char \in 65..90 -> char - 65
      [] char \in 97..122 -> char - 97 + 26
      [] char \in 48..57 -> char - 48 + 52
      [] char = 45 -> 62
      [] char = 95 -> 63
      [] OTHER -> 0

Base64URLDecodeBlock(c) ==
    LET v == [j \in 1..4 |-> Base64URLCharDecode(c[j])]
    IN  <<v[1] * 4 + v[2] \div 16, (v[2] % 16) * 16 + v[3] \div 4, (v[3] % 4) * 64 + v[4]>>

\* Whole blocks, the last of which zeros fill up, and as many bytes as belong to the
\* characters.
DecodedLen(len) == 3 * (len \div 4) + (((len % 4) * 3) \div 4)
Base64URLDecode ==
    LET blocks == Min({(Len(payload) + 3) \div 4, maxPartLen \div 4})
        bytes == FlattenSeq([i \in 1..blocks |->
                               Base64URLDecodeBlock([j \in 1..4 |->
                                                       At(payload, 4 * (i - 1) + j)])])
    IN  /\ stage = "split"
        /\ stage' = "decoded"
        /\ decoded' = SubSeq(bytes, 1, Min({Len(bytes), DecodedLen(Len(payload))}))
        /\ UNCHANGED <<claims, audList, jwt, payload, parsed, position>>

Begins(array, i, text) == \A j \in DOMAIN text : At(array, i + j - 1) = text[j]
Places(array, text) == {i \in DOMAIN array : Begins(array, i, text)}

\* "key":" before a string, "key": before a number.  (The first form does not look
\* for the colon.)
KeyPatternBare(key) == Quoted(key)
KeyPattern(key) == Quoted(key) \o <<58, 34>>
NumberPattern(key) == Quoted(key) \o <<58>>

\* From behind the first such place, or from the beginning when there is none, up to
\* the next quote.
ExtractJSONStringValue(key) ==
    LET places == Places(decoded, KeyPattern(key))
        start == IF places = {} THEN 1 ELSE Min(places) + Len(key) + 4
        ends == {i \in 0..maxStringLen - 1 : At(decoded, start + i) \in {0, 34}}
    IN  SubSeq(decoded, start, start + Min(ends \cup {maxStringLen}) - 1)

\* Always ten places, whatever of them is a digit.
ExtractJSONNumberValue(key) ==
    LET places == Places(decoded, NumberPattern(key))
        start == IF places = {} THEN 1 ELSE Min(places) + Len(key) + 3
        digits == [i \in 1..10 |-> LET char == At(decoded, start + i - 1)
                                   IN  IF char \in 48..57 THEN char - 48 ELSE 0]
    IN  FoldLeft(LAMBDA value, digit : 10 * value + digit, 0, digits)

JWTClaimParser ==
    /\ stage = "decoded"
    /\ stage' = "parsed"
    /\ parsed' = [key \in Strings \cup Numbers |->
                    IF key \in Strings THEN ExtractJSONStringValue(Key[key])
                    ELSE ExtractJSONNumberValue(Key[key])]
    /\ UNCHANGED <<claims, audList, jwt, payload, decoded, position>>

-----------------------------------------------------------------------------
(* The prover, which has decoded the payload itself.                       *)

\* The key with its value, or with a list that begins with it; -1 where neither is.
PositionOf(key, value) ==
    LET plain == Places(decoded, Quoted(key) \o <<58>> \o Quoted(value))
        listed == Places(decoded, Quoted(key) \o <<58, 91>> \o Quoted(value))
        start == IF plain # {} THEN Min(plain) + Len(key) + 3
                 ELSE IF listed # {} THEN Min(listed) + Len(key) + 4 ELSE -1
    IN  <<start, start + Len(value)>>

find_claim_position ==
    /\ stage = "parsed"
    /\ stage' = "witness"
    /\ position' = [key \in Strings |-> PositionOf(Key[key], claims[key])]
    /\ UNCHANGED <<claims, audList, jwt, payload, decoded, parsed>>

Next ==
    \/ \E values \in Claims, order \in Orders, header \in Headers,
          signature \in Signatures, list \in BOOLEAN :
         Issue(values, order, header, signature, list)
    \/ SplitJWT \/ Base64URLDecode \/ JWTClaimParser \/ find_claim_position

Spec == Init /\ [][Next]_vars

-----------------------------------------------------------------------------
(* Properties.                                                             *)

TypeOK ==
    /\ stage \in {"none", "issued", "split", "decoded", "parsed", "witness"}
    /\ claims \in Claims \cup {None}
    /\ \A i \in DOMAIN decoded : decoded[i] \in 0..255

\* What the circuit takes out of a token is what its issuer wrote into it, however long
\* the header and the claims are, in whatever order they come and whatever else is
\* among them, text that looks like another claim included; and the prover points at
\* the same text.  (An audience in a list only the prover finds.)
ClaimsRead ==
    /\ parsed # None =>
         \A key \in Strings \cup Numbers :
           (key = "aud" /\ audList) \/ parsed[key] = claims[key]
    /\ position # None =>
         \A key \in Strings :
           SubSeq(decoded, position[key][1] + 1, position[key][2]) = claims[key]
=============================================================================
