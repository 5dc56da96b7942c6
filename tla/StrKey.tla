------------------------------- MODULE StrKey -------------------------------
(***************************************************************************)
(* The addresses of the SDK (src/sdk/src/core/stellar-xdr.ts): a key with  *)
(* its kind and a checksum as base32 text, and the way back.  StrKeys keep *)
(* the code's own eight and five bits.                                     *)
(***************************************************************************)
EXTENDS Integers, Sequences, SequencesExt, Bitwise

CONSTANTS
    Keys,         \* the bytes of a key
    Accumulator,  \* the range of the base32 coder's variable: 2^32
    None

VARIABLES
    key, strKey,  \* a key, and the address that was made of it
    changed,      \* the address was changed in one character
    decoded       \* what the address was decoded to

vars == <<key, strKey, changed, decoded>>

Init == key = None /\ strKey = None /\ changed = FALSE /\ decoded = None

-----------------------------------------------------------------------------
\* One bit of the checksum, most significant first.
crcBit(crc) == ((2 * crc) % 65536) ^^ (IF crc >= 32768 THEN 4129 ELSE 0)
crc16xmodem(data) ==
    FoldLeft(LAMBDA crc, byte : FoldLeft(LAMBDA c, i : crcBit(c), crc ^^ (byte * 256),
                                         [i \in 1..8 |-> i]), 0, data)

\* Symbols of `from` bits regrouped in symbols of `to` bits, as base32Encode and
\* base32Decode do it: the accumulator keeps the low end of what went in.  A rest is
\* filled up with zeros by the one and dropped by the other.
Regroup(symbols, from, to, fill) ==
    LET Take(state) == FoldLeft(LAMBDA s, i :
              IF s.bits < to THEN s
              ELSE [s EXCEPT !.bits = @ - to,
                             !.out = Append(@, (s.value \div (2 ^ (s.bits - to))) % (2 ^ to))],
              state, <<1, 2>>)
        end == FoldLeft(LAMBDA s, symbol :
              Take([s EXCEPT !.value = (@ * (2 ^ from) + symbol) % Accumulator,
                             !.bits = @ + from]),
              [value |-> 0, bits |-> 0, out |-> <<>>], symbols)
    IN  IF fill /\ end.bits > 0
        THEN Append(end.out, (end.value * (2 ^ (to - end.bits))) % (2 ^ to)) ELSE end.out

base32Encode(data) == Regroup(data, 8, 5, TRUE)
base32Decode(characters) == Regroup(characters, 5, 8, FALSE)

VERSION_BYTES == [accountId |-> 48, contract |-> 16]

encodeStrKey(type, data) ==
    LET payload == <<VERSION_BYTES[type]>> \o data
        checksum == crc16xmodem(payload)
    IN  base32Encode(payload \o <<checksum % 256, checksum \div 256>>)

\* The two bytes of the checksum must be those of what precedes them.  (The first form
\* compares the low one.)
ChecksumLow(payload, low, high) == low = crc16xmodem(payload) % 256
Checksum(payload, low, high) == low + 256 * high = crc16xmodem(payload)

decodeStrKey(characters) ==
    LET bytes == base32Decode(characters)
        payload == SubSeq(bytes, 1, Len(bytes) - 2)
    IN  IF Len(bytes) < 3 \/ ~Checksum(payload, bytes[Len(bytes) - 1], bytes[Len(bytes)])
        THEN "error"
        ELSE LET types == {t \in DOMAIN VERSION_BYTES : VERSION_BYTES[t] = payload[1]}
             IN  IF types = {} THEN "error" ELSE <<CHOOSE t \in types : TRUE, Tail(payload)>>

Encode(type, data) ==
    /\ key = None
    /\ key' = <<type, data>> /\ strKey' = encodeStrKey(type, data)
    /\ UNCHANGED <<changed, decoded>>

\* The user mistypes it.
Change(i, character) ==
    /\ strKey # None /\ decoded = None /\ ~changed /\ strKey[i] # character
    /\ strKey' = [strKey EXCEPT ![i] = character] /\ changed' = TRUE
    /\ UNCHANGED <<key, decoded>>

Decode ==
    /\ strKey # None /\ decoded = None
    /\ decoded' = decodeStrKey(strKey)
    /\ UNCHANGED <<key, strKey, changed>>

Next ==
    \/ \E type \in DOMAIN VERSION_BYTES, data \in Keys : Encode(type, data)
    \/ \E i \in 1..8, character \in 0..31 : Change(i, character)
    \/ Decode

Spec == Init /\ [][Next]_vars

-----------------------------------------------------------------------------
(* Properties.                                                             *)

TypeOK ==
    /\ key = None \/ key \in (DOMAIN VERSION_BYTES) \X Keys
    /\ changed \in BOOLEAN
    /\ strKey # None => \A i \in DOMAIN strKey : strKey[i] \in 0..31

\* An address gives back the key and its kind, although the coders' accumulators
\* overflow; with one character changed it is refused.
AddressesChecked ==
    decoded # None => decoded = IF changed THEN "error" ELSE key
=============================================================================
