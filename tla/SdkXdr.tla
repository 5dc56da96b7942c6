------------------------------- MODULE SdkXdr -------------------------------
(***************************************************************************)
(* Numbers and data as the SDK writes and reads them: the XDR writer and   *)
(* reader with the Soroban values (src/sdk/src/core/stellar-xdr.ts and     *)
(* soroban-client.ts), and amounts in stroops as text.                     *)
(*                                                                         *)
(* The widths are parameters: a byte has Byte values (256 in the code), a  *)
(* word WordBytes bytes (4), a 64-bit number two words and a 128-bit one   *)
(* four.                                                                   *)
(***************************************************************************)
EXTENDS Integers, Sequences, Numerals

CONSTANTS
    Byte, WordBytes,
    Fields,     \* what a message may hold: numbers, booleans, data, Soroban values
    MaxFields,  \* bound on the length of a message
    Stroops,    \* amounts
    Decimals,   \* digits after the point: 7
    None

Word == Power(Byte, WordBytes)
Bytes == 0..Byte - 1

\* The tag of a Soroban value.
Tag == [i64 |-> 6, u64 |-> 5, i128 |-> 10, u128 |-> 9, string |-> 13, bytes |-> 14, symbol |-> 15]

\* A number that is written as a word fits it, and so does the length of data.  The tags
\* are words with a sign.
XdrAssumption ==
    /\ Byte \in Nat \ {0, 1} /\ WordBytes \in Nat \ {0} /\ Word \div 2 > 15
    /\ MaxFields \in Nat /\ Decimals \in Nat /\ Stroops \subseteq Nat /\ None \notin Nat
    /\ \A field \in Fields :
         CASE field.kind = "uint32" -> field.value \in 0..Word - 1
           [] field.kind = "int32" -> field.value \in -(Word \div 2)..Word \div 2 - 1
           [] field.kind \in {"uint64", "i64", "u64", "i128", "u128"} -> field.value \in Int
           [] field.kind = "bool" -> field.value \in BOOLEAN
           [] OTHER -> /\ field.kind \in {"opaque", "string", "bytes", "symbol"}
                       /\ field.value \in Seq(Bytes) /\ Len(field.value) < Word

VARIABLES
    written, buffer,  \* the fields of an XdrWriter, and its bytes
    offset, read,     \* of the XdrReader over them
    amount, text      \* stroops, and the text they were shown as

xdr == <<written, buffer, offset, read>>
vars == <<xdr, amount, text>>

Init ==
    /\ written = <<>> /\ buffer = <<>> /\ offset = 0 /\ read = <<>>
    /\ amount = None /\ text = None

-----------------------------------------------------------------------------
(* XDR.  The shift of a bigint rounds down and its mask is the remainder,  *)
(* for negative numbers too.                                               *)

\* Most significant byte first.
writeUint32(value) ==
    [i \in 1..WordBytes |-> Digits(value, Byte, WordBytes)[WordBytes + 1 - i]]
writeInt32(value) == writeUint32(value % Word)
writeUint64(value) == writeUint32((value \div Word) % Word) \o writeUint32(value % Word)
writeInt64(value) == writeUint64(value)
writeInt128(value) == writeInt64(value \div (Word * Word)) \o writeInt64(value % (Word * Word))

\* The data and zeros up to the next word.
Padding(length) == (WordBytes - (length % WordBytes)) % WordBytes
writeOpaque(data) == data \o [i \in 1..Padding(Len(data)) |-> 0]
writeVarOpaque(data) == writeUint32(Len(data)) \o writeOpaque(data)

encodeSorobanValue(type, value) ==
    IF type = "bool" THEN writeInt32(IF value THEN 1 ELSE 0)
    ELSE writeInt32(Tag[type]) \o
         CASE type \in {"i64", "u64"} -> writeInt64(value)
           [] type \in {"i128", "u128"} -> writeInt128(value)
           [] OTHER -> writeVarOpaque(value)

Encoded(field) ==
    CASE field.kind = "uint32" -> writeUint32(field.value)
      [] field.kind = "int32" -> writeInt32(field.value)
      [] field.kind = "uint64" -> writeUint64(field.value)
      [] field.kind = "opaque" -> writeVarOpaque(field.value)
      [] OTHER -> encodeSorobanValue(field.kind, field.value)

write(field) ==
    /\ Len(written) < MaxFields /\ read = <<>>
    /\ written' = Append(written, field)
    /\ buffer' = buffer \o Encoded(field)
    /\ UNCHANGED <<offset, read, amount, text>>

\* What is read at an offset, and the offset after it.
readUint32(at) ==
    [value |-> BigEndian(SubSeq(buffer, at + 1, at + WordBytes), Byte),
     offset |-> at + WordBytes]
readInt32(at) ==
    LET word == readUint32(at)
    IN  [word EXCEPT !.value = IF @ >= Word \div 2 THEN @ - Word ELSE @]
readUint64(at) ==
    LET high == readUint32(at) low == readUint32(high.offset)
    IN  [low EXCEPT !.value = high.value * Word + @]
readUint128(at) ==
    LET high == readUint64(at) low == readUint64(high.offset)
    IN  [low EXCEPT !.value = high.value * (Word * Word) + @]
\* (The first form reads on right behind the data.)
readOpaqueUnpadded(at, length) ==
    [value |-> SubSeq(buffer, at + 1, at + length), offset |-> at + length]
readOpaque(at, length) ==
    [value |-> SubSeq(buffer, at + 1, at + length), offset |-> at + length + Padding(length)]
readVarOpaque(at) == LET length == readUint32(at) IN readOpaque(length.offset, length.value)

\* The tag decides; what has another one is read as no bytes.
readSorobanValue(at) ==
    LET tag == readInt32(at)
        next == tag.offset
    IN  CASE tag.value \in {0, 1} -> [value |-> tag.value = 1, offset |-> next]
          [] tag.value \in {5, 6} -> readUint64(next)
          [] tag.value \in {9, 10} -> readUint128(next)
          [] tag.value \in {13, 14, 15} -> readVarOpaque(next)
          [] OTHER -> [value |-> <<>>, offset |-> next]

Decoded(kind) ==
    CASE kind = "uint32" -> readUint32(offset)
      [] kind = "int32" -> readInt32(offset)
      [] kind = "uint64" -> readUint64(offset)
      [] kind = "opaque" -> readVarOpaque(offset)
      [] OTHER -> readSorobanValue(offset)

\* The reader knows what kind of field comes next.
readField ==
    /\ Len(read) < Len(written)
    /\ LET field == Decoded(written[Len(read) + 1].kind)
       IN  read' = Append(read, field.value) /\ offset' = field.offset
    /\ UNCHANGED <<written, buffer, amount, text>>

-----------------------------------------------------------------------------
(* Amounts: a whole part and decimals.                                     *)

\* The decimals of an amount.
Fraction(n) ==
    LET digits == Digits(n % Power(10, Decimals), 10, Decimals)
    IN  [i \in 1..Decimals |-> digits[Decimals + 1 - i]]

\* The zeros at the end are dropped.
fromStroops(n) ==
    LET digits == Fraction(n)
        last == CHOOSE k \in 0..Decimals :
                  /\ \A i \in k + 1..Decimals : digits[i] = 0
                  /\ k = 0 \/ digits[k] # 0
    IN  [whole |-> n \div Power(10, Decimals), decimal |-> SubSeq(digits, 1, last)]

\* Zeros are added, and digits that are too many cut off.
toStroops(t) ==
    t.whole * Power(10, Decimals) +
    BigEndian([i \in 1..Decimals |-> IF i <= Len(t.decimal) THEN t.decimal[i] ELSE 0], 10)

Show(n) ==
    /\ amount = None
    /\ amount' = n /\ text' = fromStroops(n)
    /\ UNCHANGED xdr

-----------------------------------------------------------------------------
\* A message and an amount share no state: a behaviour uses one of them.
Next ==
    \/ amount = None /\ ((\E field \in Fields : write(field)) \/ readField)
    \/ written = <<>> /\ \E n \in Stroops : Show(n)

Spec == Init /\ [][Next]_vars

-----------------------------------------------------------------------------
(* Properties.                                                             *)

TypeOK ==
    /\ Len(written) <= MaxFields /\ Len(read) <= Len(written)
    /\ buffer \in Seq(Bytes)
    /\ offset \in 0..Len(buffer)

\* The value that a field reads as: numbers modulo their width, which the reader takes
\* for unsigned ones except for an int32.
Meaning(field) ==
    CASE field.kind \in {"i64", "u64", "uint64"} -> field.value % (Word * Word)
      [] field.kind \in {"i128", "u128"} -> field.value % ((Word * Word) * (Word * Word))
      [] OTHER -> field.value

\* What is read back field after field is what the written ones mean, to the last byte:
\* no padding, no width and no sign of one field shifts or spoils the ones that follow.
\* A number below zero of 64 or 128 bits is not read as what was written.  An amount that
\* is shown as text and typed in again is the same amount.
ReadsBack ==
    /\ \A i \in DOMAIN read : read[i] = Meaning(written[i])
    /\ Len(read) = Len(written) => offset = Len(buffer)
    /\ text # None => toStroops(text) = amount
=============================================================================
