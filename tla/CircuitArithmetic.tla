-------------------------- MODULE CircuitArithmetic --------------------------
(***************************************************************************)
(* Big integers in the zkLogin circuits: the templates of                  *)
(* src/circuits/lib/bigint.circom and field_utils.circom that compute with *)
(* chunks, and the prover's bytes_to_chunks (src/prover/src/witness.rs).   *)
(*                                                                         *)
(* A template is what it assigns to its signals for the inputs that it is  *)
(* meant for: chunks that fit their bits.  A big integer is a sequence of  *)
(* chunks, the least significant one first.  BigMod and what is built on   *)
(* it only copy their input so far and are left out.                       *)
(***************************************************************************)
EXTENDS Integers, Sequences, Numerals

CONSTANTS
    n, k,              \* bits of a chunk and number of chunks: 121 and 17
    ByteBits,          \* bits of a byte: 8
    numBytes,          \* bytes of a number that is cut into chunks: 256
    Operands,          \* big integers to compute with
    ByteStrings,       \* numbers as bytes, the most significant one first
    None

CircuitAssumption ==
    /\ n \in Nat \ {0} /\ k \in Nat \ {0} /\ ByteBits \in Nat \ {0} /\ numBytes \in Nat \ {0}
    /\ \A x \in Operands : x \in Seq(0..Power(2, n) - 1) /\ Len(x) = k
    /\ \A x \in ByteStrings : x \in Seq(0..Power(2, ByteBits) - 1) /\ Len(x) = numBytes
    /\ ByteBits * numBytes <= n * k
    /\ None \notin {"Compare", "Add", "Sub", "Mult", "Carry", "Cut", "Join", "ToField"}

VARIABLES
    template,  \* the template that was run last, None before
    input,     \* what it was given
    output     \* what it assigned

vars == <<template, input, output>>

Init == template = None /\ input = <<>> /\ output = <<>>

-----------------------------------------------------------------------------
\* What does not fit a chunk is carried.
Chunk == Power(2, n)

\* From the most significant chunk: all before it equal and this one less.
BigLessThan(a, b) ==
    IF \E i \in 1..k : a[i] < b[i] /\ \A j \in i + 1..k : a[j] = b[j] THEN 1 ELSE 0
BigIsEqual(a, b) == IF \A i \in 1..k : a[i] = b[i] THEN 1 ELSE 0
BigIsZero(a) == IF \A i \in 1..k : a[i] = 0 THEN 1 ELSE 0

BigAdd(a, b) ==
    LET carry[i \in 0..k] == IF i = 0 THEN 0 ELSE (a[i] + b[i] + carry[i - 1]) \div Chunk
    IN  Append([i \in 1..k |-> (a[i] + b[i] + carry[i - 1]) % Chunk], carry[k])

\* The difference, and last whether it was negative.  (The first form does not borrow for
\* what was borrowed.)
BigSubWithoutBorrow(a, b) ==
    LET borrow[i \in 0..k] == IF i = 0 THEN 0 ELSE 1 - ((a[i] - b[i] + Chunk) \div Chunk)
    IN  Append([i \in 1..k |-> (a[i] - b[i] - borrow[i - 1] + Chunk) % Chunk], borrow[k])
BigSub(a, b) ==
    LET borrow[i \in 0..k] ==
          IF i = 0 THEN 0 ELSE 1 - ((a[i] - b[i] - borrow[i - 1] + Chunk) \div Chunk)
    IN  Append([i \in 1..k |-> (a[i] - b[i] - borrow[i - 1] + Chunk) % Chunk], borrow[k])

\* The columns of the schoolbook method, whose values do not fit a chunk.
BigMult(a, b) ==
    LET sums[i \in 0..k] ==
          [col \in 1..2 * k - 1 |->
             IF i = 0 THEN 0
             ELSE sums[i - 1][col]
                    + IF col - i + 1 \in 1..k THEN a[i] * b[col - i + 1] ELSE 0]
    IN  sums[k]

BigCarryPropagate(in, k_out) ==
    LET In(i) == IF i <= Len(in) THEN in[i] ELSE 0
        carry[i \in 0..k_out] == IF i = 0 THEN 0 ELSE (In(i) + carry[i - 1]) \div Chunk
    IN  [i \in 1..k_out |-> (In(i) + carry[i - 1]) % Chunk]

\* Bit by bit: the bytes begin with the most significant one, the chunks with the least
\* significant one.  A bit is found in the byte or chunk that it is in.
ByteBit(bytes, at) ==
    Digits(bytes[numBytes - (at - 1) \div ByteBits], 2, ByteBits)[((at - 1) % ByteBits) + 1]
ChunkBit(chunks, at) == Digits(chunks[(at - 1) \div n + 1], 2, n)[((at - 1) % n) + 1]

BytesToBigInt(bytes) ==
    [i \in 1..k |->
       LittleEndian([j \in 1..n |-> LET at == n * (i - 1) + j
                                    IN  IF at <= ByteBits * numBytes THEN ByteBit(bytes, at)
                                        ELSE 0], 2)]

BigIntToBytes(chunks) ==
    [i \in 1..numBytes |->
       LittleEndian([j \in 1..ByteBits |-> LET at == ByteBits * (numBytes - i) + j
                                           IN  IF at <= n * k THEN ChunkBit(chunks, at)
                                               ELSE 0], 2)]

\* The prover: the number itself, masked and shifted.
bytes_to_chunks(bytes) == Digits(BigEndian(bytes, Power(2, ByteBits)), Chunk, k)

\* field_utils: the bytes of a field element begin with the least significant one.
FieldToBytes(in) ==
    LET bits == Digits(in, 2, ByteBits * numBytes)
    IN  [i \in 1..numBytes |->
           LittleEndian([j \in 1..ByteBits |-> bits[ByteBits * (i - 1) + j]], 2)]
BytesToField(bytes) == LittleEndian(bytes, Power(2, ByteBits))

-----------------------------------------------------------------------------
\* A template is run on some input.
Run(name, in, out) == template' = name /\ input' = in /\ output' = out

Compare(a, b) ==
    /\ template = None
    /\ Run("Compare", <<a, b>>, <<BigLessThan(a, b), BigIsEqual(a, b), BigIsZero(a)>>)

Add(a, b) == template = None /\ Run("Add", <<a, b>>, BigAdd(a, b))

Sub(a, b) == template = None /\ Run("Sub", <<a, b>>, BigSub(a, b))

Mult(a, b) == template = None /\ Run("Mult", <<a, b>>, BigMult(a, b))

\* The columns of a product become chunks.
Carry ==
    /\ template = "Mult"
    /\ Run("Carry", input, BigCarryPropagate(output, 2 * k))

Cut(bytes) ==
    /\ template = None
    /\ Run("Cut", <<bytes>>, BytesToBigInt(bytes) \o bytes_to_chunks(bytes))

Join ==
    /\ template = "Cut"
    /\ Run("Join", input, BigIntToBytes(SubSeq(output, k + 1, 2 * k)))

ToField(bytes) ==
    /\ template = None
    /\ Run("ToField", <<bytes>>, FieldToBytes(BytesToField(bytes)))

Next ==
    \/ \E a, b \in Operands : Compare(a, b) \/ Add(a, b) \/ Sub(a, b) \/ Mult(a, b)
    \/ Carry \/ Join
    \/ \E bytes \in ByteStrings : Cut(bytes) \/ ToField(bytes)

Spec == Init /\ [][Next]_vars

-----------------------------------------------------------------------------
(* Properties.                                                             *)

\* The number that chunks stand for.
Value(chunks) == LittleEndian(chunks, Chunk)

TypeOK ==
    /\ template \in {None, "Compare", "Add", "Sub", "Mult", "Carry", "Cut", "Join",
                     "ToField"}
    /\ template \in {"Add", "Carry"} => \A i \in DOMAIN output : output[i] \in 0..Chunk - 1

\* What the templates compute chunk by chunk is what they are named for: comparison,
\* sum, difference and product of the numbers, with every carry and borrow taken along.
ArithmeticRight ==
    LET left == Value(input[1]) right == Value(input[2])
    IN  CASE template = "Compare" ->
               output = <<IF left < right THEN 1 ELSE 0, IF left = right THEN 1 ELSE 0,
                          IF left = 0 THEN 1 ELSE 0>>
          [] template = "Add" -> Value(output) = left + right
          [] template = "Sub" ->
               Value(SubSeq(output, 1, k)) - output[k + 1] * Power(Chunk, k) = left - right
          [] template \in {"Mult", "Carry"} -> Value(output) = left * right
          [] OTHER -> TRUE

\* The prover and the circuit cut the same bytes into the same chunks, which give the
\* bytes back, wherever the ends of bytes and chunks fall; so do field elements.
BytesKept ==
    /\ template = "Cut" => SubSeq(output, 1, k) = SubSeq(output, k + 1, 2 * k)
    /\ template \in {"Join", "ToField"} => <<output>> = input
=============================================================================
