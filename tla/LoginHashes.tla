----------------------------- MODULE LoginHashes -----------------------------
(***************************************************************************)
(* The values that a login is bound by, as each program computes them: the *)
(* SDK's client (src/sdk/src/client.ts with utils/) and its wallet adapter,*)
(* the prover (src/prover/src/witness.rs), the circuit's library           *)
(* (src/circuits/lib/field_utils.circom) and the contracts.  A contract    *)
(* compares what it computes with what was computed elsewhere, so the same *)
(* login must give the same values.                                        *)
(*                                                                         *)
(* A field element or hash is a term that shows how it was made: no two    *)
(* hashes of different inputs are the same.  A number of the code's 121    *)
(* bits or 31 bytes has ChunkBits bits or BytesPerElement bytes here.      *)
(*                                                                         *)
(* The SDK sends the prover the halves of a key and the salt as the texts  *)
(* that it has of them, which the prover does not read as the SDK does.    *)
(* The others are given numbers.  A salt of 32 bytes is its 43 digits in   *)
(* base64, none of which the bytes leave out.                              *)
(***************************************************************************)
EXTENDS Integers, FiniteSets, Sequences, Numerals

CONSTANTS
    Accounts,         \* [iss, sub, aud: the bytes of the claims, salt: its digits in base64]
    Keys,             \* ephemeral keys: [high, low: half the bytes, epoch, randomness]
    Moduli,           \* RSA moduli: their bytes, the most significant one first
    BytesPerElement,  \* 31
    MaxBytes,         \* length of the circuit's arrays of bytes
    ChunkBits,        \* 121
    MaxComputed       \* bound on the values that are computed

\* Claims are text, in which no byte is zero, and fit the arrays of the circuit.  Salts,
\* keys and moduli have one length each: 32 bytes, 32 bytes, and the 256 of RSA-2048, which
\* fit 17 chunks.
HashesAssumption ==
    /\ BytesPerElement \in Nat \ {0} /\ ChunkBits \in Nat \ {0}
    /\ MaxBytes \in Nat /\ MaxComputed \in Nat
    /\ \A a \in Accounts :
         /\ a \in [iss : Seq(0..255), sub : Seq(1..255), aud : Seq(1..255), salt : Seq(0..63)]
         /\ Len(a.sub) <= MaxBytes /\ Len(a.aud) <= MaxBytes
    /\ \A a, b \in Accounts : Len(a.salt) = Len(b.salt)
    /\ \A k, l \in Keys :
         /\ k \in [high : Seq(0..255), low : Seq(0..255), epoch : Nat, randomness : Nat]
         /\ Len(k.high) = Len(k.low) /\ Len(k.high) = Len(l.high)
    /\ \A x, y \in Moduli :
         /\ x \in Seq(0..255) /\ Len(x) = Len(y)
         /\ Power(256, Len(x)) <= Power(Power(2, ChunkBits), 17)

VARIABLES
    addresses,  \* the addresses of accounts: [by, of, is]
    seeds,      \* their address seeds
    bindings,   \* the hashes of ephemeral keys
    nonces,
    moduli      \* the hashes of moduli

vars == <<addresses, seeds, bindings, nonces, moduli>>

Init == addresses = {} /\ seeds = {} /\ bindings = {} /\ nonces = {} /\ moduli = {}

-----------------------------------------------------------------------------
Number(x) == <<"Number", x>>
Poseidon(inputs) == <<"Poseidon", inputs>>
Blake2b(inputs) == <<"Blake2b", inputs>>
\* The last twenty of the thirty-two bytes of a hash.
Last20Bytes(hash) == <<"Last20Bytes", hash>>

(* Texts: a character is the digit that it is, or else a number from ten   *)
(* on.                                                                     *)

\* Two hexadecimal digits for each byte, without a prefix.
Hex(bytes) ==
    [i \in 1..2 * Len(bytes) |-> IF i % 2 = 1 THEN bytes[(i + 1) \div 2] \div 16
                                 ELSE bytes[i \div 2] % 16]

\* "0" to "9" are the digits from 52 on.
Base64(digits) ==
    [i \in DOMAIN digits |-> IF digits[i] \in 52..61 THEN digits[i] - 52 ELSE digits[i] + 10]

\* The prover reads what has no prefix as a decimal number; where it is none, the request
\* ends with an error.
Decimal(text) == \A i \in DOMAIN text : text[i] < 10
string_to_field(text) == Number(BigEndian(text, 10))

-----------------------------------------------------------------------------
(* The address seed.                                                       *)

sub == <<115, 117, 98>>  \* "sub", the claim that an account goes by

\* The bytes BytesPerElement at a time.
Pieces(bytes) ==
    [i \in 1..(Len(bytes) + BytesPerElement - 1) \div BytesPerElement |->
       SubSeq(bytes, (i - 1) * BytesPerElement + 1,
              IF i * BytesPerElement > Len(bytes) THEN Len(bytes) ELSE i * BytesPerElement)]

\* The SDK and the circuit read a piece from its end, the prover from its beginning.
Elements(bytes) == [i \in DOMAIN Pieces(bytes) |-> LittleEndian(Pieces(bytes)[i], 256)]
field_elements(bytes) ==
    [i \in DOMAIN Pieces(bytes) |-> Number(BigEndian(Pieces(bytes)[i], 256))]

\* One number after the other, each hashed with what those before it gave.
Sponge(numbers) ==
    LET state[i \in 0..Len(numbers)] ==
          IF i = 0 THEN Number(0) ELSE Poseidon(<<state[i - 1], Number(numbers[i])>>)
    IN  state[Len(numbers)]

\* The SDK's: the pieces, then the length.
hashBytesToField(bytes) == Poseidon(<<Sponge(Elements(bytes)), Number(Len(bytes))>>)

\* The circuit's: the same over the zeros that fill up its array.
Filled(bytes) == [i \in 1..MaxBytes |-> IF i <= Len(bytes) THEN bytes[i] ELSE 0]
HashBytesToField(bytes) ==
    Poseidon(<<Sponge(Elements(Filled(bytes))), Number(Len(bytes))>>)

\* The prover's: what fits one element is that element.
bytes_to_field_element(bytes) ==
    IF Len(bytes) <= BytesPerElement THEN Number(BigEndian(bytes, 256))
    ELSE Poseidon(field_elements(bytes))

\* The wallet adapter's.
hashToField(bytes) == Blake2b(bytes)

\* Poseidon(kc_name_F, kc_value_F, aud_F, Poseidon(salt)) of hashed claims: what the
\* factory and the verifier are called with, and what the SDK and the prover compute.
compute_address_seed(name, value, aud, salt) ==
    Poseidon(<<name, value, aud, Poseidon(<<salt>>)>>)

saltField(a) == Number(BigEndian(a.salt, 64))

ClientSeed(a) == compute_address_seed(hashBytesToField(sub), hashBytesToField(a.sub),
                                      hashBytesToField(a.aud), saltField(a))
AdapterSeed(a) == compute_address_seed(hashToField(sub), hashToField(a.sub),
                                       hashToField(a.aud), saltField(a))
ProverSeed(a) == compute_address_seed(bytes_to_field_element(sub), bytes_to_field_element(a.sub),
                                      bytes_to_field_element(a.aud),
                                      string_to_field(Base64(a.salt)))
CircuitSeed(a) == compute_address_seed(HashBytesToField(sub), HashBytesToField(a.sub),
                                       HashBytesToField(a.aud), saltField(a))

\* The claims that a contract is called with are hashed by its caller.
Seed(program, a) ==
    CASE program \in {"client", "contract"} -> ClientSeed(a)
      [] program = "adapter" -> AdapterSeed(a)
      [] program = "prover" -> ProverSeed(a)
      [] program = "circuit" -> CircuitSeed(a)

\* Blake2b_256(0x05 || len(issuer) || issuer || address_seed)
deriveZkLoginAddress(iss, seed) == Blake2b(<<5, Len(iss), iss, seed>>)

-----------------------------------------------------------------------------
(* An ephemeral key: the halves of it, its hash and the nonce that a token *)
(* is issued for.                                                          *)

\* The numbers that are written in hexadecimal digits.
\* (The first form takes the halves in the other order.)
HalvesSwapped(k) == <<Number(BigEndian(k.low, 256)), Number(BigEndian(k.high, 256))>>
Halves(k) == <<Number(BigEndian(k.high, 256)), Number(BigEndian(k.low, 256))>>

\* The smart wallet splits the key itself.
WalletHalves(k) ==
    LET pk_bytes == k.high \o k.low
        half == Len(pk_bytes) \div 2
    IN  <<Number(BigEndian(SubSeq(pk_bytes, 1, half), 256)),
          Number(BigEndian(SubSeq(pk_bytes, half + 1, Len(pk_bytes)), 256))>>

\* The prover takes these digits for decimal ones.
ProverHalves(k) == <<string_to_field(Hex(k.high)), string_to_field(Hex(k.low))>>

Binding(program, k) ==
    Poseidon(CASE program = "smart_wallet" -> WalletHalves(k)
               [] program = "prover" -> ProverHalves(k)
               [] OTHER -> Halves(k))

\* The client and the adapter put the end of the hash into the request for a token; the
\* verifier and the circuit answer the whole hash.
Nonce(program, k) ==
    LET hash == Poseidon(<<Halves(k)[1], Halves(k)[2], Number(k.epoch), Number(k.randomness)>>)
    IN  IF program \in {"client", "adapter"} THEN Last20Bytes(hash) ELSE hash

-----------------------------------------------------------------------------
(* Chunks and hash of a modulus.                                           *)

\* The SDK's chunks: the least significant ChunkBits bits, 17 times.
modulusToChunks(bytes) == Digits(BigEndian(bytes, 256), Power(2, ChunkBits), 17)

\* Four groups of four and the last one, in this order.  (The first form leaves the
\* last one out.)
TreeOfSixteen(chunks) ==
    Poseidon([g \in 1..4 |-> Poseidon([j \in 1..4 |-> Number(chunks[4 * (g - 1) + j])])])
Tree(chunks) ==
    Poseidon([g \in 1..4 |-> Poseidon([j \in 1..4 |-> Number(chunks[4 * (g - 1) + j])])]
             \o <<Poseidon(<<Number(chunks[17])>>)>>)
hashModulusToField(chunks) == Tree(chunks)
compute_modulus_hash(chunks) ==
    LET field_element == [i \in 1..17 |-> Number(chunks[i])]
        Group(g) == LET start == 4 * g
                    IN  <<field_element[start + 1], field_element[start + 2],
                          field_element[start + 3], field_element[start + 4]>>
    IN  Poseidon(<<Poseidon(Group(0)), Poseidon(Group(1)), Poseidon(Group(2)),
                   Poseidon(Group(3)), Poseidon(<<field_element[17]>>)>>)

\* The circuit's: one chunk after the other.
HashModulusToField(chunks) == Sponge(chunks)

\* The SDK cuts the modulus in chunks, which the oracle registers.
ModulusHash(program, modulus) ==
    LET chunks == modulusToChunks(modulus)
    IN  CASE program = "registry" -> compute_modulus_hash(chunks)
          [] program = "client" -> hashModulusToField(chunks)
          [] program = "circuit" -> HashModulusToField(chunks)

-----------------------------------------------------------------------------
(* Actions: a program computes a value.                                    *)

Computed == Cardinality(addresses) + Cardinality(seeds) + Cardinality(bindings)
              + Cardinality(nonces) + Cardinality(moduli)

Value(program, input, result) == {[by |-> program, of |-> input, is |-> result]}

computeAddressSeed(program, a) ==
    /\ Computed < MaxComputed
    /\ program = "prover" => Decimal(Base64(a.salt))
    /\ seeds' = seeds \cup Value(program, a, Seed(program, a))
    /\ UNCHANGED <<addresses, bindings, nonces, moduli>>

computeAddress(program, a) ==
    /\ Computed < MaxComputed
    /\ addresses' = addresses \cup
         Value(program, a, deriveZkLoginAddress(a.iss, Seed(program, a)))
    /\ UNCHANGED <<seeds, bindings, nonces, moduli>>

computeEphPkHash(program, k) ==
    /\ Computed < MaxComputed
    /\ program = "prover" => Decimal(Hex(k.high)) /\ Decimal(Hex(k.low))
    /\ bindings' = bindings \cup Value(program, k, Binding(program, k))
    /\ UNCHANGED <<addresses, seeds, nonces, moduli>>

\* The prover computes none for a request.
computeNonce(program, k) ==
    /\ Computed < MaxComputed
    /\ nonces' = nonces \cup Value(program, k, Nonce(program, k))
    /\ UNCHANGED <<addresses, seeds, bindings, moduli>>

hashModulus(program, modulus) ==
    /\ Computed < MaxComputed
    /\ moduli' = moduli \cup Value(program, modulus, ModulusHash(program, modulus))
    /\ UNCHANGED <<addresses, seeds, bindings, nonces>>

Next ==
    \/ \E a \in Accounts, program \in {"client", "adapter", "prover", "circuit", "contract"} :
         computeAddressSeed(program, a)
    \/ \E a \in Accounts, program \in {"client", "adapter"} : computeAddress(program, a)
    \/ \E k \in Keys, program \in {"client", "adapter", "prover", "circuit", "verifier",
                                 "smart_wallet"} :
         \/ computeEphPkHash(program, k)
         \/ program \notin {"smart_wallet", "prover"} /\ computeNonce(program, k)
    \/ \E modulus \in Moduli, program \in {"client", "circuit", "registry"} :
         hashModulus(program, modulus)

Spec == Init /\ [][Next]_vars

-----------------------------------------------------------------------------
(* Properties.                                                             *)

TypeOK ==
    /\ Computed <= MaxComputed
    /\ \A x \in addresses \cup seeds : x.of \in Accounts
    /\ \A x \in bindings \cup nonces : x.of \in Keys
    /\ \A x \in moduli : x.of \in Moduli

\* "All hashes computed here will match those computed on-chain": one modulus has one
\* hash and no other modulus the same, in the SDK and in the registry, and so for a key
\* in the SDK, the circuit, the verifier and the smart wallet.  The nonce of a request is
\* the end of what the verifier computes for it and for no other key, epoch or randomness.
\* The seed of the SDK's client is that of the contracts.  No program gives two accounts,
\* by subject, audience and salt, the same seed, or two moduli or keys the same hash; for
\* the prover, the circuit and the adapter this is all that is claimed of the seed, and
\* for the prover of the key, of which it takes the digits for others than they are.
HashesAgree ==
    /\ \A x, y \in moduli :
         x.by = y.by \/ {x.by, y.by} = {"client", "registry"} =>
           (x.is = y.is <=> x.of = y.of)
    /\ \A x, y \in bindings :
         x.by = y.by \/ "prover" \notin {x.by, y.by} =>
           (x.is = y.is <=> <<x.of.high, x.of.low>> = <<y.of.high, y.of.low>>)
    /\ LET Short(x) == IF x.by \in {"client", "adapter"} THEN x.is ELSE Last20Bytes(x.is)
       IN  \A x, y \in nonces : Short(x) = Short(y) <=> x.of = y.of
    /\ LET Who(x) == <<x.of.sub, x.of.aud, x.of.salt>>
       IN  \A x, y \in seeds :
             x.by = y.by \/ {x.by, y.by} = {"client", "contract"} =>
               (x.is = y.is <=> Who(x) = Who(y))

\* "Same Google account always produces the same Stellar address", whichever of the
\* SDK's two entrances it comes in by.
OneAddressPerAccount ==
    \A x, y \in addresses : x.of = y.of => x.is = y.is
=============================================================================
