-------------------------------- MODULE Sdk --------------------------------
(***************************************************************************)
(* The protocols of the SDK: the connection of the wallet adapter, its     *)
(* transactions, the x402 client and the salts, and beside them what is    *)
(* computed: the hashes that bind a login, the numbers of the circuits and *)
(* the fields of a message.                                                *)
(* What passes between the parts is a value (a salt, a session, a hash)    *)
(* and no state, so the behaviours in which one part is used show all      *)
(* there is to see of it.  The definitions of the connection are in scope  *)
(* under their own names, the others' behind those of their instances.     *)
(***************************************************************************)
EXTENDS WalletAdapter

CONSTANTS
    None,
    Payments, Sessions, Networks, maxAttempts, MaxSwitches,
    Resources, Asks, autoPayThreshold, Unit, Validity, Timeout, ClientMaxTime, MaxCalls,
    Subjects, Kids, SALT_MASTER_KEY, SALT_DERIVATION_SECRET, MaxRotations, MaxRestarts,
    Accounts, EphemeralKeys, Moduli, BytesPerElement, MaxBytes, ChunkBits, MaxComputed,
    CircuitBits, CircuitChunks, ByteBits, NumberBytes, Operands, ByteStrings,
    Byte, WordBytes, Fields, MaxFields, Stroops, Decimals

VARIABLES
    used,  \* the part that is used
    session, network, switches, step, built, signature, client, attempts, outcome,
    number, queued, included,
    now, sequence, pending, applied, calls, early, at, request, tx, proof, endedAt,
    published, rotations, jwks, refreshing, master_key, starts, saltCache, answered,
    addresses, seeds, bindings, nonces, moduli,
    template, input, output,
    written, buffer, offset, read, amount, text

Pay == INSTANCE AdapterPayment

Client == INSTANCE X402Client WITH MaxTime <- ClientMaxTime

Salt == INSTANCE SaltService

Hash == INSTANCE LoginHashes WITH Keys <- EphemeralKeys

Arith == INSTANCE CircuitArithmetic WITH
    n <- CircuitBits, k <- CircuitChunks, numBytes <- NumberBytes

Xdr == INSTANCE SdkXdr

ASSUME PartsAssumption ==
    /\ Pay!PaymentAssumption /\ Client!ClientAssumption /\ Salt!SaltAssumption
    /\ Hash!HashesAssumption /\ Arith!CircuitAssumption /\ Xdr!XdrAssumption

-----------------------------------------------------------------------------
payVars == <<session, network, switches, step, built, signature, client, attempts,
             outcome, number, queued, included>>
clientVars == <<now, sequence, pending, applied, calls, early, at, request, tx, proof,
                endedAt>>
saltVars == <<published, rotations, jwks, refreshing, master_key, starts, saltCache,
              answered>>
hashVars == <<addresses, seeds, bindings, nonces, moduli>>
circuitVars == <<template, input, output>>
xdrVars == <<written, buffer, offset, read, amount, text>>
partsVars ==
    <<used, vars, payVars, clientVars, saltVars, hashVars, circuitVars, xdrVars>>

\* What a part begins with is chosen only where it is the part that is used.
PartsInit ==
    /\ Init /\ Pay!Init /\ Client!Init /\ Salt!Init /\ Hash!Init /\ Arith!Init /\ Xdr!Init
    /\ \/ used = "pay"
       \/ session = (CHOOSE s \in Sessions : TRUE) /\ network = CHOOSE n \in Networks : TRUE
    /\ used = "connect" \/ ~persistSessions
    /\ used = "salt" \/ published = [i \in Salt!Issuers |-> {CHOOSE k \in Kids : TRUE}]

PartsNext ==
    /\ UNCHANGED used
    /\ \/ /\ used = "connect" /\ Next
          /\ UNCHANGED <<payVars, clientVars, saltVars, hashVars, circuitVars, xdrVars>>
       \/ /\ used = "pay" /\ Pay!Next
          /\ UNCHANGED <<vars, clientVars, saltVars, hashVars, circuitVars, xdrVars>>
       \/ /\ used = "x402" /\ Client!Next
          /\ UNCHANGED <<vars, payVars, saltVars, hashVars, circuitVars, xdrVars>>
       \/ /\ used = "salt" /\ Salt!Next
          /\ UNCHANGED <<vars, payVars, clientVars, hashVars, circuitVars, xdrVars>>
       \/ /\ used = "hashes" /\ Hash!Next
          /\ UNCHANGED <<vars, payVars, clientVars, saltVars, circuitVars, xdrVars>>
       \/ /\ used = "circuit" /\ Arith!Next
          /\ UNCHANGED <<vars, payVars, clientVars, saltVars, hashVars, xdrVars>>
       \/ /\ used = "xdr" /\ Xdr!Next
          /\ UNCHANGED <<vars, payVars, clientVars, saltVars, hashVars, circuitVars>>

\* Each part with the fairness that its module gives reasons for.
SdkSpec ==
    /\ PartsInit /\ [][PartsNext]_partsVars
    /\ used = "connect" => Fairness
    /\ used = "salt" => Salt!Fairness

-----------------------------------------------------------------------------
\* The properties are those of the parts' own modules, which say what they are
\* about.

\* Every part's state stays in its domain.
SdkTypeOK ==
    /\ TypeOK /\ Pay!TypeOK /\ Client!TypeOK /\ Salt!TypeOK
    /\ Hash!TypeOK /\ Arith!TypeOK /\ Xdr!TypeOK

\* AdapterPayment: what is reported of a payment is true of every ledger.
ReportedTruthfully == Pay!ReportedTruthfully

\* X402Client: a resource is paid for once, and once more at most for each call that did
\* not wait for the payment before; what is presented to its server was paid as that
\* server asked.
PaidAndPresented == Client!PaidOnce /\ Client!PresentedIsPaid

\* X402Client: "Auto-pay if amount below threshold".
WithinThreshold == Client!WithinThreshold

\* SaltService: a salt is one identity's, and always the same.
SaltIsOfIdentity == Salt!SaltIsOfIdentity

\* SaltService: the keys that are accepted follow those that are published.
KeysFollow == used = "salt" => Salt!KeysFollow

\* LoginHashes: what two programs that have to meet compute of one login is the same, and
\* what any program computes of two logins is not.
HashesAgree == Hash!HashesAgree

\* LoginHashes: "Same Google account always produces the same Stellar address."
OneAddressPerAccount == Hash!OneAddressPerAccount

\* CircuitArithmetic and SdkXdr: numbers through chunks, bytes, words and digits.  Chunk by
\* chunk the circuits compute what they are named for, and keep the bytes of a number; an
\* amount is read as what was written, and so is a field of a message, except that a
\* number below zero of 64 or 128 bits comes back without its sign, modulo its width.
NumbersKept == Arith!ArithmeticRight /\ Arith!BytesKept /\ Xdr!ReadsBack
=============================================================================
