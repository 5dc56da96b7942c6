-------------------------- MODULE SdkValues_proofs --------------------------
(***************************************************************************)
(* What the SDK computes, for all accounts, keys, moduli, widths, numbers  *)
(* and messages: the hashes that bind a login agree where they have to and *)
(* differ where they have to, the circuits' arithmetic on chunks is that   *)
(* of the numbers, and what is read of a message is what was written.      *)
(***************************************************************************)
EXTENDS Sdk, CollectionLemmas

-----------------------------------------------------------------------------
(* LoginHashes.                                                            *)

LEMMA HashNumerals ==
    /\ \A x, b : Hash!Power(x, b) = Power(x, b)
    /\ \A x, b : Hash!LittleEndian(x, b) = LittleEndian(x, b)
    /\ \A x, b : Hash!BigEndian(x, b) = BigEndian(x, b)
    /\ \A x, b, c : Hash!Digits(x, b, c) = Digits(x, b, c)
<1>1. ASSUME NEW x, NEW b PROVE Hash!Power(x, b) = Power(x, b)
  BY DEF Hash!Power, Power
<1>2. ASSUME NEW x, NEW b PROVE Hash!LittleEndian(x, b) = LittleEndian(x, b)
  BY DEF Hash!LittleEndian, LittleEndian, Hash!Power, Power
<1>3. ASSUME NEW x, NEW b PROVE Hash!BigEndian(x, b) = BigEndian(x, b)
  BY <1>2 DEF Hash!BigEndian, BigEndian
<1>4. ASSUME NEW x, NEW b, NEW c PROVE Hash!Digits(x, b, c) = Digits(x, b, c)
  BY DEF Hash!Digits, Digits
<1> QED
  BY <1>1, <1>2, <1>3, <1>4

\* No two hashes of different inputs are the same.
LEMMA Terms ==
    /\ \A x, y : Hash!Number(x) = Hash!Number(y) => x = y
    /\ \A x, y : Hash!Poseidon(x) = Hash!Poseidon(y) => x = y
    /\ \A x, y : Hash!Blake2b(x) = Hash!Blake2b(y) => x = y
    /\ \A x, y : Hash!Last20Bytes(x) = Hash!Last20Bytes(y) => x = y
    /\ \A x, y : Hash!Number(x) # Hash!Poseidon(y)
BY DEF Hash!Number, Hash!Poseidon, Hash!Blake2b, Hash!Last20Bytes

\* What the sponge gives after each number.
States(f, numbers) ==
    /\ f = [i \in 0..Len(numbers) |-> f[i]]
    /\ f[0] = Hash!Number(0)
    /\ \A i \in 1..Len(numbers) : f[i] = Hash!Poseidon(<<f[i - 1], Hash!Number(numbers[i])>>)

LEMMA StatesExist == ASSUME NEW S, NEW numbers \in Seq(S) PROVE \E f : States(f, numbers)
<1> DEFINE m == Len(numbers)
           Upto(f, l) ==
             /\ f = [i \in 0..m |-> f[i]]
             /\ f[0] = Hash!Number(0)
             /\ \A i \in 1..l : f[i] = Hash!Poseidon(<<f[i - 1], Hash!Number(numbers[i])>>)
           C == {l \in 0..m : \E f : Upto(f, l)}
<1>0. m \in Nat
  OBVIOUS
<1> HIDE DEF m
<1>1. 0 \in C
  <2> DEFINE f == [i \in 0..m |-> Hash!Number(0)]
  <2>1. f = [i \in 0..m |-> f[i]] /\ f[0] = Hash!Number(0)
    BY <1>0
  <2> HIDE DEF f
  <2>2. Upto(f, 0)
    BY <2>1
  <2> QED
    BY <1>0, <2>2
<1>2. ASSUME NEW l \in 1..m, l - 1 \in C PROVE l \in C
  <2>1. PICK f : Upto(f, l - 1)
    BY <1>2
  <2> DEFINE e == Hash!Poseidon(<<f[l - 1], Hash!Number(numbers[l])>>)
             g == [i \in 0..m |-> IF i = l THEN e ELSE f[i]]
  <2>2. g = [i \in 0..m |-> g[i]] /\ g[l] = e /\ \A i \in 0..l - 1 : g[i] = f[i]
    BY <1>0
  <2> HIDE DEF g
  <2>3. /\ l - 1 \in 0..l - 1 /\ 0 \in 0..l - 1 /\ l \in 0..m
        /\ \A i \in 1..l - 1 : i \in 0..l - 1 /\ i - 1 \in 0..l - 1
        /\ \A i \in 1..l : i = l \/ i \in 1..l - 1
    BY <1>0
  <2>4. ASSUME NEW i \in 1..l
        PROVE  g[i] = Hash!Poseidon(<<g[i - 1], Hash!Number(numbers[i])>>)
    <3>1. CASE i = l
      BY <2>2, <2>3, <3>1
    <3>2. CASE i \in 1..l - 1
      <4>1. g[i] = f[i] /\ g[i - 1] = f[i - 1]
        BY <2>2, <2>3, <3>2
      <4> QED
        BY <2>1, <3>2, <4>1
    <3> QED
      BY <2>3, <3>1, <3>2
  <2>5. Upto(g, l)
    BY <2>1, <2>2, <2>3, <2>4
  <2> HIDE DEF Upto
  <2> QED
    BY <2>3, <2>5
<1>3. 0..m \subseteq C
  <2> HIDE DEF C
  <2> QED
    BY <1>0, <1>1, <1>2, CountInduct
<1>4. m \in C
  <2>1. m \in 0..m
    BY <1>0
  <2> HIDE DEF C
  <2> QED
    BY <1>3, <2>1
<1> QED
  BY <1>4 DEF States, m

LEMMA SpongeIsLast ==
    ASSUME NEW S, NEW numbers \in Seq(S)
    PROVE  \E f : States(f, numbers) /\ Hash!Sponge(numbers) = f[Len(numbers)]
<1> DEFINE Is(f) == f = [i \in 0..Len(numbers) |->
                           IF i = 0 THEN Hash!Number(0)
                           ELSE Hash!Poseidon(<<f[i - 1], Hash!Number(numbers[i])>>)]
           state == CHOOSE f : Is(f)
<1>1. PICK f : States(f, numbers)
  BY StatesExist
<1>2. \A i \in 1..Len(numbers) : i # 0 /\ i \in 0..Len(numbers)
  OBVIOUS
<1>3. \A i \in 0..Len(numbers) : i = 0 \/ i \in 1..Len(numbers)
  OBVIOUS
<1>4. Is(f)
  <2>1. \A i \in 0..Len(numbers) :
          f[i] = IF i = 0 THEN Hash!Number(0)
                 ELSE Hash!Poseidon(<<f[i - 1], Hash!Number(numbers[i])>>)
    BY <1>1, <1>3 DEF States
  <2>2. f = [i \in 0..Len(numbers) |-> f[i]]
    BY <1>1 DEF States
  <2> QED
    BY <2>1, <2>2
<1>5. Is(state)
  <2> HIDE DEF Is
  <2> QED
    BY <1>4
<1>6. Hash!Sponge(numbers) = state[Len(numbers)]
  BY DEF Hash!Sponge
<1> HIDE DEF state
<1>7. States(state, numbers)
  <2>1. DOMAIN state = 0..Len(numbers) /\ 0 \in 0..Len(numbers)
    BY <1>5
  <2>2. state = [i \in 0..Len(numbers) |-> state[i]]
    BY <1>5, <2>1
  <2>3. state[0] = Hash!Number(0)
    BY <1>5, <2>1
  <2>4. \A i \in 1..Len(numbers) :
          state[i] = Hash!Poseidon(<<state[i - 1], Hash!Number(numbers[i])>>)
    BY <1>2, <1>5
  <2> QED
    BY <2>2, <2>3, <2>4 DEF States
<1> QED
  BY <1>6, <1>7

\* As many numbers give the same hash only if they are the same numbers.
LEMMA SpongeSame ==
    ASSUME NEW S, NEW x \in Seq(S), NEW y \in Seq(S), Len(x) = Len(y),
           Hash!Sponge(x) = Hash!Sponge(y)
    PROVE  x = y
<1> DEFINE m == Len(x)
<1>0. m \in Nat /\ m = Len(y)
  OBVIOUS
<1>1. PICK f : States(f, x) /\ Hash!Sponge(x) = f[m]
  BY SpongeIsLast
<1>2. PICK g : States(g, y) /\ Hash!Sponge(y) = g[m]
  BY <1>0, SpongeIsLast
<1>3. f[m] = g[m]
  BY <1>1, <1>2
<1>4. /\ \A i \in 1..m : f[i] = Hash!Poseidon(<<f[i - 1], Hash!Number(x[i])>>)
      /\ \A i \in 1..m : g[i] = Hash!Poseidon(<<g[i - 1], Hash!Number(y[i])>>)
  BY <1>0, <1>1, <1>2 DEF States
<1> HIDE DEF m
<1> DEFINE C == {l \in 0..m : f[m - l] = g[m - l] /\ \A i \in m - l + 1..m : x[i] = y[i]}
<1>5. 0 \in C
  BY <1>0, <1>3
<1>6. ASSUME NEW l \in 1..m, l - 1 \in C PROVE l \in C
  <2> DEFINE j == m - l + 1
  <2>1. j \in 1..m /\ j - 1 = m - l /\ j = m - (l - 1) /\ l \in 0..m
        /\ \A i \in m - l + 1..m : i = j \/ i \in m - (l - 1) + 1..m
    BY <1>0
  <2>2. f[j] = g[j] /\ \A i \in m - (l - 1) + 1..m : x[i] = y[i]
    BY <1>6, <2>1
  <2>3. Hash!Poseidon(<<f[j - 1], Hash!Number(x[j])>>)
          = Hash!Poseidon(<<g[j - 1], Hash!Number(y[j])>>)
    BY <1>4, <2>1, <2>2
  <2> HIDE DEF j
  <2>4. <<f[j - 1], Hash!Number(x[j])>> = <<g[j - 1], Hash!Number(y[j])>>
    BY <2>3, Terms
  <2>5. f[j - 1] = g[j - 1] /\ x[j] = y[j]
    BY <2>4, Terms
  <2> QED
    BY <2>1, <2>2, <2>5
<1>7. 0..m \subseteq C
  <2> HIDE DEF C
  <2> QED
    BY <1>0, <1>5, <1>6, CountInduct
<1>8. \A i \in 1..m : x[i] = y[i]
  <2>1. m \in 0..m /\ m - m + 1 = 1
    BY <1>0
  <2> QED
    BY <1>7, <2>1
<1> QED
  BY <1>0, <1>8 DEF m

-----------------------------------------------------------------------------
(* The pieces of a sequence of bytes.                                      *)

LEMMA HashFacts ==
    /\ BytesPerElement \in Nat \ {0} /\ ChunkBits \in Nat \ {0}
    /\ MaxBytes \in Nat /\ MaxComputed \in Nat
    /\ \A a \in Accounts :
         /\ a \in [iss : Seq(0..255), sub : Seq(1..255), aud : Seq(1..255), salt : Seq(0..63)]
         /\ Len(a.sub) <= MaxBytes /\ Len(a.aud) <= MaxBytes
    /\ \A a, b \in Accounts : Len(a.salt) = Len(b.salt)
    /\ \A k, l \in EphemeralKeys :
         /\ k \in [high : Seq(0..255), low : Seq(0..255), epoch : Nat, randomness : Nat]
         /\ Len(k.high) = Len(k.low) /\ Len(k.high) = Len(l.high)
    /\ \A x, y \in Moduli :
         /\ x \in Seq(0..255) /\ Len(x) = Len(y)
         /\ Power(256, Len(x)) <= Power(Power(2, ChunkBits), 17)
BY PartsAssumption, HashNumerals DEF Hash!HashesAssumption

Rounded(len) == (len + BytesPerElement - 1) \div BytesPerElement

\* There are as many pieces as it takes, and not one more.
LEMMA PieceCount ==
    ASSUME NEW len \in Nat
    PROVE  /\ Rounded(len) \in Nat /\ len <= Rounded(len) * BytesPerElement
           /\ len # 0 => /\ Rounded(len) # 0
                         /\ (Rounded(len) - 1) * BytesPerElement < len
<1> DEFINE B == BytesPerElement
           a == len + B - 1
           c == a \div B
           r == a % B
<1>0. B \in Nat \ {0}
  BY HashFacts
<1>1. a \in Nat /\ a \in Int
  BY <1>0
<1> HIDE DEF B, a
<1>2. c \in Nat /\ r \in 0..B - 1 /\ a = r + c * B
  BY <1>0, <1>1, QuotientRest, QuotientNat
<1>3. Rounded(len) = c
  BY DEF Rounded, a, B
<1> HIDE DEF c, r
<1> DEFINE p == c * B
<1>4. p \in Nat /\ (c - 1) * B = p - B /\ (c = 0 => p = 0)
  BY <1>0, <1>2, TimesNat
<1> HIDE DEF p
<1>5. a = r + p /\ a = len + B - 1
  BY <1>2 DEF p, a
<1>6. (len <= p /\ (len # 0 => p # 0) /\ p - B < len) \/ len = 0
  BY <1>0, <1>2, <1>4, <1>5
<1>7. len = 0 => len <= p
  BY <1>4
<1> QED
  BY <1>2, <1>3, <1>4, <1>6, <1>7 DEF B, p

LastOf(i, len) == IF i * BytesPerElement > len THEN len ELSE i * BytesPerElement

\* A piece has one byte at least, and its bytes are those that follow on the ones of the
\* pieces before it.
LEMMA PieceIs ==
    ASSUME NEW S, NEW bytes \in Seq(S)
    PROVE  /\ DOMAIN Hash!Pieces(bytes) = 1..Rounded(Len(bytes))
           /\ \A i \in 1..Rounded(Len(bytes)) :
                LET piece == Hash!Pieces(bytes)[i]
                    before == (i - 1) * BytesPerElement
                IN  /\ piece \in Seq(S) /\ before \in Nat
                    /\ Len(piece) = LastOf(i, Len(bytes)) - before
                    /\ \A j \in 1..Len(piece) : piece[j] = bytes[before + j]
<1> DEFINE len == Len(bytes)
<1>1. len \in Nat
  OBVIOUS
<1>2. Hash!Pieces(bytes) = [i \in 1..Rounded(len) |->
                              SubSeq(bytes, (i - 1) * BytesPerElement + 1, LastOf(i, len))]
  BY DEF Hash!Pieces, Rounded, LastOf
<1> SUFFICES ASSUME NEW i \in 1..Rounded(len)
             PROVE  LET piece == Hash!Pieces(bytes)[i]
                        before == (i - 1) * BytesPerElement
                    IN  /\ piece \in Seq(S) /\ before \in Nat
                        /\ Len(piece) = LastOf(i, Len(bytes)) - before
                        /\ \A j \in 1..Len(piece) : piece[j] = bytes[before + j]
  BY <1>2
<1> DEFINE B == BytesPerElement
           before == (i - 1) * B
           last == LastOf(i, len)
<1>3. B \in Nat \ {0} /\ B \in Nat /\ Rounded(len) \in Nat /\ len # 0
      /\ (Rounded(len) - 1) * B < len
  <2>1. B \in Nat \ {0} /\ B \in Nat /\ Rounded(len) \in Nat
    BY <1>1, HashFacts, PieceCount
  <2>2. len # 0
    <3> SUFFICES ASSUME len = 0 PROVE FALSE
      OBVIOUS
    <3>1. Rounded(len) = (B - 1) \div B
      BY <2>1 DEF Rounded
    <3>2. (B - 1) \div B = 0
      BY <2>1
    <3> QED
      BY <3>1, <3>2
  <2> QED
    BY <1>1, <2>1, <2>2, PieceCount
<1>4. before \in Nat /\ before < len /\ i * B = before + B
  <2>1. i \in Int /\ i - 1 \in Nat /\ i - 1 <= Rounded(len) - 1
    BY <1>3
  <2>2. (i - 1) * B <= (Rounded(len) - 1) * B
    BY <1>3, <2>1, TimesMonotone
  <2>3. before \in Nat /\ i * B = before + B /\ (Rounded(len) - 1) * B \in Int
    BY <1>3, <2>1, TimesNat
  <2> QED
    BY <1>1, <1>3, <2>2, <2>3
<1> HIDE DEF before
<1>5. last \in Nat /\ last <= len /\ before < last
  BY <1>1, <1>3, <1>4 DEF LastOf
<1>6. Hash!Pieces(bytes)[i] = SubSeq(bytes, before + 1, last)
  BY <1>2 DEF before
<1> HIDE DEF last
<1>7. /\ SubSeq(bytes, before + 1, last) \in Seq(S)
      /\ Len(SubSeq(bytes, before + 1, last)) = last - before
      /\ \A j \in 1..last - before : SubSeq(bytes, before + 1, last)[j] = bytes[before + j]
  BY <1>1, <1>4, <1>5
<1>8. LET piece == Hash!Pieces(bytes)[i]
      IN  /\ piece \in Seq(S) /\ before \in Nat
          /\ Len(piece) = last - before
          /\ \A j \in 1..Len(piece) : piece[j] = bytes[before + j]
  BY <1>4, <1>6, <1>7
<1> QED
  BY <1>8 DEF before, last

\* The pieces make up the bytes.
LEMMA PiecesSame ==
    ASSUME NEW S, NEW x \in Seq(S), NEW y \in Seq(S), Hash!Pieces(x) = Hash!Pieces(y)
    PROVE  x = y
<1> DEFINE B == BytesPerElement
           c == Rounded(Len(x))
<1>1. Len(x) \in Nat /\ Len(y) \in Nat /\ B \in Nat \ {0} /\ B \in Nat
  BY HashFacts
<1>2. c \in Nat /\ Rounded(Len(y)) \in Nat /\ 1..c = 1..Rounded(Len(y))
  <2>1. DOMAIN Hash!Pieces(x) = 1..c /\ DOMAIN Hash!Pieces(y) = 1..Rounded(Len(y))
    BY PieceIs
  <2> QED
    BY <1>1, <2>1, PieceCount
<1>3. c = Rounded(Len(y))
  <2> DEFINE d == Rounded(Len(y))
  <2>1. c \in Nat /\ d \in Nat /\ 1..c = 1..d
    BY <1>2
  <2> HIDE DEF c, d
  <2>2. (c # 0 => c \in 1..c) /\ (d # 0 => d \in 1..d)
    BY <2>1
  <2>3. (c # 0 => c <= d) /\ (d # 0 => d <= c)
    BY <2>1, <2>2
  <2>4. c = d
    BY <2>1, <2>3
  <2> QED
    BY <2>4 DEF d
<1>4. ASSUME NEW z \in Seq(S), Rounded(Len(z)) = c, c # 0
      PROVE  Len(z) = (c - 1) * B + Len(Hash!Pieces(z)[c])
  <2> DEFINE before == (c - 1) * B
             len == Len(z)
  <2>1. c \in 1..Rounded(Len(z)) /\ len \in Nat
    BY <1>2, <1>4
  <2>2. len <= c * B
    BY <1>4, <2>1, PieceCount
  <2>3. /\ before \in Nat /\ Len(Hash!Pieces(z)[c]) = LastOf(c, len) - before
    BY <2>1, PieceIs
  <2>4. LastOf(c, len) = len
    <3> DEFINE p == c * B
    <3>1. p \in Nat /\ len <= p /\ LastOf(c, len) = IF p > len THEN len ELSE p
      BY <1>1, <1>2, <2>2, TimesNat DEF LastOf
    <3> HIDE DEF p, len
    <3> QED
      BY <2>1, <3>1
  <2> HIDE DEF before, len
  <2>5. len = before + Len(Hash!Pieces(z)[c])
    BY <2>1, <2>3, <2>4
  <2> QED
    BY <2>5 DEF before, len
<1>5. ASSUME NEW z \in Seq(S), Rounded(Len(z)) = c, c = 0 PROVE Len(z) = 0
  <2>1. Len(z) \in Nat
    OBVIOUS
  <2>2. Len(z) # 0 => Rounded(Len(z)) # 0
    BY <2>1, PieceCount
  <2> QED
    BY <1>5, <2>2
<1>6. Len(x) = Len(y)
  <2>1. CASE c = 0
    BY <1>3, <1>5, <2>1
  <2>2. CASE c # 0
    BY <1>3, <1>4, <2>2
  <2> QED
    BY <2>1, <2>2
<1>7. ASSUME NEW p \in 1..Len(x) PROVE x[p] = y[p]
  <2> DEFINE a == p - 1
             i == a \div B + 1
             j == (a % B) + 1
             before == (i - 1) * B
  <2>1. a \in Nat /\ a \in Int
    OBVIOUS
  <2>2. i - 1 \in Nat /\ j \in 1..B /\ a = (j - 1) + before /\ i - 1 = a \div B
    <3> DEFINE q == a \div B
               r == a % B
    <3> HIDE DEF a
    <3>1. q \in Nat /\ r \in 0..B - 1 /\ a = r + q * B
      BY <1>1, <2>1, QuotientRest, QuotientNat
    <3>2. i = q + 1 /\ j = r + 1
      OBVIOUS
    <3> HIDE DEF q, r
    <3>3. i - 1 = q /\ j - 1 = r /\ j \in 1..B /\ i - 1 \in Nat
      BY <1>1, <3>1, <3>2
    <3> QED
      BY <3>1, <3>3 DEF q
  <2>3. before \in Nat /\ i \in Nat /\ i # 0 /\ j \in Nat
    BY <1>1, <2>2, TimesNat
  <2> HIDE DEF i, j, before
  <2>4. p = before + j
    BY <2>1, <2>2, <2>3
  <2>5. before < Len(x)
    <3>1. p \in Nat /\ p <= Len(x) /\ 1 <= j
      BY <1>1, <2>2
    <3> QED
      BY <1>1, <2>3, <2>4, <3>1
  <2>6. i \in 1..c
    <3>1. Len(x) <= c * B
      BY <1>1, PieceCount
    <3> SUFFICES ASSUME c < i PROVE FALSE
      BY <1>2, <2>3
    <3> HIDE DEF c
    <3>2. c * B <= (i - 1) * B
      BY <1>1, <1>2, <2>2, <2>3, TimesMonotone
    <3>3. before = (i - 1) * B /\ c * B \in Nat
      BY <1>1, <1>2, TimesNat DEF before
    <3> QED
      BY <1>1, <2>3, <2>5, <3>1, <3>2, <3>3
  <2>7. ASSUME NEW z \in Seq(S), Rounded(Len(z)) = c, Len(z) = Len(x)
        PROVE  z[p] = Hash!Pieces(z)[i][j]
    <3> DEFINE piece == Hash!Pieces(z)[i]
    <3>0. i \in 1..Rounded(Len(z))
      BY <2>6, <2>7
    <3>1. /\ Len(piece) = LastOf(i, Len(z)) - before
          /\ \A l \in 1..Len(piece) : piece[l] = z[before + l]
      BY <3>0, PieceIs DEF before
    <3>2. j \in 1..Len(piece)
      <4> DEFINE e == i * B
                 len == Len(z)
      <4>1. e = before + B
        BY <1>1, <2>3 DEF before
      <4>2. LastOf(i, len) = IF e > len THEN len ELSE e
        BY DEF LastOf
      <4>3. len \in Nat /\ before + j <= len
        BY <1>1, <2>4, <2>7
      <4> HIDE DEF e, len, piece
      <4>4. Len(piece) = LastOf(i, len) - before
        BY <3>1 DEF len
      <4> QED
        BY <1>1, <2>2, <2>3, <4>1, <4>2, <4>3, <4>4
    <3>3. piece[j] = z[before + j]
      BY <3>1, <3>2
    <3> QED
      BY <2>4, <3>3
  <2> QED
    BY <1>3, <1>6, <2>7
<1> QED
  BY <1>6, <1>7

LEMMA PieceType ==
    ASSUME NEW S, NEW bytes \in Seq(S), NEW i \in 1..Rounded(Len(bytes))
    PROVE  /\ Hash!Pieces(bytes)[i] \in Seq(S)
           /\ Len(Hash!Pieces(bytes)[i]) = LastOf(i, Len(bytes)) - (i - 1) * BytesPerElement
<1>1. LET piece == Hash!Pieces(bytes)[i]
          before == (i - 1) * BytesPerElement
      IN  /\ piece \in Seq(S) /\ before \in Nat
          /\ Len(piece) = LastOf(i, Len(bytes)) - before
          /\ \A j \in 1..Len(piece) : piece[j] = bytes[before + j]
  BY PieceIs
<1> QED
  BY <1>1

LEMMA BytesAreNumbers ==
    /\ \A x \in Seq(0..255) : x \in Seq(Nat)
    /\ \A x \in Seq(1..255) : x \in Seq(0..255) /\ x \in Seq(Nat)
<1> DEFINE P == 1..255
           B == 0..255
           N == Nat
<1>1. P \subseteq B /\ B \subseteq N
  OBVIOUS
<1> HIDE DEF P, B, N
<1>2. /\ \A x \in Seq(B) : x \in Seq(N)
      /\ \A x \in Seq(P) : x \in Seq(B) /\ x \in Seq(N)
  BY <1>1, SeqWider
<1> QED
  BY <1>2 DEF P, B, N

-----------------------------------------------------------------------------
(* The hashes of claims: one for each claim, in every program.             *)

LEMMA ElementsSame ==
    ASSUME NEW x \in Seq(0..255), NEW y \in Seq(0..255), Len(x) = Len(y),
           Hash!Elements(x) = Hash!Elements(y)
    PROVE  x = y
<1> DEFINE c == Rounded(Len(x))
           px == Hash!Pieces(x)
           py == Hash!Pieces(y)
           S == 0..255
<1>1. DOMAIN px = 1..c /\ DOMAIN py = 1..c
  BY PieceIs
<1>2. px = [i \in 1..c |-> px[i]] /\ py = [i \in 1..c |-> py[i]]
  BY <1>1 DEF Hash!Pieces
<1>3. ASSUME NEW i \in 1..c PROVE px[i] = py[i]
  <2>1. px[i] \in Seq(S) /\ py[i] \in Seq(S) /\ Len(px[i]) = Len(py[i])
    <3>1. x \in Seq(S) /\ y \in Seq(S) /\ i \in 1..Rounded(Len(x)) /\ i \in 1..Rounded(Len(y))
      OBVIOUS
    <3> HIDE DEF S
    <3>2. px[i] \in Seq(S) /\ Len(px[i]) = LastOf(i, Len(x)) - (i - 1) * BytesPerElement
      BY <3>1, PieceType
    <3>3. py[i] \in Seq(S) /\ Len(py[i]) = LastOf(i, Len(y)) - (i - 1) * BytesPerElement
      BY <3>1, PieceType
    <3> QED
      BY <3>2, <3>3
  <2>2. LittleEndian(px[i], 256) = LittleEndian(py[i], 256)
    <3>1. Hash!Elements(x)[i] = Hash!LittleEndian(px[i], 256)
          /\ Hash!Elements(y)[i] = Hash!LittleEndian(py[i], 256)
      BY <1>1 DEF Hash!Elements
    <3> QED
      BY <3>1, HashNumerals
  <2> DEFINE u == px[i]
             v == py[i]
             base == 256
  <2>3. u \in Seq(0..base - 1) /\ v \in Seq(0..base - 1) /\ base \in Nat /\ Len(u) = Len(v)
        /\ LittleEndian(u, base) = LittleEndian(v, base)
    BY <2>1, <2>2
  <2> HIDE DEF u, v, base
  <2>4. u = v
    BY <2>3, SameDigits
  <2> QED
    BY <2>4 DEF u, v
<1>4. px = py
  BY <1>2, <1>3
<1> QED
  BY <1>4, PiecesSame

LEMMA ElementsType ==
    ASSUME NEW x \in Seq(0..255)
    PROVE  Hash!Elements(x) \in Seq(Nat) /\ Len(Hash!Elements(x)) = Rounded(Len(x))
<1> DEFINE c == Rounded(Len(x))
<1>1. c \in Nat
  BY PieceCount
<1>2. DOMAIN Hash!Pieces(x) = 1..c /\ \A i \in 1..c : Hash!Pieces(x)[i] \in Seq(0..255)
  BY PieceIs
<1>3. ASSUME NEW i \in 1..c PROVE Hash!LittleEndian(Hash!Pieces(x)[i], 256) \in Nat
  <2> DEFINE u == Hash!Pieces(x)[i]
             base == 256
  <2>0. u \in Seq(0..255)
    BY <1>2
  <2>1. u \in Seq(Nat) /\ base \in Nat
    <3>1. u \in Seq(Nat)
      <4> HIDE DEF u
      <4> QED
        BY <2>0, BytesAreNumbers
    <3> QED
      BY <3>1
  <2>2. Hash!LittleEndian(u, base) = LittleEndian(u, base)
    BY HashNumerals
  <2> HIDE DEF u, base
  <2>3. LittleEndian(u, base) \in Nat
    BY <2>1, NumberType
  <2> QED
    BY <2>2, <2>3 DEF u, base
<1>4. Hash!Elements(x) = [i \in 1..c |-> Hash!LittleEndian(Hash!Pieces(x)[i], 256)]
  BY <1>2 DEF Hash!Elements
<1> HIDE DEF c
<1>5. [i \in 1..c |-> Hash!LittleEndian(Hash!Pieces(x)[i], 256)] \in Seq(Nat)
      /\ Len([i \in 1..c |-> Hash!LittleEndian(Hash!Pieces(x)[i], 256)]) = c
  BY <1>1, <1>3
<1> QED
  BY <1>4, <1>5 DEF c

LEMMA SpongeOfBytesSame ==
    ASSUME NEW x \in Seq(0..255), NEW y \in Seq(0..255), Len(x) = Len(y),
           Hash!Sponge(Hash!Elements(x)) = Hash!Sponge(Hash!Elements(y))
    PROVE  x = y
<1>1. /\ Hash!Elements(x) \in Seq(Nat) /\ Hash!Elements(y) \in Seq(Nat)
      /\ Len(Hash!Elements(x)) = Len(Hash!Elements(y))
  BY ElementsType
<1>2. Hash!Elements(x) = Hash!Elements(y)
  BY <1>1, SpongeSame
<1> QED
  BY <1>2, ElementsSame

LEMMA ClientClaimSame ==
    ASSUME NEW x \in Seq(0..255), NEW y \in Seq(0..255),
           Hash!hashBytesToField(x) = Hash!hashBytesToField(y)
    PROVE  x = y
<1>1. <<Hash!Sponge(Hash!Elements(x)), Hash!Number(Len(x))>>
        = <<Hash!Sponge(Hash!Elements(y)), Hash!Number(Len(y))>>
  BY Terms DEF Hash!hashBytesToField
<1>2. Hash!Sponge(Hash!Elements(x)) = Hash!Sponge(Hash!Elements(y)) /\ Len(x) = Len(y)
  BY <1>1, Terms
<1> QED
  BY <1>2, SpongeOfBytesSame

LEMMA CircuitClaimSame ==
    ASSUME NEW x \in Seq(0..255), NEW y \in Seq(0..255),
           Len(x) <= MaxBytes, Len(y) <= MaxBytes,
           Hash!HashBytesToField(x) = Hash!HashBytesToField(y)
    PROVE  x = y
<1> DEFINE fx == Hash!Filled(x)
           fy == Hash!Filled(y)
<1>0. MaxBytes \in Nat
  BY HashFacts
<1>1. <<Hash!Sponge(Hash!Elements(fx)), Hash!Number(Len(x))>>
        = <<Hash!Sponge(Hash!Elements(fy)), Hash!Number(Len(y))>>
  BY Terms DEF Hash!HashBytesToField
<1>2. Hash!Sponge(Hash!Elements(fx)) = Hash!Sponge(Hash!Elements(fy)) /\ Len(x) = Len(y)
  BY <1>1, Terms
<1>3. ASSUME NEW z \in Seq(0..255), Len(z) <= MaxBytes
      PROVE  /\ Hash!Filled(z) \in Seq(0..255) /\ Len(Hash!Filled(z)) = MaxBytes
             /\ \A i \in 1..Len(z) : Hash!Filled(z)[i] = z[i]
  <2>1. Hash!Filled(z) = [i \in 1..MaxBytes |-> IF i <= Len(z) THEN z[i] ELSE 0]
    BY DEF Hash!Filled
  <2>2. \A i \in 1..MaxBytes : (IF i <= Len(z) THEN z[i] ELSE 0) \in 0..255
    <3> SUFFICES ASSUME NEW i \in 1..MaxBytes PROVE (IF i <= Len(z) THEN z[i] ELSE 0) \in 0..255
      OBVIOUS
    <3>1. i <= Len(z) => z[i] \in 0..255
      <4>1. i <= Len(z) => i \in 1..Len(z)
        BY <1>0
      <4> DEFINE S == 0..255
      <4>2. z \in Seq(S)
        OBVIOUS
      <4> HIDE DEF S
      <4>3. i <= Len(z) => z[i] \in S
        BY <4>1, <4>2
      <4> QED
        BY <4>3 DEF S
    <3> QED
      BY <3>1
  <2>3. \A i \in 1..Len(z) : i \in 1..MaxBytes /\ i <= Len(z)
    BY <1>0, <1>3
  <2> DEFINE S == 0..255
             f == Hash!Filled(z)
  <2>4. f \in [1..MaxBytes -> S]
    BY <2>1, <2>2
  <2>5. \A i \in 1..Len(z) : f[i] = z[i]
    BY <2>1, <2>3
  <2> HIDE DEF S, f
  <2>6. f \in Seq(S) /\ Len(f) = MaxBytes
    BY <1>0, <2>4
  <2> QED
    BY <2>5, <2>6 DEF S, f
<1>4. fx \in Seq(0..255) /\ fy \in Seq(0..255) /\ Len(fx) = Len(fy)
  BY <1>3
<1> HIDE DEF fx, fy
<1>5. fx = fy
  BY <1>2, <1>4, SpongeOfBytesSame
<1>6. \A i \in 1..Len(x) : x[i] = y[i]
  BY <1>2, <1>3, <1>5 DEF fx, fy
<1> QED
  BY <1>2, <1>6

LEMMA FieldElementsSame ==
    ASSUME NEW x \in Seq(1..255), NEW y \in Seq(1..255),
           Hash!field_elements(x) = Hash!field_elements(y)
    PROVE  x = y
<1> DEFINE px == Hash!Pieces(x)
           py == Hash!Pieces(y)
<1>1. DOMAIN px = DOMAIN py
  BY DEF Hash!field_elements
<1>2. px = [i \in DOMAIN px |-> px[i]] /\ py = [i \in DOMAIN py |-> py[i]]
  BY DEF Hash!Pieces
<1>3. ASSUME NEW i \in DOMAIN px PROVE px[i] = py[i]
  <2>1. px[i] \in Seq(1..255) /\ py[i] \in Seq(1..255)
    <3> DEFINE S == 1..255
    <3>1. x \in Seq(S) /\ y \in Seq(S)
      OBVIOUS
    <3> HIDE DEF S
    <3>2. DOMAIN px = 1..Rounded(Len(x)) /\ DOMAIN py = 1..Rounded(Len(y))
      BY <3>1, PieceIs
    <3>3. i \in 1..Rounded(Len(x)) /\ i \in 1..Rounded(Len(y))
      BY <1>1, <3>2
    <3>4. px[i] \in Seq(S) /\ py[i] \in Seq(S)
      BY <3>1, <3>3, PieceType
    <3> QED
      BY <3>4 DEF S
  <2>2. BigEndian(px[i], 256) = BigEndian(py[i], 256)
    <3>1. Hash!field_elements(x)[i] = Hash!Number(Hash!BigEndian(px[i], 256))
          /\ Hash!field_elements(y)[i] = Hash!Number(Hash!BigEndian(py[i], 256))
      BY <1>1 DEF Hash!field_elements
    <3>2. Hash!BigEndian(px[i], 256) = Hash!BigEndian(py[i], 256)
      BY <3>1, Terms
    <3> QED
      BY <3>2, HashNumerals
  <2> DEFINE u == px[i]
             v == py[i]
             base == 256
  <2>3. u \in Seq(1..base - 1) /\ v \in Seq(1..base - 1) /\ base \in Nat \ {0}
        /\ BigEndian(u, base) = BigEndian(v, base)
    BY <2>1, <2>2
  <2> HIDE DEF u, v, base
  <2>4. u = v
    BY <2>3, SameText
  <2> QED
    BY <2>4 DEF u, v
<1>4. px = py
  BY <1>1, <1>2, <1>3
<1> QED
  BY <1>4, PiecesSame

LEMMA ProverClaimSame ==
    ASSUME NEW x \in Seq(1..255), NEW y \in Seq(1..255),
           Hash!bytes_to_field_element(x) = Hash!bytes_to_field_element(y)
    PROVE  x = y
<1>1. CASE Len(x) <= BytesPerElement /\ Len(y) <= BytesPerElement
  <2>1. BigEndian(x, 256) = BigEndian(y, 256)
    BY <1>1, Terms, HashNumerals DEF Hash!bytes_to_field_element
  <2> DEFINE base == 256
  <2>2. x \in Seq(1..base - 1) /\ y \in Seq(1..base - 1) /\ base \in Nat \ {0}
        /\ BigEndian(x, base) = BigEndian(y, base)
    BY <2>1
  <2> HIDE DEF base
  <2> QED
    BY <2>2, SameText
<1>2. CASE ~ (Len(x) <= BytesPerElement) /\ ~ (Len(y) <= BytesPerElement)
  <2>1. Hash!field_elements(x) = Hash!field_elements(y)
    BY <1>2, Terms DEF Hash!bytes_to_field_element
  <2> QED
    BY <2>1, FieldElementsSame
<1> QED
  BY <1>1, <1>2, Terms DEF Hash!bytes_to_field_element

-----------------------------------------------------------------------------
(* Texts: what the prover reads of two as long as one another is the same  *)
(* only if they are.                                                       *)

LEMMA Members ==
    ASSUME NEW S, NEW x \in Seq(S)
    PROVE  Len(x) \in Nat /\ DOMAIN x = 1..Len(x) /\ \A i \in 1..Len(x) : x[i] \in S
OBVIOUS

LEMMA SequenceOf ==
    ASSUME NEW S, NEW x \in Seq(Nat), \A i \in 1..Len(x) : x[i] \in S
    PROVE  x \in Seq(S)
OBVIOUS

LEMMA DecimalSame ==
    ASSUME NEW x \in Seq(Nat), NEW y \in Seq(Nat), Len(x) = Len(y),
           Hash!Decimal(x), Hash!Decimal(y), Hash!string_to_field(x) = Hash!string_to_field(y)
    PROVE  x = y
<1> DEFINE base == 10
<1>1. BigEndian(x, base) = BigEndian(y, base)
  BY Terms, HashNumerals DEF Hash!string_to_field
<1>2. ASSUME NEW z \in Seq(Nat), Hash!Decimal(z) PROVE z \in Seq(0..base - 1)
  <2>1. ASSUME NEW i \in 1..Len(z) PROVE z[i] \in 0..base - 1
    <3>1. z[i] \in Nat /\ i \in DOMAIN z
      BY Members
    <3>2. z[i] < 10
      BY <1>2, <3>1 DEF Hash!Decimal
    <3>3. \A d \in Nat : d < 10 => d \in 0..base - 1
      OBVIOUS
    <3> QED
      BY <3>1, <3>2, <3>3
  <2> HIDE DEF base
  <2> QED
    BY <2>1, SequenceOf
<1>3. x \in Seq(0..base - 1) /\ y \in Seq(0..base - 1) /\ base \in Nat
  BY <1>2
<1> HIDE DEF base
<1> QED
  BY <1>1, <1>3, SameBigEndian

LEMMA HexType ==
    ASSUME NEW x \in Seq(0..255)
    PROVE  /\ Hash!Hex(x) \in Seq(Nat) /\ Len(Hash!Hex(x)) = 2 * Len(x)
           /\ \A i \in 1..Len(x) : /\ Hash!Hex(x)[2 * i - 1] = x[i] \div 16
                                  /\ Hash!Hex(x)[2 * i] = x[i] % 16
<1> DEFINE m == Len(x)
           digit(i) == IF i % 2 = 1 THEN x[(i + 1) \div 2] \div 16 ELSE x[i \div 2] % 16
           chars == [i \in 1..2 * m |-> digit(i)]
<1>1. m \in Nat /\ Hash!Hex(x) = chars /\ \A i \in 1..m : x[i] \in 0..255
  <2>1. Hash!Hex(x) = chars
    BY Zenon DEF Hash!Hex
  <2> QED
    BY <2>1, Members
<1>2. \A b \in 0..255 : b \div 16 \in Nat /\ b % 16 \in Nat
  OBVIOUS
<1> HIDE DEF m
<1>3. ASSUME NEW i \in 1..2 * m PROVE digit(i) \in Nat
  <2>1. CASE i % 2 = 1
    <3>1. (i + 1) \div 2 \in 1..m
      BY <1>1, <2>1
    <3> QED
      BY <1>1, <1>2, <2>1, <3>1
  <2>2. CASE i % 2 # 1
    <3>1. i \div 2 \in 1..m
      BY <1>1, <2>2
    <3> QED
      BY <1>1, <1>2, <2>2, <3>1
  <2> QED
    BY <2>1, <2>2
<1>4. ASSUME NEW i \in 1..m
      PROVE  /\ 2 * i - 1 \in 1..2 * m /\ 2 * i \in 1..2 * m
             /\ digit(2 * i - 1) = x[i] \div 16 /\ digit(2 * i) = x[i] % 16
  <2>1. /\ (2 * i - 1) % 2 = 1 /\ (2 * i - 1 + 1) \div 2 = i
        /\ (2 * i) % 2 = 0 /\ (2 * i) \div 2 = i
        /\ 2 * i - 1 \in 1..2 * m /\ 2 * i \in 1..2 * m
    BY <1>1
  <2> QED
    BY <2>1
<1>5. 2 * m \in Nat
  BY <1>1
<1> HIDE DEF digit
<1>6. chars \in Seq(Nat) /\ Len(chars) = 2 * m
  BY <1>3, <1>5
<1>7. \A i \in 1..m : chars[2 * i - 1] = x[i] \div 16 /\ chars[2 * i] = x[i] % 16
  BY <1>4
<1> HIDE DEF chars
<1> QED
  BY <1>1, <1>6, <1>7 DEF m

LEMMA HexSame ==
    ASSUME NEW x \in Seq(0..255), NEW y \in Seq(0..255), Len(x) = Len(y),
           Hash!Hex(x) = Hash!Hex(y)
    PROVE  x = y
<1>1. ASSUME NEW i \in 1..Len(x) PROVE x[i] = y[i]
  <2>1. x[i] \in 0..255 /\ y[i] \in 0..255
    BY Members
  <2>2. x[i] \div 16 = y[i] \div 16 /\ x[i] % 16 = y[i] % 16
    BY HexType
  <2>3. \A b, c \in 0..255 : b \div 16 = c \div 16 /\ b % 16 = c % 16 => b = c
    OBVIOUS
  <2> QED
    BY <2>1, <2>2, <2>3
<1> QED
  BY <1>1

LEMMA ProverReadsHex ==
    ASSUME NEW x \in Seq(0..255), NEW y \in Seq(0..255), Len(x) = Len(y),
           Hash!Decimal(Hash!Hex(x)), Hash!Decimal(Hash!Hex(y)),
           Hash!string_to_field(Hash!Hex(x)) = Hash!string_to_field(Hash!Hex(y))
    PROVE  x = y
<1>1. Hash!Hex(x) = Hash!Hex(y)
  BY HexType, DecimalSame
<1> QED
  BY <1>1, HexSame

LEMMA ProverReadsBase64 ==
    ASSUME NEW x \in Seq(0..63), NEW y \in Seq(0..63), Len(x) = Len(y),
           Hash!Decimal(Hash!Base64(x)), Hash!Decimal(Hash!Base64(y)),
           Hash!string_to_field(Hash!Base64(x)) = Hash!string_to_field(Hash!Base64(y))
    PROVE  x = y
<1> DEFINE char(d) == IF d \in 52..61 THEN d - 52 ELSE d + 10
<1>1. \A d \in 0..63 : char(d) \in Nat /\ (char(d) < 10 => d \in 52..61 /\ char(d) = d - 52)
  OBVIOUS
<1>2. ASSUME NEW z \in Seq(0..63)
      PROVE  /\ Hash!Base64(z) \in Seq(Nat) /\ Len(Hash!Base64(z)) = Len(z)
             /\ \A i \in 1..Len(z) : Hash!Base64(z)[i] = char(z[i]) /\ z[i] \in 0..63
  <2>0. Hash!Base64(z) = [i \in DOMAIN z |-> char(z[i])]
    BY Zenon DEF Hash!Base64
  <2>1. Hash!Base64(z) = [i \in 1..Len(z) |-> char(z[i])] /\ \A i \in 1..Len(z) : z[i] \in 0..63
    BY <2>0, Members
  <2> HIDE DEF char
  <2>2. \A i \in 1..Len(z) : char(z[i]) \in Nat
    BY <1>1, <2>1
  <2> QED
    BY <2>1, <2>2
<1>3. Hash!Base64(x) = Hash!Base64(y)
  BY <1>2, DecimalSame
<1>4. ASSUME NEW i \in 1..Len(x) PROVE x[i] = y[i]
  <2>1. /\ x[i] \in 0..63 /\ y[i] \in 0..63 /\ char(x[i]) = char(y[i])
        /\ Hash!Base64(x)[i] = char(x[i]) /\ i \in DOMAIN Hash!Base64(x)
    BY <1>2, <1>3
  <2>2. char(x[i]) < 10
    BY <2>1 DEF Hash!Decimal
  <2> HIDE DEF char
  <2>3. x[i] \in 52..61 /\ y[i] \in 52..61 /\ x[i] - 52 = y[i] - 52
    BY <1>1, <2>1, <2>2
  <2>4. \A b, c \in 52..61 : b - 52 = c - 52 => b = c
    OBVIOUS
  <2> QED
    BY <2>3, <2>4
<1> QED
  BY <1>4, Members

-----------------------------------------------------------------------------
(* Address seeds.                                                          *)

Who(a) == <<a.sub, a.aud, a.salt>>

LEMMA SaltFieldSame ==
    ASSUME NEW a \in Accounts, NEW b \in Accounts, Hash!saltField(a) = Hash!saltField(b)
    PROVE  a.salt = b.salt
<1> DEFINE base == 64
<1>1. /\ a.salt \in Seq(0..base - 1) /\ b.salt \in Seq(0..base - 1) /\ base \in Nat
      /\ Len(a.salt) = Len(b.salt)
  BY HashFacts
<1>2. BigEndian(a.salt, base) = BigEndian(b.salt, base)
  BY Terms, HashNumerals DEF Hash!saltField
<1> HIDE DEF base
<1> QED
  BY <1>1, <1>2, SameBigEndian

LEMMA SeedParts ==
    ASSUME NEW n, NEW v, NEW w, NEW s, NEW m, NEW u, NEW z, NEW t,
           Hash!compute_address_seed(n, v, w, s) = Hash!compute_address_seed(m, u, z, t)
    PROVE  v = u /\ w = z /\ s = t
<1>1. <<n, v, w, Hash!Poseidon(<<s>>)>> = <<m, u, z, Hash!Poseidon(<<t>>)>>
  BY Terms DEF Hash!compute_address_seed
<1>2. v = u /\ w = z /\ Hash!Poseidon(<<s>>) = Hash!Poseidon(<<t>>)
  BY <1>1
<1>3. <<s>> = <<t>>
  BY <1>2, Terms
<1> QED
  BY <1>2, <1>3

\* A program gives two accounts the same seed only if they are one by subject, audience
\* and salt.
LEMMA SeedSame ==
    ASSUME NEW a \in Accounts, NEW b \in Accounts,
           NEW program \in {"client", "adapter", "prover", "circuit", "contract"},
           program = "prover" =>
             Hash!Decimal(Hash!Base64(a.salt)) /\ Hash!Decimal(Hash!Base64(b.salt))
    PROVE  Hash!Seed(program, a) = Hash!Seed(program, b) <=> Who(a) = Who(b)
<1>1. /\ a.sub \in Seq(1..255) /\ a.aud \in Seq(1..255)
      /\ b.sub \in Seq(1..255) /\ b.aud \in Seq(1..255)
      /\ Len(a.sub) <= MaxBytes /\ Len(a.aud) <= MaxBytes
      /\ Len(b.sub) <= MaxBytes /\ Len(b.aud) <= MaxBytes
  BY HashFacts
<1>2. /\ a.sub \in Seq(0..255) /\ a.aud \in Seq(0..255)
      /\ b.sub \in Seq(0..255) /\ b.aud \in Seq(0..255)
  <2>1. ASSUME NEW z \in Seq(1..255) PROVE z \in Seq(0..255)
    OBVIOUS
  <2> QED
    BY <1>1, <2>1
<1>3. ASSUME Who(a) = Who(b) PROVE Hash!Seed(program, a) = Hash!Seed(program, b)
  <2>1. a.sub = b.sub /\ a.aud = b.aud /\ a.salt = b.salt
    BY <1>3 DEF Who
  <2> QED
    BY <2>1 DEF Hash!Seed, Hash!ClientSeed, Hash!AdapterSeed, Hash!ProverSeed, Hash!CircuitSeed,
       Hash!saltField
<1>4. ASSUME Hash!Seed(program, a) = Hash!Seed(program, b) PROVE Who(a) = Who(b)
  <2>1. CASE program \in {"client", "contract"}
    <3>1. Hash!ClientSeed(a) = Hash!ClientSeed(b)
      BY <1>4, <2>1 DEF Hash!Seed
    <3>2. /\ Hash!hashBytesToField(a.sub) = Hash!hashBytesToField(b.sub)
          /\ Hash!hashBytesToField(a.aud) = Hash!hashBytesToField(b.aud) /\ a.salt = b.salt
      BY <3>1, SeedParts, SaltFieldSame DEF Hash!ClientSeed
    <3>3. a.sub = b.sub /\ a.aud = b.aud
      BY <1>2, <3>2, ClientClaimSame
    <3> QED
      BY <3>2, <3>3 DEF Who
  <2>2. CASE program = "adapter"
    <3>1. Hash!AdapterSeed(a) = Hash!AdapterSeed(b)
      BY <1>4, <2>2 DEF Hash!Seed
    <3>2. /\ Hash!hashToField(a.sub) = Hash!hashToField(b.sub)
          /\ Hash!hashToField(a.aud) = Hash!hashToField(b.aud) /\ a.salt = b.salt
      BY <3>1, SeedParts, SaltFieldSame DEF Hash!AdapterSeed
    <3> QED
      BY <3>2, Terms DEF Who, Hash!hashToField
  <2>3. CASE program = "prover"
    <3>1. Hash!ProverSeed(a) = Hash!ProverSeed(b)
      BY <1>4, <2>3 DEF Hash!Seed
    <3>2. /\ Hash!bytes_to_field_element(a.sub) = Hash!bytes_to_field_element(b.sub)
          /\ Hash!bytes_to_field_element(a.aud) = Hash!bytes_to_field_element(b.aud)
          /\ Hash!string_to_field(Hash!Base64(a.salt)) = Hash!string_to_field(Hash!Base64(b.salt))
      BY <3>1, SeedParts DEF Hash!ProverSeed
    <3>3. a.sub = b.sub /\ a.aud = b.aud
      BY <1>1, <3>2, ProverClaimSame
    <3>4. a.salt = b.salt
      BY <2>3, <3>2, HashFacts, ProverReadsBase64
    <3> QED
      BY <3>3, <3>4 DEF Who
  <2>4. CASE program = "circuit"
    <3>1. Hash!CircuitSeed(a) = Hash!CircuitSeed(b)
      BY <1>4, <2>4 DEF Hash!Seed
    <3>2. /\ Hash!HashBytesToField(a.sub) = Hash!HashBytesToField(b.sub)
          /\ Hash!HashBytesToField(a.aud) = Hash!HashBytesToField(b.aud) /\ a.salt = b.salt
      BY <3>1, SeedParts, SaltFieldSame DEF Hash!CircuitSeed
    <3>3. a.sub = b.sub /\ a.aud = b.aud
      BY <1>1, <1>2, <3>2, CircuitClaimSame
    <3> QED
      BY <3>2, <3>3 DEF Who
  <2> QED
    BY <2>1, <2>2, <2>3, <2>4
<1> QED
  BY <1>3, <1>4

-----------------------------------------------------------------------------
(* Ephemeral keys.                                                         *)

LEMMA HalvesInMiddle ==
    ASSUME NEW S, NEW x \in Seq(S), NEW y \in Seq(S), Len(x) = Len(y)
    PROVE  LET all == x \o y
               half == Len(all) \div 2
           IN  SubSeq(all, 1, half) = x /\ SubSeq(all, half + 1, Len(all)) = y
<1> DEFINE all == x \o y
           m == Len(x)
<1>1. m \in Nat /\ m = Len(y) /\ all \in Seq(S) /\ Len(all) = m + m
  OBVIOUS
<1>2. /\ \A i \in 1..m : all[i] = x[i]
      /\ \A i \in 1..m : all[m + i] = y[i]
  BY <1>1
<1>3. x = [i \in 1..m |-> x[i]] /\ y = [i \in 1..m |-> y[i]]
  BY <1>1
<1> HIDE DEF m
<1>4. (m + m) \div 2 = m
  BY <1>1
<1>5. Len(all) \div 2 = m
  BY <1>1, <1>4
<1> HIDE DEF all
<1>6. SubSeq(all, 1, m) = [i \in 1..m |-> all[i]]
  <2>1. 1..m = 1..(m - 1 + 1) /\ \A i \in 1..m : 1 + i - 1 = i
    BY <1>1
  <2>2. SubSeq(all, 1, m) \in Seq(S) /\ Len(SubSeq(all, 1, m)) = m
        /\ \A i \in 1..m : SubSeq(all, 1, m)[i] = all[i]
    BY <1>1
  <2> QED
    BY <1>1, <2>2
<1>7. SubSeq(all, m + 1, m + m) = [i \in 1..m |-> all[m + i]]
  <2>1. SubSeq(all, m + 1, m + m) \in Seq(S) /\ Len(SubSeq(all, m + 1, m + m)) = m
        /\ \A i \in 1..m : SubSeq(all, m + 1, m + m)[i] = all[m + i]
    BY <1>1
  <2> QED
    BY <1>1, <2>1
<1>8. SubSeq(all, 1, m) = x
  BY <1>2, <1>3, <1>6
<1>9. SubSeq(all, m + 1, m + m) = y
  BY <1>2, <1>3, <1>7
<1> QED
  BY <1>1, <1>5, <1>8, <1>9 DEF all

\* The smart wallet cuts a key in the halves that the others have.
LEMMA WalletSplits ==
    ASSUME NEW k \in EphemeralKeys PROVE Hash!WalletHalves(k) = Hash!Halves(k)
<1>1. k.high \in Seq(0..255) /\ k.low \in Seq(0..255) /\ Len(k.high) = Len(k.low)
  BY HashFacts
<1> DEFINE S == 0..255
<1>2. k.high \in Seq(S) /\ k.low \in Seq(S)
  BY <1>1
<1> HIDE DEF S
<1>3. LET all == k.high \o k.low
          half == Len(all) \div 2
      IN  SubSeq(all, 1, half) = k.high /\ SubSeq(all, half + 1, Len(all)) = k.low
  BY <1>1, <1>2, HalvesInMiddle
<1> QED
  BY <1>3 DEF Hash!WalletHalves, Hash!Halves

\* Two keys have the same halves as numbers only if they are the same bytes.
LEMMA HalvesSame ==
    ASSUME NEW k \in EphemeralKeys, NEW l \in EphemeralKeys
    PROVE  Hash!Halves(k) = Hash!Halves(l) <=> <<k.high, k.low>> = <<l.high, l.low>>
<1>1. /\ k.high \in Seq(0..255) /\ k.low \in Seq(0..255)
      /\ l.high \in Seq(0..255) /\ l.low \in Seq(0..255)
      /\ Len(k.high) = Len(k.low) /\ Len(l.high) = Len(l.low) /\ Len(k.high) = Len(l.high)
  BY HashFacts
<1>2. ASSUME <<k.high, k.low>> = <<l.high, l.low>> PROVE Hash!Halves(k) = Hash!Halves(l)
  <2>1. k.high = l.high /\ k.low = l.low
    BY <1>2
  <2> QED
    BY <2>1 DEF Hash!Halves
<1>3. ASSUME Hash!Halves(k) = Hash!Halves(l) PROVE k.high = l.high /\ k.low = l.low
  <2>1. /\ Hash!Number(Hash!BigEndian(k.high, 256)) = Hash!Number(Hash!BigEndian(l.high, 256))
        /\ Hash!Number(Hash!BigEndian(k.low, 256)) = Hash!Number(Hash!BigEndian(l.low, 256))
    BY <1>3 DEF Hash!Halves
  <2>2. /\ BigEndian(k.high, 256) = BigEndian(l.high, 256)
        /\ BigEndian(k.low, 256) = BigEndian(l.low, 256)
    BY <2>1, Terms, HashNumerals
  <2> DEFINE base == 256
  <2>3. /\ k.high \in Seq(0..base - 1) /\ k.low \in Seq(0..base - 1)
        /\ l.high \in Seq(0..base - 1) /\ l.low \in Seq(0..base - 1)
        /\ base \in Nat
    BY <1>1
  <2>4. /\ BigEndian(k.high, base) = BigEndian(l.high, base)
        /\ BigEndian(k.low, base) = BigEndian(l.low, base)
    BY <2>2
  <2> HIDE DEF base
  <2>5. k.high = l.high
    BY <1>1, <2>3, <2>4, SameBigEndian
  <2>6. k.low = l.low
    BY <1>1, <2>3, <2>4, SameBigEndian
  <2> QED
    BY <2>5, <2>6
<1> QED
  BY <1>2, <1>3

\* The prover's halves, of keys of which it can read both.
Readable(k) == Hash!Decimal(Hash!Hex(k.high)) /\ Hash!Decimal(Hash!Hex(k.low))

LEMMA ProverBindingSame ==
    ASSUME NEW k \in EphemeralKeys, NEW l \in EphemeralKeys, Readable(k), Readable(l)
    PROVE  Hash!Binding("prover", k) = Hash!Binding("prover", l)
             <=> <<k.high, k.low>> = <<l.high, l.low>>
<1>1. /\ k.high \in Seq(0..255) /\ k.low \in Seq(0..255)
      /\ l.high \in Seq(0..255) /\ l.low \in Seq(0..255)
      /\ Len(k.high) = Len(l.high) /\ Len(k.low) = Len(l.low)
  BY HashFacts
<1>2. /\ Hash!Binding("prover", k) = Hash!Poseidon(Hash!ProverHalves(k))
      /\ Hash!Binding("prover", l) = Hash!Poseidon(Hash!ProverHalves(l))
  BY DEF Hash!Binding
<1>3. ASSUME Hash!ProverHalves(k) = Hash!ProverHalves(l) PROVE k.high = l.high /\ k.low = l.low
  <2>1. /\ Hash!string_to_field(Hash!Hex(k.high)) = Hash!string_to_field(Hash!Hex(l.high))
        /\ Hash!string_to_field(Hash!Hex(k.low)) = Hash!string_to_field(Hash!Hex(l.low))
    BY <1>3 DEF Hash!ProverHalves
  <2>2. k.high = l.high
    BY <1>1, <2>1, ProverReadsHex DEF Readable
  <2>3. k.low = l.low
    BY <1>1, <2>1, ProverReadsHex DEF Readable
  <2> QED
    BY <2>2, <2>3
<1>4. ASSUME <<k.high, k.low>> = <<l.high, l.low>>
      PROVE  Hash!ProverHalves(k) = Hash!ProverHalves(l)
  <2>1. k.high = l.high /\ k.low = l.low
    BY <1>4
  <2> QED
    BY <2>1 DEF Hash!ProverHalves
<1> QED
  BY <1>2, <1>3, <1>4, Terms

LEMMA BindingSame ==
    ASSUME NEW k \in EphemeralKeys, NEW l \in EphemeralKeys, NEW program, NEW other,
           \/ program # "prover" /\ other # "prover"
           \/ program = "prover" /\ other = "prover" /\ Readable(k) /\ Readable(l)
    PROVE  Hash!Binding(program, k) = Hash!Binding(other, l)
             <=> <<k.high, k.low>> = <<l.high, l.low>>
<1>p. CASE program = "prover"
  BY <1>p, ProverBindingSame
<1> SUFFICES ASSUME program # "prover", other # "prover"
             PROVE  Hash!Binding(program, k) = Hash!Binding(other, l)
                      <=> <<k.high, k.low>> = <<l.high, l.low>>
  BY <1>p
<1>1. /\ Hash!Binding(program, k) = Hash!Poseidon(Hash!Halves(k))
      /\ Hash!Binding(other, l) = Hash!Poseidon(Hash!Halves(l))
  BY WalletSplits DEF Hash!Binding
<1> QED
  BY <1>1, HalvesSame, Terms

\* The end of the hash where the whole hash is the nonce.
ShortNonce(program, nonce) ==
    IF program \in {"client", "adapter"} THEN nonce ELSE Hash!Last20Bytes(nonce)

LEMMA NonceSame ==
    ASSUME NEW k \in EphemeralKeys, NEW l \in EphemeralKeys, NEW program, NEW other
    PROVE  ShortNonce(program, Hash!Nonce(program, k)) = ShortNonce(other, Hash!Nonce(other, l))
             <=> k = l
<1> DEFINE Of(m) == Hash!Poseidon(<<Hash!Halves(m)[1], Hash!Halves(m)[2],
                                    Hash!Number(m.epoch), Hash!Number(m.randomness)>>)
<1>1. /\ ShortNonce(program, Hash!Nonce(program, k)) = Hash!Last20Bytes(Of(k))
      /\ ShortNonce(other, Hash!Nonce(other, l)) = Hash!Last20Bytes(Of(l))
  BY DEF ShortNonce, Hash!Nonce
<1>2. ASSUME Of(k) = Of(l) PROVE k = l
  <2>1. <<Hash!Halves(k)[1], Hash!Halves(k)[2], Hash!Number(k.epoch), Hash!Number(k.randomness)>>
          = <<Hash!Halves(l)[1], Hash!Halves(l)[2], Hash!Number(l.epoch),
              Hash!Number(l.randomness)>>
    BY <1>2, Terms
  <2>2. /\ Hash!Halves(k)[1] = Hash!Halves(l)[1] /\ Hash!Halves(k)[2] = Hash!Halves(l)[2]
        /\ Hash!Number(k.epoch) = Hash!Number(l.epoch)
        /\ Hash!Number(k.randomness) = Hash!Number(l.randomness)
    BY <2>1
  <2>3. k.epoch = l.epoch /\ k.randomness = l.randomness
    BY <2>2, Terms
  <2>4. Hash!Halves(k) = Hash!Halves(l)
    BY <2>2 DEF Hash!Halves
  <2>5. k.high = l.high /\ k.low = l.low
    BY <2>4, HalvesSame
  <2>6. /\ k \in [high : Seq(0..255), low : Seq(0..255), epoch : Nat, randomness : Nat]
        /\ l \in [high : Seq(0..255), low : Seq(0..255), epoch : Nat, randomness : Nat]
    BY HashFacts
  <2> QED
    BY <2>3, <2>5, <2>6
<1> QED
  BY <1>1, <1>2, Terms

-----------------------------------------------------------------------------
(* Moduli.                                                                 *)

LEMMA ChunksOfModulus ==
    ASSUME NEW x \in Moduli
    PROVE  /\ Hash!modulusToChunks(x) \in Seq(Nat) /\ Len(Hash!modulusToChunks(x)) = 17
           /\ LittleEndian(Hash!modulusToChunks(x), Power(2, ChunkBits)) = BigEndian(x, 256)
<1> DEFINE base == 256
           two == 2
           count == 17
           c == Power(two, ChunkBits)
           modulus_ == BigEndian(x, base)
<1>1. ChunkBits \in Nat /\ x \in Seq(0..base - 1) /\ base \in Nat /\ two \in Nat /\ two # 0
      /\ count \in Nat /\ Power(base, Len(x)) <= Power(c, count)
  BY HashFacts
<1>2. Hash!modulusToChunks(x) = Digits(modulus_, c, count)
  BY HashNumerals DEF Hash!modulusToChunks
<1> HIDE DEF base, two, count
<1>3. c \in Nat \ {0}
  BY <1>1, PowerNext
<1>4. modulus_ \in 0..Power(base, Len(x)) - 1
  BY <1>1, BigEndianBelow
<1>5. Power(base, Len(x)) \in Nat /\ Power(c, count) \in Nat
  <2>1. Len(x) \in Nat
    BY <1>1
  <2> HIDE DEF c
  <2> QED
    BY <1>1, <1>3, <2>1, PowerNext
<1> HIDE DEF c, modulus_
<1>6. modulus_ \in 0..Power(c, count) - 1 /\ modulus_ \in Nat
  BY <1>1, <1>4, <1>5
<1>7. LittleEndian(Digits(modulus_, c, count), c) = modulus_
  BY <1>1, <1>3, <1>6, DigitsNumber
<1>8. Digits(modulus_, c, count) \in Seq(0..c - 1) /\ Len(Digits(modulus_, c, count)) = count
  BY <1>1, <1>3, <1>6, DigitsType
<1>9. Digits(modulus_, c, count) \in Seq(Nat)
  <2> DEFINE S == 0..c - 1
             N == Nat
  <2>1. S \subseteq N /\ Digits(modulus_, c, count) \in Seq(S)
    BY <1>3, <1>8
  <2> HIDE DEF S, N
  <2>2. Digits(modulus_, c, count) \in Seq(N)
    BY <2>1, SeqWider
  <2> QED
    BY <2>2 DEF N
<1> QED
  BY <1>2, <1>7, <1>8, <1>9 DEF base, two, count, c, modulus_

LEMMA ModulusChunksSame ==
    ASSUME NEW x \in Moduli, NEW y \in Moduli, Hash!modulusToChunks(x) = Hash!modulusToChunks(y)
    PROVE  x = y
<1> DEFINE base == 256
<1>1. BigEndian(x, base) = BigEndian(y, base)
  BY ChunksOfModulus
<1>2. x \in Seq(0..base - 1) /\ y \in Seq(0..base - 1) /\ Len(x) = Len(y) /\ base \in Nat
  BY HashFacts
<1> HIDE DEF base
<1> QED
  BY <1>1, <1>2, SameBigEndian

Leaf(chunks, i) == Hash!Number(chunks[i])

\* The tree of hashes, written out.
LEMMA TreeIs ==
    ASSUME NEW c
    PROVE  Hash!Tree(c) =
             Hash!Poseidon(<<Hash!Poseidon(<<Leaf(c, 1), Leaf(c, 2), Leaf(c, 3), Leaf(c, 4)>>),
                             Hash!Poseidon(<<Leaf(c, 5), Leaf(c, 6), Leaf(c, 7), Leaf(c, 8)>>),
                             Hash!Poseidon(<<Leaf(c, 9), Leaf(c, 10), Leaf(c, 11), Leaf(c, 12)>>),
                             Hash!Poseidon(<<Leaf(c, 13), Leaf(c, 14), Leaf(c, 15), Leaf(c, 16)>>),
                             Hash!Poseidon(<<Leaf(c, 17)>>)>>)
<1> DEFINE G(g) == Hash!Poseidon([j \in 1..4 |-> Hash!Number(c[4 * (g - 1) + j])])
           last == Hash!Poseidon(<<Hash!Number(c[17])>>)
<1>1. Hash!Tree(c) = Hash!Poseidon([g \in 1..4 |-> G(g)] \o <<last>>)
  BY DEF Hash!Tree
<1>2. ASSUME NEW a, NEW b, NEW d, NEW e
      PROVE  \A f : (f[1] = a /\ f[2] = b /\ f[3] = d /\ f[4] = e /\ f = [i \in 1..4 |-> f[i]])
                      => f = <<a, b, d, e>>
  OBVIOUS
<1>3. /\ G(1) = Hash!Poseidon(<<Leaf(c, 1), Leaf(c, 2), Leaf(c, 3), Leaf(c, 4)>>)
      /\ G(2) = Hash!Poseidon(<<Leaf(c, 5), Leaf(c, 6), Leaf(c, 7), Leaf(c, 8)>>)
      /\ G(3) = Hash!Poseidon(<<Leaf(c, 9), Leaf(c, 10), Leaf(c, 11), Leaf(c, 12)>>)
      /\ G(4) = Hash!Poseidon(<<Leaf(c, 13), Leaf(c, 14), Leaf(c, 15), Leaf(c, 16)>>)
  <2>1. ASSUME NEW g \in 1..4, NEW o \in {0, 4, 8, 12}, o = 4 * (g - 1)
        PROVE  G(g) = Hash!Poseidon(<<Leaf(c, o + 1), Leaf(c, o + 2), Leaf(c, o + 3),
                                      Leaf(c, o + 4)>>)
    <3> DEFINE f == [j \in 1..4 |-> Hash!Number(c[o + j])]
    <3>1. /\ f = [j \in 1..4 |-> f[j]]
          /\ f[1] = Leaf(c, o + 1) /\ f[2] = Leaf(c, o + 2) /\ f[3] = Leaf(c, o + 3)
          /\ f[4] = Leaf(c, o + 4)
      BY DEF Leaf
    <3>2. G(g) = Hash!Poseidon(f)
      BY <2>1
    <3> HIDE DEF f
    <3>3. f = <<Leaf(c, o + 1), Leaf(c, o + 2), Leaf(c, o + 3), Leaf(c, o + 4)>>
      BY <1>2, <3>1
    <3> QED
      BY <3>2, <3>3
  <2> HIDE DEF G
  <2>2. G(1) = Hash!Poseidon(<<Leaf(c, 0 + 1), Leaf(c, 0 + 2), Leaf(c, 0 + 3), Leaf(c, 0 + 4)>>)
    <3>1. 1 \in 1..4 /\ 0 \in {0, 4, 8, 12} /\ 0 = 4 * (1 - 1)
      OBVIOUS
    <3> QED
      BY ONLY <2>1, <3>1
  <2>3. G(2) = Hash!Poseidon(<<Leaf(c, 4 + 1), Leaf(c, 4 + 2), Leaf(c, 4 + 3), Leaf(c, 4 + 4)>>)
    <3>1. 2 \in 1..4 /\ 4 \in {0, 4, 8, 12} /\ 4 = 4 * (2 - 1)
      OBVIOUS
    <3> QED
      BY ONLY <2>1, <3>1
  <2>4. G(3) = Hash!Poseidon(<<Leaf(c, 8 + 1), Leaf(c, 8 + 2), Leaf(c, 8 + 3), Leaf(c, 8 + 4)>>)
    <3>1. 3 \in 1..4 /\ 8 \in {0, 4, 8, 12} /\ 8 = 4 * (3 - 1)
      OBVIOUS
    <3> QED
      BY ONLY <2>1, <3>1
  <2>5. G(4) = Hash!Poseidon(<<Leaf(c, 12 + 1), Leaf(c, 12 + 2), Leaf(c, 12 + 3), Leaf(c, 12 + 4)>>)
    <3>1. 4 \in 1..4 /\ 12 \in {0, 4, 8, 12} /\ 12 = 4 * (4 - 1)
      OBVIOUS
    <3> QED
      BY ONLY <2>1, <3>1
  <2> QED
    BY <2>2, <2>3, <2>4, <2>5
<1> HIDE DEF G, last
<1>4. [g \in 1..4 |-> G(g)] = <<G(1), G(2), G(3), G(4)>>
  <2> DEFINE f == [g \in 1..4 |-> G(g)]
  <2>1. f = [i \in 1..4 |-> f[i]] /\ f[1] = G(1) /\ f[2] = G(2) /\ f[3] = G(3) /\ f[4] = G(4)
    OBVIOUS
  <2> HIDE DEF f
  <2>2. f = <<G(1), G(2), G(3), G(4)>>
    BY <1>2, <2>1
  <2> QED
    BY <2>2 DEF f
<1>5. ASSUME NEW a, NEW b, NEW d, NEW e, NEW h
      PROVE  <<a, b, d, e>> \o <<h>> = <<a, b, d, e, h>>
  <2> DEFINE x == <<a, b, d, e>> \o <<h>>
             y == <<a, b, d, e, h>>
             S == {a, b, d, e, h}
  <2>1. <<a, b, d, e>> \in Seq(S) /\ <<h>> \in Seq(S) /\ y \in Seq(S) /\ Len(y) = 5
    OBVIOUS
  <2>2. x \in Seq(S) /\ Len(x) = 5
    BY <2>1
  <2>3. x[1] = a /\ x[2] = b /\ x[3] = d /\ x[4] = e /\ x[5] = h
    BY <2>1
  <2>4. y[1] = a /\ y[2] = b /\ y[3] = d /\ y[4] = e /\ y[5] = h
    OBVIOUS
  <2> HIDE DEF x, y, S
  <2>5. \A i \in 1..5 : x[i] = y[i]
    BY <2>3, <2>4
  <2>6. x = y
    BY <2>1, <2>2, <2>5
  <2> QED
    BY <2>6 DEF x, y
<1>6. <<G(1), G(2), G(3), G(4)>> \o <<last>> = <<G(1), G(2), G(3), G(4), last>>
  BY <1>5
<1>7. last = Hash!Poseidon(<<Leaf(c, 17)>>)
  BY DEF last, Leaf
<1> QED
  BY <1>1, <1>3, <1>4, <1>6, <1>7

\* The registry's hash of a modulus is the SDK's.
LEMMA RegistryComputesTree == ASSUME NEW c PROVE Hash!compute_modulus_hash(c) = Hash!Tree(c)
<1> DEFINE e == [i \in 1..17 |-> Hash!Number(c[i])]
<1>1. \A i \in 1..17 : e[i] = Leaf(c, i)
  BY DEF Leaf
<1>2. Hash!compute_modulus_hash(c) =
        Hash!Poseidon(<<Hash!Poseidon(<<e[4 * 0 + 1], e[4 * 0 + 2], e[4 * 0 + 3], e[4 * 0 + 4]>>),
                        Hash!Poseidon(<<e[4 * 1 + 1], e[4 * 1 + 2], e[4 * 1 + 3], e[4 * 1 + 4]>>),
                        Hash!Poseidon(<<e[4 * 2 + 1], e[4 * 2 + 2], e[4 * 2 + 3], e[4 * 2 + 4]>>),
                        Hash!Poseidon(<<e[4 * 3 + 1], e[4 * 3 + 2], e[4 * 3 + 3], e[4 * 3 + 4]>>),
                        Hash!Poseidon(<<e[17]>>)>>)
  BY DEF Hash!compute_modulus_hash
<1> HIDE DEF e
<1>3. /\ e[4 * 0 + 1] = Leaf(c, 1) /\ e[4 * 0 + 2] = Leaf(c, 2)
      /\ e[4 * 0 + 3] = Leaf(c, 3) /\ e[4 * 0 + 4] = Leaf(c, 4)
  BY <1>1
<1>4. /\ e[4 * 1 + 1] = Leaf(c, 5) /\ e[4 * 1 + 2] = Leaf(c, 6)
      /\ e[4 * 1 + 3] = Leaf(c, 7) /\ e[4 * 1 + 4] = Leaf(c, 8)
  BY <1>1
<1>5. /\ e[4 * 2 + 1] = Leaf(c, 9) /\ e[4 * 2 + 2] = Leaf(c, 10)
      /\ e[4 * 2 + 3] = Leaf(c, 11) /\ e[4 * 2 + 4] = Leaf(c, 12)
  BY <1>1
<1>6. /\ e[4 * 3 + 1] = Leaf(c, 13) /\ e[4 * 3 + 2] = Leaf(c, 14)
      /\ e[4 * 3 + 3] = Leaf(c, 15) /\ e[4 * 3 + 4] = Leaf(c, 16) /\ e[17] = Leaf(c, 17)
  BY <1>1
<1> QED
  BY <1>2, <1>3, <1>4, <1>5, <1>6, TreeIs

LEMMA TreeSame ==
    ASSUME NEW x \in Seq(Nat), NEW y \in Seq(Nat), Len(x) = 17, Len(y) = 17,
           Hash!Tree(x) = Hash!Tree(y)
    PROVE  x = y
<1> DEFINE P(c, a, b, d, e) == Hash!Poseidon(<<Leaf(c, a), Leaf(c, b), Leaf(c, d), Leaf(c, e)>>)
           All(c) == <<P(c, 1, 2, 3, 4), P(c, 5, 6, 7, 8), P(c, 9, 10, 11, 12),
                       P(c, 13, 14, 15, 16), Hash!Poseidon(<<Leaf(c, 17)>>)>>
<1>1. All(x) = All(y)
  <2>1. Hash!Tree(x) = Hash!Poseidon(All(x)) /\ Hash!Tree(y) = Hash!Poseidon(All(y))
    BY TreeIs
  <2> HIDE DEF All
  <2> QED
    BY <2>1, Terms
<1>2. ASSUME NEW a, NEW b, NEW d, NEW e, P(x, a, b, d, e) = P(y, a, b, d, e)
      PROVE  x[a] = y[a] /\ x[b] = y[b] /\ x[d] = y[d] /\ x[e] = y[e]
  <2>1. <<Leaf(x, a), Leaf(x, b), Leaf(x, d), Leaf(x, e)>>
          = <<Leaf(y, a), Leaf(y, b), Leaf(y, d), Leaf(y, e)>>
    BY <1>2, Terms
  <2>2. Leaf(x, a) = Leaf(y, a) /\ Leaf(x, b) = Leaf(y, b) /\ Leaf(x, d) = Leaf(y, d)
        /\ Leaf(x, e) = Leaf(y, e)
    BY <2>1
  <2> QED
    BY <2>2, Terms DEF Leaf
<1>3. x[17] = y[17]
  <2>1. <<Leaf(x, 17)>> = <<Leaf(y, 17)>>
    BY <1>1, Terms
  <2> QED
    BY <2>1, Terms DEF Leaf
<1>4. /\ P(x, 1, 2, 3, 4) = P(y, 1, 2, 3, 4) /\ P(x, 5, 6, 7, 8) = P(y, 5, 6, 7, 8)
      /\ P(x, 9, 10, 11, 12) = P(y, 9, 10, 11, 12)
      /\ P(x, 13, 14, 15, 16) = P(y, 13, 14, 15, 16)
  <2> HIDE DEF P
  <2> QED
    BY <1>1
<1> HIDE DEF P
<1>5. /\ x[1] = y[1] /\ x[2] = y[2] /\ x[3] = y[3] /\ x[4] = y[4]
      /\ x[5] = y[5] /\ x[6] = y[6] /\ x[7] = y[7] /\ x[8] = y[8]
      /\ x[9] = y[9] /\ x[10] = y[10] /\ x[11] = y[11] /\ x[12] = y[12]
      /\ x[13] = y[13] /\ x[14] = y[14] /\ x[15] = y[15] /\ x[16] = y[16]
  BY <1>2, <1>4
<1>6. \A i \in 1..17 : x[i] = y[i]
  <2>1. \A i \in 1..17 : i \in {1, 2, 3, 4, 5, 6, 7, 8, 9, 10, 11, 12, 13, 14, 15, 16, 17}
    OBVIOUS
  <2> QED
    BY <1>3, <1>5, <2>1
<1> DEFINE count == 17
           N == Nat
<1>7. x \in Seq(N) /\ y \in Seq(N) /\ Len(x) = count /\ Len(y) = count
      /\ \A i \in 1..count : x[i] = y[i]
  BY <1>6
<1> HIDE DEF count, N
<1> QED
  BY ONLY <1>7, SeqSame

\* Two moduli have the same hash only if they are one, in each program; the SDK's hash is
\* the registry's.
LEMMA ModulusHashSame ==
    ASSUME NEW x \in Moduli, NEW y \in Moduli,
           NEW program \in {"client", "circuit", "registry"},
           NEW other \in {"client", "circuit", "registry"},
           program = other \/ {program, other} = {"client", "registry"}
    PROVE  Hash!ModulusHash(program, x) = Hash!ModulusHash(other, y) <=> x = y
<1> DEFINE cx == Hash!modulusToChunks(x)
           cy == Hash!modulusToChunks(y)
<1>1. cx \in Seq(Nat) /\ cy \in Seq(Nat) /\ Len(cx) = 17 /\ Len(cy) = 17 /\ (cx = cy => x = y)
      /\ (x = y => cx = cy)
  BY ChunksOfModulus, ModulusChunksSame
<1>2. CASE program = "circuit" /\ other = "circuit"
  <2>1. /\ Hash!ModulusHash(program, x) = Hash!Sponge(cx)
        /\ Hash!ModulusHash(other, y) = Hash!Sponge(cy)
    BY <1>2 DEF Hash!ModulusHash, Hash!HashModulusToField
  <2> HIDE DEF cx, cy
  <2> QED
    BY <1>1, <2>1, SpongeSame
<1>3. CASE program \in {"client", "registry"} /\ other \in {"client", "registry"}
  <2>1. /\ Hash!ModulusHash(program, x) = Hash!Tree(cx)
        /\ Hash!ModulusHash(other, y) = Hash!Tree(cy)
    BY <1>3, RegistryComputesTree DEF Hash!ModulusHash, Hash!hashModulusToField
  <2> HIDE DEF cx, cy
  <2> QED
    BY <1>1, <2>1, TreeSame
<1>4. \/ program = "circuit" /\ other = "circuit"
      \/ program \in {"client", "registry"} /\ other \in {"client", "registry"}
  OBVIOUS
<1> QED
  BY <1>2, <1>3, <1>4

-----------------------------------------------------------------------------
(* What is computed.                                                       *)

\* Every value is what the program that computed it computes for what it is the value of.
ComputedSoFar ==
    /\ \A x \in addresses : x.of \in Accounts
    /\ \A x \in seeds : /\ x.of \in Accounts /\ x.is = Hash!Seed(x.by, x.of)
                        /\ x.by \in {"client", "adapter", "prover", "circuit", "contract"}
                        /\ x.by = "prover" => Hash!Decimal(Hash!Base64(x.of.salt))
    /\ \A x \in bindings : /\ x.of \in EphemeralKeys /\ x.is = Hash!Binding(x.by, x.of)
                           /\ x.by = "prover" => Readable(x.of)
    /\ \A x \in nonces : x.of \in EphemeralKeys /\ x.is = Hash!Nonce(x.by, x.of)
    /\ \A x \in moduli : /\ x.of \in Moduli /\ x.is = Hash!ModulusHash(x.by, x.of)
                         /\ x.by \in {"client", "circuit", "registry"}

Sizes ==
    /\ IsFiniteSet(addresses) /\ IsFiniteSet(seeds) /\ IsFiniteSet(bindings)
    /\ IsFiniteSet(nonces) /\ IsFiniteSet(moduli)
    /\ Hash!Computed <= MaxComputed

HashInv == ComputedSoFar /\ Sizes

LEMMA HashCount ==
    Hash!Computed = Cardinality(addresses) + Cardinality(seeds) + Cardinality(bindings)
                      + Cardinality(nonces) + Cardinality(moduli)
<1>1. ASSUME NEW S PROVE Hash!Cardinality(S) = Cardinality(S)
  BY DEF Cardinality, Hash!Cardinality
<1> QED
  BY <1>1 DEF Hash!Computed

LEMMA HashCountThen ==
    Hash!Computed' = Cardinality(addresses') + Cardinality(seeds') + Cardinality(bindings')
                       + Cardinality(nonces') + Cardinality(moduli')
<1>1. ASSUME NEW S PROVE Hash!Cardinality(S) = Cardinality(S)
  BY DEF Cardinality, Hash!Cardinality
<1> QED
  BY <1>1 DEF Hash!Computed

LEMMA HashBegins == Hash!Init => HashInv
<1> SUFFICES ASSUME Hash!Init PROVE HashInv
  OBVIOUS
<1>1. IsFiniteSet({}) /\ Cardinality({}) = 0
  BY FS_EmptySet
<1>2. Hash!Computed = 0
  BY <1>1, HashCount DEF Hash!Init
<1> QED
  BY <1>1, <1>2, HashFacts DEF Hash!Init, HashInv, ComputedSoFar, Sizes

LEMMA OneMore ==
    ASSUME NEW S, IsFiniteSet(S), NEW x
    PROVE  /\ IsFiniteSet(S \cup {x}) /\ Cardinality(S) \in Nat
           /\ Cardinality(S \cup {x}) \in Nat /\ Cardinality(S \cup {x}) <= Cardinality(S) + 1
<1>1. IsFiniteSet(S \cup {x}) /\ Cardinality(S \cup {x}) \in {Cardinality(S), Cardinality(S) + 1}
  BY FS_AddElement
<1>2. Cardinality(S) \in Nat
  BY FS_CardinalityType
<1> QED
  BY <1>1, <1>2

LEMMA HashStep == ASSUME HashInv, [Hash!Next]_(Hash!vars) PROVE HashInv'
<1> DEFINE a == Cardinality(addresses)
           s == Cardinality(seeds)
           b == Cardinality(bindings)
           n == Cardinality(nonces)
           m == Cardinality(moduli)
<1>1. a \in Nat /\ s \in Nat /\ b \in Nat /\ n \in Nat /\ m \in Nat
      /\ MaxComputed \in Nat /\ a + s + b + n + m <= MaxComputed
  BY FS_CardinalityType, HashFacts, HashCount DEF HashInv, Sizes
<1>2. CASE UNCHANGED Hash!vars
  BY <1>2 DEF Hash!vars, HashInv, ComputedSoFar, Sizes, Hash!Computed
<1>3. ASSUME NEW account \in Accounts,
             NEW program \in {"client", "adapter", "prover", "circuit", "contract"},
             Hash!computeAddressSeed(program, account)
      PROVE  HashInv'
  <2> DEFINE x == [by |-> program, of |-> account, is |-> Hash!Seed(program, account)]
  <2>1. /\ seeds' = seeds \cup {x} /\ UNCHANGED <<addresses, bindings, nonces, moduli>>
        /\ a + s + b + n + m < MaxComputed
        /\ program = "prover" => Hash!Decimal(Hash!Base64(account.salt))
    BY <1>3, HashCount DEF Hash!computeAddressSeed, Hash!Value
  <2>2. x.of = account /\ x.by = program /\ x.is = Hash!Seed(program, account)
    OBVIOUS
  <2> HIDE DEF x
  <2>3. IsFiniteSet(seeds') /\ Cardinality(seeds') \in Nat /\ Cardinality(seeds') <= s + 1
    BY <2>1, OneMore DEF HashInv, Sizes
  <2>4. Sizes'
    <3>1. a + Cardinality(seeds') + b + n + m <= MaxComputed
      <4> HIDE DEF a, s, b, n, m
      <4> QED
        BY <1>1, <2>1, <2>3
    <3>2. Hash!Computed' = a + Cardinality(seeds') + b + n + m
      BY <2>1, HashCountThen
    <3> QED
      BY <2>1, <2>3, <3>1, <3>2 DEF HashInv, Sizes
  <2>5. ComputedSoFar'
    BY <1>3, <2>1, <2>2 DEF HashInv, ComputedSoFar
  <2> QED
    BY <2>4, <2>5 DEF HashInv
<1>4. ASSUME NEW account \in Accounts, NEW program \in {"client", "adapter"},
             Hash!computeAddress(program, account)
      PROVE  HashInv'
  <2> DEFINE x == [by |-> program, of |-> account,
                   is |-> Hash!deriveZkLoginAddress(account.iss, Hash!Seed(program, account))]
  <2>1. /\ addresses' = addresses \cup {x} /\ UNCHANGED <<seeds, bindings, nonces, moduli>>
        /\ a + s + b + n + m < MaxComputed
    BY <1>4, HashCount DEF Hash!computeAddress, Hash!Value
  <2>2. x.of = account
    OBVIOUS
  <2> HIDE DEF x
  <2>3. IsFiniteSet(addresses') /\ Cardinality(addresses') \in Nat
        /\ Cardinality(addresses') <= a + 1
    BY <2>1, OneMore DEF HashInv, Sizes
  <2>4. Sizes'
    <3>1. Cardinality(addresses') + s + b + n + m <= MaxComputed
      <4> HIDE DEF a, s, b, n, m
      <4> QED
        BY <1>1, <2>1, <2>3
    <3>2. Hash!Computed' = Cardinality(addresses') + s + b + n + m
      BY <2>1, HashCountThen
    <3> QED
      BY <2>1, <2>3, <3>1, <3>2 DEF HashInv, Sizes
  <2>5. ComputedSoFar'
    BY <1>4, <2>1, <2>2 DEF HashInv, ComputedSoFar
  <2> QED
    BY <2>4, <2>5 DEF HashInv
<1>5. ASSUME NEW k \in EphemeralKeys, NEW program, Hash!computeEphPkHash(program, k)
      PROVE  HashInv'
  <2> DEFINE x == [by |-> program, of |-> k, is |-> Hash!Binding(program, k)]
  <2>1. /\ bindings' = bindings \cup {x} /\ UNCHANGED <<addresses, seeds, nonces, moduli>>
        /\ a + s + b + n + m < MaxComputed
        /\ program = "prover" => Readable(k)
    BY <1>5, HashCount DEF Hash!computeEphPkHash, Hash!Value, Readable
  <2>2. x.of = k /\ x.by = program /\ x.is = Hash!Binding(program, k)
    OBVIOUS
  <2> HIDE DEF x
  <2>3. IsFiniteSet(bindings') /\ Cardinality(bindings') \in Nat
        /\ Cardinality(bindings') <= b + 1
    BY <2>1, OneMore DEF HashInv, Sizes
  <2>4. Sizes'
    <3>1. a + s + Cardinality(bindings') + n + m <= MaxComputed
      <4> HIDE DEF a, s, b, n, m
      <4> QED
        BY <1>1, <2>1, <2>3
    <3>2. Hash!Computed' = a + s + Cardinality(bindings') + n + m
      BY <2>1, HashCountThen
    <3> QED
      BY <2>1, <2>3, <3>1, <3>2 DEF HashInv, Sizes
  <2>5. ComputedSoFar'
    BY <1>5, <2>1, <2>2 DEF HashInv, ComputedSoFar
  <2> QED
    BY <2>4, <2>5 DEF HashInv
<1>6. ASSUME NEW k \in EphemeralKeys, NEW program, Hash!computeNonce(program, k)
      PROVE  HashInv'
  <2> DEFINE x == [by |-> program, of |-> k, is |-> Hash!Nonce(program, k)]
  <2>1. /\ nonces' = nonces \cup {x} /\ UNCHANGED <<addresses, seeds, bindings, moduli>>
        /\ a + s + b + n + m < MaxComputed
    BY <1>6, HashCount DEF Hash!computeNonce, Hash!Value
  <2>2. x.of = k /\ x.by = program /\ x.is = Hash!Nonce(program, k)
    OBVIOUS
  <2> HIDE DEF x
  <2>3. IsFiniteSet(nonces') /\ Cardinality(nonces') \in Nat /\ Cardinality(nonces') <= n + 1
    BY <2>1, OneMore DEF HashInv, Sizes
  <2>4. Sizes'
    <3>1. a + s + b + Cardinality(nonces') + m <= MaxComputed
      <4> HIDE DEF a, s, b, n, m
      <4> QED
        BY <1>1, <2>1, <2>3
    <3>2. Hash!Computed' = a + s + b + Cardinality(nonces') + m
      BY <2>1, HashCountThen
    <3> QED
      BY <2>1, <2>3, <3>1, <3>2 DEF HashInv, Sizes
  <2>5. ComputedSoFar'
    BY <1>6, <2>1, <2>2 DEF HashInv, ComputedSoFar
  <2> QED
    BY <2>4, <2>5 DEF HashInv
<1>7. ASSUME NEW modulus \in Moduli, NEW program \in {"client", "circuit", "registry"},
             Hash!hashModulus(program, modulus)
      PROVE  HashInv'
  <2> DEFINE x == [by |-> program, of |-> modulus, is |-> Hash!ModulusHash(program, modulus)]
  <2>1. /\ moduli' = moduli \cup {x} /\ UNCHANGED <<addresses, seeds, bindings, nonces>>
        /\ a + s + b + n + m < MaxComputed
    BY <1>7, HashCount DEF Hash!hashModulus, Hash!Value
  <2>2. x.of = modulus /\ x.by = program /\ x.is = Hash!ModulusHash(program, modulus)
    OBVIOUS
  <2> HIDE DEF x
  <2>3. IsFiniteSet(moduli') /\ Cardinality(moduli') \in Nat /\ Cardinality(moduli') <= m + 1
    BY <2>1, OneMore DEF HashInv, Sizes
  <2>4. Sizes'
    <3>1. a + s + b + n + Cardinality(moduli') <= MaxComputed
      <4> HIDE DEF a, s, b, n, m
      <4> QED
        BY <1>1, <2>1, <2>3
    <3>2. Hash!Computed' = a + s + b + n + Cardinality(moduli')
      BY <2>1, HashCountThen
    <3> QED
      BY <2>1, <2>3, <3>1, <3>2 DEF HashInv, Sizes
  <2>5. ComputedSoFar'
    BY <1>7, <2>1, <2>2 DEF HashInv, ComputedSoFar
  <2> QED
    BY <2>4, <2>5 DEF HashInv
<1> QED
  BY <1>2, <1>3, <1>4, <1>5, <1>6, <1>7 DEF Hash!Next

LEMMA ComputedAgree == ASSUME ComputedSoFar PROVE Hash!HashesAgree
<1>1. ASSUME NEW x \in moduli, NEW y \in moduli,
             x.by = y.by \/ {x.by, y.by} = {"client", "registry"}
      PROVE  x.is = y.is <=> x.of = y.of
  <2>1. /\ x.is = Hash!ModulusHash(x.by, x.of) /\ y.is = Hash!ModulusHash(y.by, y.of)
        /\ x.of \in Moduli /\ y.of \in Moduli
        /\ x.by \in {"client", "circuit", "registry"}
        /\ y.by \in {"client", "circuit", "registry"}
    BY DEF ComputedSoFar
  <2> QED
    BY <1>1, <2>1, ModulusHashSame
<1>2. ASSUME NEW x \in bindings, NEW y \in bindings,
             x.by = y.by \/ "prover" \notin {x.by, y.by}
      PROVE  x.is = y.is <=> <<x.of.high, x.of.low>> = <<y.of.high, y.of.low>>
  <2>1. /\ x.is = Hash!Binding(x.by, x.of) /\ y.is = Hash!Binding(y.by, y.of)
        /\ x.of \in EphemeralKeys /\ y.of \in EphemeralKeys
    BY DEF ComputedSoFar
  <2>2. \/ x.by # "prover" /\ y.by # "prover"
        \/ x.by = "prover" /\ y.by = "prover" /\ Readable(x.of) /\ Readable(y.of)
    BY <1>2 DEF ComputedSoFar
  <2> QED
    BY <2>1, <2>2, BindingSame
<1>3. ASSUME NEW x \in nonces, NEW y \in nonces
      PROVE  ShortNonce(x.by, x.is) = ShortNonce(y.by, y.is) <=> x.of = y.of
  <2>1. /\ x.is = Hash!Nonce(x.by, x.of) /\ y.is = Hash!Nonce(y.by, y.of)
        /\ x.of \in EphemeralKeys /\ y.of \in EphemeralKeys
    BY DEF ComputedSoFar
  <2> QED
    BY <2>1, NonceSame
<1>4. ASSUME NEW x \in seeds, NEW y \in seeds,
             x.by = y.by \/ {x.by, y.by} = {"client", "contract"}
      PROVE  x.is = y.is <=> Who(x.of) = Who(y.of)
  <2>1. /\ x.is = Hash!Seed(x.by, x.of) /\ y.is = Hash!Seed(y.by, y.of)
        /\ x.of \in Accounts /\ y.of \in Accounts
        /\ x.by \in {"client", "adapter", "prover", "circuit", "contract"}
    BY DEF ComputedSoFar
  <2>3. x.by = "prover" =>
          Hash!Decimal(Hash!Base64(x.of.salt)) /\ Hash!Decimal(Hash!Base64(y.of.salt))
    BY <1>4 DEF ComputedSoFar
  <2>2. Hash!Seed(y.by, y.of) = Hash!Seed(x.by, y.of)
    <3>1. CASE {x.by, y.by} = {"client", "contract"}
      <4>1. x.by \in {"client", "contract"} /\ y.by \in {"client", "contract"}
        BY <3>1
      <4> QED
        BY <4>1 DEF Hash!Seed
    <3> QED
      BY <1>4, <3>1
  <2> QED
    BY <2>1, <2>2, <2>3, SeedSame
<1> QED
  BY <1>1, <1>2, <1>3, <1>4 DEF Hash!HashesAgree, ShortNonce, Who

LEMMA HashTyped == ASSUME HashInv PROVE Hash!TypeOK
BY DEF HashInv, ComputedSoFar, Sizes, Hash!TypeOK

LEMMA HashesHold ==
    Hash!Init /\ [][Hash!Next]_(Hash!vars) => [](Hash!TypeOK /\ Hash!HashesAgree)
<1>1. HashInv => Hash!TypeOK /\ Hash!HashesAgree
  BY HashTyped, ComputedAgree DEF HashInv
<1>2. HashInv /\ [Hash!Next]_(Hash!vars) => HashInv'
  BY HashStep
<1> QED
  BY <1>1, <1>2, HashBegins, PTL

-----------------------------------------------------------------------------
(* CircuitArithmetic.                                                      *)

LEMMA ArithNumerals ==
    /\ \A x, b : Arith!Power(x, b) = Power(x, b)
    /\ \A x, b : Arith!LittleEndian(x, b) = LittleEndian(x, b)
    /\ \A x, b : Arith!BigEndian(x, b) = BigEndian(x, b)
    /\ \A x, b, c : Arith!Digits(x, b, c) = Digits(x, b, c)
<1>1. ASSUME NEW x, NEW b PROVE Arith!Power(x, b) = Power(x, b)
  BY DEF Arith!Power, Power
<1>2. ASSUME NEW x, NEW b PROVE Arith!LittleEndian(x, b) = LittleEndian(x, b)
  BY DEF Arith!LittleEndian, LittleEndian, Arith!Power, Power
<1>3. ASSUME NEW x, NEW b PROVE Arith!BigEndian(x, b) = BigEndian(x, b)
  BY <1>2 DEF Arith!BigEndian, BigEndian
<1>4. ASSUME NEW x, NEW b, NEW c PROVE Arith!Digits(x, b, c) = Digits(x, b, c)
  BY DEF Arith!Digits, Digits
<1> QED
  BY <1>1, <1>2, <1>3, <1>4

Chunks == Seq(0..Arith!Chunk - 1)

LEMMA ArithFacts ==
    /\ CircuitBits \in Nat \ {0} /\ CircuitChunks \in Nat \ {0}
    /\ ByteBits \in Nat \ {0} /\ NumberBytes \in Nat \ {0}
    /\ Arith!Chunk = Power(2, CircuitBits) /\ Arith!Chunk \in Nat /\ Arith!Chunk >= 2
    /\ \A x \in Operands : x \in Chunks /\ Len(x) = CircuitChunks
    /\ \A x \in ByteStrings : x \in Seq(0..Power(2, ByteBits) - 1) /\ Len(x) = NumberBytes
    /\ ByteBits * NumberBytes <= CircuitBits * CircuitChunks
    /\ None \notin {"Compare", "Add", "Sub", "Mult", "Carry", "Cut", "Join", "ToField"}
<1>1. Arith!Chunk = Power(2, CircuitBits)
  BY ArithNumerals DEF Arith!Chunk
<1>2. CircuitBits \in Nat \ {0}
  BY PartsAssumption DEF Arith!CircuitAssumption
<1>3. Power(2, CircuitBits) \in Nat /\ Power(2, CircuitBits) >= 2
  <2> DEFINE two == 2
             one == 1
             c == CircuitBits
             d == c - 1
  <2>1. two \in Nat \ {0} /\ two \in Nat /\ one \in Nat /\ c \in Nat /\ one <= c /\ one + d = c
        /\ d \in Nat
    BY <1>2
  <2>2. Power(two, 0) = 1 /\ Power(two, 0 + 1) = two * Power(two, 0)
    <3> HIDE DEF two
    <3> QED
      BY <2>1, PowerNext
  <2>3. Power(two, one) = two
    BY <2>2
  <2> HIDE DEF two, one, c, d
  <2>4. Power(two, one) <= Power(two, c) /\ Power(two, c) \in Nat
    BY <2>1, PowerMonotone, PowerNext
  <2> QED
    BY <2>3, <2>4 DEF two, c
<1>4. /\ \A x \in Operands : x \in Seq(0..Power(2, CircuitBits) - 1) /\ Len(x) = CircuitChunks
      /\ \A x \in ByteStrings : x \in Seq(0..Power(2, ByteBits) - 1) /\ Len(x) = NumberBytes
  BY PartsAssumption, ArithNumerals DEF Arith!CircuitAssumption
<1> QED
  BY <1>1, <1>2, <1>3, <1>4, PartsAssumption DEF Arith!CircuitAssumption, Chunks

LEMMA ValueIs == ASSUME NEW x PROVE Arith!Value(x) = LittleEndian(x, Arith!Chunk)
BY ArithNumerals DEF Arith!Value

\* What an operand's chunks stand for, chunk after chunk.
LEMMA OperandCounts ==
    ASSUME NEW a \in Operands
    PROVE  /\ a \in Chunks /\ Len(a) = CircuitChunks
           /\ a \in [1..CircuitChunks -> 0..Arith!Chunk - 1]
           /\ \A i \in 1..CircuitChunks : a[i] \in 0..Arith!Chunk - 1
           /\ \E f : Counts(f, a, Arith!Chunk, CircuitChunks)
                       /\ Arith!Value(a) = f[CircuitChunks]
<1> DEFINE B == Arith!Chunk
           m == CircuitChunks
<1>1. a \in Seq(0..B - 1) /\ Len(a) = m /\ B \in Nat
  BY ArithFacts DEF Chunks
<1>2. Arith!Value(a) = LittleEndian(a, B)
  BY ValueIs
<1> HIDE DEF B, m
<1>3. \E f : Counts(f, a, B, Len(a)) /\ LittleEndian(a, B) = f[Len(a)]
  BY <1>1, CountsExist
<1> DEFINE S == 0..B - 1
<1>4. a \in Seq(S)
  BY <1>1
<1> HIDE DEF S
<1>5. a \in [1..m -> S] /\ \A i \in 1..m : a[i] \in S
  BY <1>1, <1>4
<1> QED
  BY <1>1, <1>2, <1>3, <1>4, <1>5 DEF B, m, S, Chunks

LEMMA ComparesRight ==
    ASSUME NEW a \in Operands, NEW b \in Operands
    PROVE  /\ Arith!BigLessThan(a, b) = IF Arith!Value(a) < Arith!Value(b) THEN 1 ELSE 0
           /\ Arith!BigIsEqual(a, b) = IF Arith!Value(a) = Arith!Value(b) THEN 1 ELSE 0
           /\ Arith!BigIsZero(a) = IF Arith!Value(a) = 0 THEN 1 ELSE 0
<1> DEFINE B == Arith!Chunk
           m == CircuitChunks
<1>1. /\ a \in Seq(0..B - 1) /\ b \in Seq(0..B - 1) /\ Len(a) = m /\ Len(b) = m
      /\ B \in Nat /\ B >= 2 /\ m \in Nat
  BY ArithFacts DEF Chunks
<1>2. /\ Arith!Value(a) = LittleEndian(a, B) /\ Arith!Value(b) = LittleEndian(b, B)
  BY ValueIs
<1>3. Arith!BigLessThan(a, b) =
        IF \E i \in 1..m : a[i] < b[i] /\ \A j \in i + 1..m : a[j] = b[j] THEN 1 ELSE 0
  BY DEF Arith!BigLessThan
<1>4. /\ Arith!BigIsEqual(a, b) = IF \A i \in 1..m : a[i] = b[i] THEN 1 ELSE 0
      /\ Arith!BigIsZero(a) = IF \A i \in 1..m : a[i] = 0 THEN 1 ELSE 0
  BY DEF Arith!BigIsEqual, Arith!BigIsZero
<1> HIDE DEF B, m
<1>5. LittleEndian(a, B) < LittleEndian(b, B)
        <=> \E i \in 1..m : a[i] < b[i] /\ SameFrom(i + 1, a, b, m)
  BY <1>1, LessMeans
<1>6. LittleEndian(a, B) = LittleEndian(b, B) <=> \A i \in 1..m : a[i] = b[i]
  <2>1. ASSUME \A i \in 1..m : a[i] = b[i] PROVE a = b
    <3> DEFINE S == 0..B - 1
    <3>1. a \in Seq(S) /\ b \in Seq(S)
      BY <1>1
    <3> HIDE DEF S
    <3> QED
      BY ONLY <1>1, <2>1, <3>1, SeqSame
  <2>2. ASSUME LittleEndian(a, B) = LittleEndian(b, B) PROVE a = b
    BY <1>1, <2>2, SameDigits
  <2> QED
    BY <2>1, <2>2
<1>7. LittleEndian(a, B) = 0 <=> \A i \in 1..m : a[i] = 0
  <2> DEFINE z == [i \in 1..m |-> 0]
  <2>1. z \in Seq(0..B - 1) /\ Len(z) = m /\ \A i \in 1..m : z[i] = 0
    BY <1>1
  <2> HIDE DEF z
  <2>2. LittleEndian(z, B) = 0
    <3> DEFINE e == <<>>
               N == Nat
    <3>1. z \in Seq(N) /\ e \in Seq(N) /\ Len(e) = 0
      <4>1. ASSUME NEW i \in 1..m PROVE z[i] \in N
        BY <2>1
      <4>2. z = [i \in 1..m |-> z[i]]
        BY <2>1
      <4>3. e \in Seq(N) /\ Len(e) = 0
        OBVIOUS
      <4> HIDE DEF N, e
      <4>4. z \in [1..m -> N]
        BY <4>1, <4>2
      <4>5. z \in Seq(N)
        BY ONLY <1>1, <4>4, SeqIs
      <4> QED
        BY <4>3, <4>5
    <3>2. /\ Len(e) <= Len(z) /\ \A i \in 1..Len(e) : z[i] = e[i]
          /\ \A i \in Len(e) + 1..Len(z) : z[i] = 0
      <4> HIDE DEF e
      <4> QED
        BY <1>1, <2>1, <3>1
    <3> HIDE DEF e
    <3>3. LittleEndian(z, B) = LittleEndian(e, B)
      BY <1>1, <3>1, <3>2, ZerosAddNothing DEF N
    <3>4. LittleEndian(e, B) = 0
      <4>1. PICK f \in [0..Len(e) -> Nat] :
              IsValues(f, e, B, Len(e)) /\ LittleEndian(e, B) = f[Len(e)]
        BY <1>1, <3>1, ValuesExist DEF N
      <4> QED
        BY <3>1, <4>1 DEF IsValues
    <3> QED
      BY <3>3, <3>4
  <2>3. ASSUME LittleEndian(a, B) = 0 PROVE a = z
    BY <1>1, <2>1, <2>2, <2>3, SameDigits
  <2>4. ASSUME \A i \in 1..m : a[i] = 0 PROVE a = z
    <3> DEFINE S == 0..B - 1
    <3>1. a \in Seq(S) /\ z \in Seq(S) /\ \A i \in 1..m : a[i] = z[i]
      BY <1>1, <2>1, <2>4
    <3> HIDE DEF S
    <3> QED
      BY ONLY <1>1, <2>1, <3>1, SeqSame
  <2> QED
    BY <2>1, <2>2, <2>3, <2>4
<1> QED
  BY <1>2, <1>3, <1>4, <1>5, <1>6, <1>7 DEF SameFrom

\* Chunk after chunk, what is added is what is left and what is carried on.
LEMMA AddRight ==
    ASSUME NEW a \in Operands, NEW b \in Operands
    PROVE  /\ Arith!Value(Arith!BigAdd(a, b)) = Arith!Value(a) + Arith!Value(b)
           /\ \A i \in DOMAIN Arith!BigAdd(a, b) :
                Arith!BigAdd(a, b)[i] \in 0..Arith!Chunk - 1
<1> DEFINE B == Arith!Chunk
           m == CircuitChunks
           Is(c) == c = [i \in 0..m |-> IF i = 0 THEN 0 ELSE (a[i] + b[i] + c[i - 1]) \div B]
           carry == CHOOSE c : Is(c)
           out == [i \in 1..m |-> (a[i] + b[i] + carry[i - 1]) % B]
           in == [i \in 1..m |-> a[i] + b[i]]
<1>1. /\ B \in Nat \ {0} /\ B \in Nat /\ B >= 2 /\ m \in Nat
      /\ \A i \in 1..m : a[i] \in 0..B - 1 /\ b[i] \in 0..B - 1
  BY ArithFacts, OperandCounts
<1>2. Arith!BigAdd(a, b) = Append(out, carry[m])
  BY DEF Arith!BigAdd
<1>3. PICK f : Counts(f, a, B, m) /\ Arith!Value(a) = f[m]
  BY OperandCounts
<1>4. PICK g : Counts(g, b, B, m) /\ Arith!Value(b) = g[m]
  BY OperandCounts
<1>5. ASSUME NEW x PROVE Arith!Value(x) = LittleEndian(x, B)
  BY ValueIs
<1> HIDE DEF B, m
<1>6. Is(carry)
  <2> DEFINE further == [i \in 1..m |-> [z \in Int |-> (a[i] + b[i] + z) \div B]]
  <2>1. further \in [1..m -> [Int -> Int]]
    BY <1>1
  <2>2. \A i \in 1..m, z \in Int : further[i][z] = (a[i] + b[i] + z) \div B
    OBVIOUS
  <2> HIDE DEF further
  <2>3. PICK c \in [0..m -> Int] : c = [i \in 0..m |-> IF i = 0 THEN 0 ELSE further[i][c[i - 1]]]
    BY <1>1, <2>1, CarriesExist
  <2>4. \A i \in 0..m : i # 0 => i \in 1..m /\ c[i - 1] \in Int
    BY <1>1
  <2>5. \A i \in 0..m : (IF i = 0 THEN 0 ELSE further[i][c[i - 1]])
                          = IF i = 0 THEN 0 ELSE (a[i] + b[i] + c[i - 1]) \div B
    BY <2>2, <2>4
  <2>6. Is(c)
    BY <2>3, <2>5
  <2> HIDE DEF Is
  <2> QED
    BY <2>6
<1> HIDE DEF carry
<1>7. carry[0] = 0 /\ DOMAIN carry = 0..m
      /\ \A i \in 1..m : carry[i] = (a[i] + b[i] + carry[i - 1]) \div B
  <2>1. 0 \in 0..m /\ \A i \in 1..m : i \in 0..m /\ i # 0
    BY <1>1
  <2> QED
    BY <1>6, <2>1
<1>8. \A i \in 0..m : carry[i] \in 0..1
  <2> DEFINE C == {l \in 0..m : carry[l] \in 0..1}
  <2>1. 0 \in C
    BY <1>1, <1>7
  <2>2. ASSUME NEW l \in 1..m, l - 1 \in C PROVE l \in C
    <3> DEFINE x == a[l] + b[l] + carry[l - 1]
               q == x \div B
               r == x % B
    <3>1. x \in Nat /\ x < 2 * B /\ x \in Int
      <4>1. a[l] \in 0..B - 1 /\ b[l] \in 0..B - 1 /\ carry[l - 1] \in 0..1
        BY <1>1, <2>2
      <4> QED
        BY <1>1, <4>1
    <3> HIDE DEF x
    <3>2. q \in Nat /\ r \in 0..B - 1 /\ x = r + q * B
      BY <1>1, <3>1, QuotientRest, QuotientNat
    <3> HIDE DEF q, r
    <3>3. q < 2
      <4> SUFFICES ASSUME 2 <= q PROVE FALSE
        BY <3>2
      <4>1. 2 * B <= q * B
        BY <1>1, <3>2, TimesMonotone
      <4> DEFINE p == q * B
      <4>2. p \in Nat
        BY <1>1, <3>2, TimesNat
      <4> HIDE DEF p
      <4>3. x = r + p /\ 2 * B <= p
        BY <3>2, <4>1 DEF p
      <4> QED
        BY <1>1, <3>1, <3>2, <4>2, <4>3
    <3>4. carry[l] = q /\ l \in 0..m
      BY <1>1, <1>7 DEF q, x
    <3> QED
      BY <3>2, <3>3, <3>4
  <2>3. 0..m \subseteq C
    <3> HIDE DEF C
    <3> QED
      BY <1>1, <2>1, <2>2, CountInduct
  <2> QED
    BY <2>3
<1>9. ASSUME NEW i \in 1..m
      PROVE  out[i] \in 0..B - 1 /\ in[i] \in Int
             /\ in[i] + carry[i - 1] = out[i] + carry[i] * B
  <2> DEFINE x == a[i] + b[i] + carry[i - 1]
  <2>1. x \in Int /\ a[i] + b[i] \in Int
    <3>1. a[i] \in 0..B - 1 /\ b[i] \in 0..B - 1 /\ carry[i - 1] \in 0..1
      BY <1>1, <1>8
    <3> QED
      BY <1>1, <3>1
  <2>2. carry[i] = x \div B
    BY <1>7
  <2>3. out[i] = x % B /\ in[i] + carry[i - 1] = x /\ in[i] = a[i] + b[i]
    OBVIOUS
  <2> HIDE DEF x, out, in
  <2>4. x % B \in 0..B - 1 /\ x = (x % B) + (x \div B) * B
    BY <1>1, <2>1, QuotientRest
  <2> QED
    BY <2>1, <2>2, <2>3, <2>4
<1>10. out \in Seq(0..B - 1) /\ Len(out) = m
  <2> DEFINE S == 0..B - 1
  <2>1. out \in [1..m -> S]
    BY <1>9
  <2> HIDE DEF S, out
  <2>2. out \in Seq(S) /\ Len(out) = m
    BY ONLY <1>1, <2>1, SeqIs
  <2> QED
    BY <2>2 DEF S
<1>11. carry \in [0..m -> Int]
  <2>1. \A i \in 0..m : carry[i] \in Int
    BY <1>8
  <2>2. carry = [i \in 0..m |-> carry[i]]
    BY <1>6, <1>7
  <2> QED
    BY <2>1, <2>2
<1>12. in \in [1..m -> Int] /\ CarriesTo(in, carry, out, B, m)
  BY <1>7, <1>9 DEF CarriesTo
<1> DEFINE s == [i \in 0..m |-> f[i] + g[i]]
<1>13. IsValues(s, in, B, m)
  BY <1>3, <1>4, SumOfValues
<1>14. s \in [0..m -> Int] /\ s[m] = f[m] + g[m]
  <2>1. f \in [0..m -> Nat] /\ g \in [0..m -> Nat] /\ m \in 0..m
    BY <1>1, <1>3, <1>4 DEF Counts
  <2>2. \A i \in 0..m : f[i] + g[i] \in Int
    BY <2>1
  <2> QED
    BY <2>1, <2>2
<1> HIDE DEF s, in, out
<1>15. s[m] = LittleEndian(out, B) + carry[m] * Power(B, m)
  <2>1. Carrying(in, s, carry, out, B, m)
    BY <1>1, <1>10, <1>11, <1>12, <1>13, <1>14 DEF Carrying
  <2>2. Makes(s[m], out, carry[m], B, m)
    BY <2>1, CarriedNumber
  <2> QED
    BY <2>2 DEF Makes
<1>16. out \in Seq(Nat) /\ carry[m] \in Nat /\ carry[m] \in 0..B - 1
  <2> DEFINE S == 0..B - 1
             N == Nat
  <2>1. S \subseteq N /\ out \in Seq(S)
    BY <1>10
  <2>2. m \in 0..m
    BY <1>1
  <2>3. carry[m] \in Nat /\ carry[m] \in 0..B - 1
    BY <1>1, <1>8, <2>2
  <2> HIDE DEF S, N
  <2>4. out \in Seq(N)
    BY ONLY <2>1, SeqWider
  <2> QED
    BY <2>3, <2>4 DEF N
<1>17. LittleEndian(Append(out, carry[m]), B) = LittleEndian(out, B) + carry[m] * Power(B, m)
  BY <1>1, <1>10, <1>16, AppendValue
<1>18. Arith!Value(Arith!BigAdd(a, b)) = Arith!Value(a) + Arith!Value(b)
  <2>1. Arith!Value(Arith!BigAdd(a, b)) = LittleEndian(Append(out, carry[m]), B)
    BY <1>2, <1>5
  <2> QED
    BY <1>3, <1>4, <1>14, <1>15, <1>17, <2>1
<1>19. \A i \in DOMAIN Append(out, carry[m]) : Append(out, carry[m])[i] \in 0..B - 1
  <2> DEFINE S == 0..B - 1
  <2>1. out \in Seq(S) /\ carry[m] \in S
    BY <1>10, <1>16
  <2> HIDE DEF S
  <2>2. Append(out, carry[m]) \in Seq(S)
    BY <2>1
  <2>3. \A i \in DOMAIN Append(out, carry[m]) : Append(out, carry[m])[i] \in S
    BY <2>2
  <2> QED
    BY <2>3 DEF S
<1> QED
  BY <1>2, <1>18, <1>19 DEF B

LEMMA SubRight ==
    ASSUME NEW a \in Operands, NEW b \in Operands
    PROVE  LET output_ == Arith!BigSub(a, b)
           IN  Arith!Value(SubSeq(output_, 1, CircuitChunks))
                   - output_[CircuitChunks + 1] * Arith!Power(Arith!Chunk, CircuitChunks)
                 = Arith!Value(a) - Arith!Value(b)
<1> DEFINE B == Arith!Chunk
           m == CircuitChunks
           Is(c) == c = [i \in 0..m |-> IF i = 0 THEN 0
                                        ELSE 1 - ((a[i] - b[i] - c[i - 1] + B) \div B)]
           borrow == CHOOSE c : Is(c)
           out == [i \in 1..m |-> (a[i] - b[i] - borrow[i - 1] + B) % B]
           in == [i \in 1..m |-> a[i] - b[i]]
           carry == [i \in 0..m |-> 0 - borrow[i]]
<1>1. /\ B \in Nat \ {0} /\ B \in Nat /\ B >= 2 /\ m \in Nat
      /\ \A i \in 1..m : a[i] \in 0..B - 1 /\ b[i] \in 0..B - 1
  BY ArithFacts, OperandCounts
<1>2. Arith!BigSub(a, b) = Append(out, borrow[m])
  BY DEF Arith!BigSub
<1>3. PICK f : Counts(f, a, B, m) /\ Arith!Value(a) = f[m]
  BY OperandCounts
<1>4. PICK g : Counts(g, b, B, m) /\ Arith!Value(b) = g[m]
  BY OperandCounts
<1>5. /\ \A x : Arith!Value(x) = LittleEndian(x, B)
      /\ Arith!Power(B, m) = Power(B, m)
  BY ValueIs, ArithNumerals
<1> HIDE DEF B, m
<1>6. Is(borrow)
  <2> DEFINE further == [i \in 1..m |-> [z \in Int |-> 1 - ((a[i] - b[i] - z + B) \div B)]]
  <2>1. further \in [1..m -> [Int -> Int]]
    BY <1>1
  <2>2. \A i \in 1..m, z \in Int : further[i][z] = 1 - ((a[i] - b[i] - z + B) \div B)
    OBVIOUS
  <2> HIDE DEF further
  <2>3. PICK c \in [0..m -> Int] : c = [i \in 0..m |-> IF i = 0 THEN 0 ELSE further[i][c[i - 1]]]
    BY <1>1, <2>1, CarriesExist
  <2>4. \A i \in 0..m : i # 0 => i \in 1..m /\ c[i - 1] \in Int
    BY <1>1
  <2>5. \A i \in 0..m : (IF i = 0 THEN 0 ELSE further[i][c[i - 1]])
                          = IF i = 0 THEN 0 ELSE 1 - ((a[i] - b[i] - c[i - 1] + B) \div B)
    BY <2>2, <2>4
  <2>6. Is(c)
    BY <2>3, <2>5
  <2> HIDE DEF Is
  <2> QED
    BY <2>6
<1> HIDE DEF borrow
<1>7. borrow[0] = 0 /\ DOMAIN borrow = 0..m
      /\ \A i \in 1..m : borrow[i] = 1 - ((a[i] - b[i] - borrow[i - 1] + B) \div B)
  <2>1. 0 \in 0..m /\ \A i \in 1..m : i \in 0..m /\ i # 0
    BY <1>1
  <2> QED
    BY <1>6, <2>1
<1>8. \A i \in 0..m : borrow[i] \in 0..1
  <2> DEFINE C == {l \in 0..m : borrow[l] \in 0..1}
  <2>1. 0 \in C
    BY <1>1, <1>7
  <2>2. ASSUME NEW l \in 1..m, l - 1 \in C PROVE l \in C
    <3> DEFINE x == a[l] - b[l] - borrow[l - 1] + B
               q == x \div B
               r == x % B
    <3>1. x \in Nat /\ x < 2 * B /\ x \in Int
      <4>1. a[l] \in 0..B - 1 /\ b[l] \in 0..B - 1 /\ borrow[l - 1] \in 0..1
        BY <1>1, <2>2
      <4> QED
        BY <1>1, <4>1
    <3> HIDE DEF x
    <3>2. q \in Nat /\ r \in 0..B - 1 /\ x = r + q * B
      BY <1>1, <3>1, QuotientRest, QuotientNat
    <3> HIDE DEF q, r
    <3>3. q < 2
      <4> SUFFICES ASSUME 2 <= q PROVE FALSE
        BY <3>2
      <4>1. 2 * B <= q * B
        BY <1>1, <3>2, TimesMonotone
      <4> DEFINE p == q * B
      <4>2. p \in Nat
        BY <1>1, <3>2, TimesNat
      <4> HIDE DEF p
      <4>3. x = r + p /\ 2 * B <= p
        BY <3>2, <4>1 DEF p
      <4> QED
        BY <1>1, <3>1, <3>2, <4>2, <4>3
    <3>4. borrow[l] = 1 - q /\ l \in 0..m
      BY <1>1, <1>7 DEF q, x
    <3> QED
      BY <3>2, <3>3, <3>4
  <2>3. 0..m \subseteq C
    <3> HIDE DEF C
    <3> QED
      BY <1>1, <2>1, <2>2, CountInduct
  <2> QED
    BY <2>3
<1>9. ASSUME NEW i \in 1..m
      PROVE  out[i] \in 0..B - 1 /\ in[i] \in Int
             /\ in[i] + carry[i - 1] = out[i] + carry[i] * B
  <2> DEFINE x == a[i] - b[i] - borrow[i - 1] + B
             q == x \div B
             r == x % B
             d == a[i] - b[i]
             l == borrow[i - 1]
  <2>1. x \in Int /\ d \in Int /\ l \in Int
    <3>1. a[i] \in 0..B - 1 /\ b[i] \in 0..B - 1 /\ borrow[i - 1] \in 0..1
      BY <1>1, <1>8
    <3> QED
      BY <1>1, <3>1
  <2>2. borrow[i] = 1 - q /\ x = d - l + B
    BY <1>7
  <2>3. out[i] = r /\ in[i] = d /\ carry[i] = 0 - borrow[i] /\ carry[i - 1] = 0 - l
    <3>1. i \in 0..m /\ i - 1 \in 0..m
      BY <1>1
    <3> QED
      BY <3>1
  <2> HIDE DEF x, out, in, carry, d, l
  <2>4. r \in 0..B - 1 /\ q \in Int /\ x = r + q * B
    BY <1>1, <2>1, QuotientRest
  <2> HIDE DEF q, r
  <2>5. (0 - (1 - q)) * B = q * B - B
    BY <1>1, <2>4
  <2> DEFINE p == q * B
  <2>6. p \in Int
    BY <1>1, <2>4
  <2> HIDE DEF p
  <2>7. x = r + p /\ carry[i] * B = p - B
    BY <2>2, <2>3, <2>4, <2>5 DEF p
  <2>8. d + (0 - l) = r + (p - B)
    BY <1>1, <2>1, <2>2, <2>4, <2>6, <2>7
  <2> QED
    BY <2>1, <2>3, <2>4, <2>7, <2>8
<1>10. out \in Seq(0..B - 1) /\ Len(out) = m
  <2> DEFINE S == 0..B - 1
  <2>1. out \in [1..m -> S]
    BY <1>9
  <2> HIDE DEF S, out
  <2>2. out \in Seq(S) /\ Len(out) = m
    BY ONLY <1>1, <2>1, SeqIs
  <2> QED
    BY <2>2 DEF S
<1>11. carry \in [0..m -> Int] /\ carry[0] = 0 /\ carry[m] = 0 - borrow[m] /\ borrow[m] \in Int
  <2>1. \A i \in 0..m : borrow[i] \in Int
    BY <1>8
  <2>2. 0 \in 0..m /\ m \in 0..m
    BY <1>1
  <2> QED
    BY <1>7, <2>1, <2>2
<1>12. in \in [1..m -> Int] /\ CarriesTo(in, carry, out, B, m)
  <2>1. in \in [1..m -> Int]
    BY <1>9
  <2> HIDE DEF in, carry, out
  <2> QED
    BY <1>9, <1>11, <2>1 DEF CarriesTo
<1> DEFINE s == [i \in 0..m |-> f[i] - g[i]]
<1>13. IsValues(s, in, B, m)
  BY <1>3, <1>4, SumOfValues
<1>14. s \in [0..m -> Int] /\ s[m] = f[m] - g[m]
  <2>1. f \in [0..m -> Nat] /\ g \in [0..m -> Nat] /\ m \in 0..m
    BY <1>1, <1>3, <1>4 DEF Counts
  <2>2. \A i \in 0..m : f[i] - g[i] \in Int
    BY <2>1
  <2> QED
    BY <2>1, <2>2
<1> HIDE DEF s, in, out, carry
<1>15. s[m] = LittleEndian(out, B) + carry[m] * Power(B, m)
  <2>1. Carrying(in, s, carry, out, B, m)
    BY <1>1, <1>10, <1>11, <1>12, <1>13, <1>14 DEF Carrying
  <2>2. Makes(s[m], out, carry[m], B, m)
    BY <2>1, CarriedNumber
  <2> QED
    BY <2>2 DEF Makes
<1>16. LET all == Append(out, borrow[m])
       IN  SubSeq(all, 1, m) = out /\ all[m + 1] = borrow[m]
  <2> DEFINE S == Int
             all == Append(out, borrow[m])
  <2>1. out \in Seq(S) /\ borrow[m] \in S
    <3> DEFINE T == 0..B - 1
    <3>1. T \subseteq S /\ out \in Seq(T) /\ borrow[m] \in S
      BY <1>10, <1>11
    <3> HIDE DEF S, T
    <3>2. out \in Seq(S)
      BY ONLY <3>1, SeqWider
    <3> QED
      BY <3>1, <3>2
  <2> HIDE DEF S
  <2>2. all \in Seq(S) /\ Len(all) = m + 1 /\ all[m + 1] = borrow[m]
        /\ \A i \in 1..m : all[i] = out[i]
    BY <1>1, <1>10, <2>1
  <2> HIDE DEF all
  <2>3. SubSeq(all, 1, m) \in Seq(S) /\ Len(SubSeq(all, 1, m)) = m
        /\ \A i \in 1..m : SubSeq(all, 1, m)[i] = all[i]
    BY <1>1, <2>2
  <2>4. SubSeq(all, 1, m) = out
    <3> DEFINE sub_ == SubSeq(all, 1, m)
    <3>1. sub_ \in Seq(S) /\ out \in Seq(S) /\ Len(sub_) = Len(out)
          /\ \A i \in 1..Len(sub_) : sub_[i] = out[i]
      BY <1>10, <2>1, <2>2, <2>3
    <3> HIDE DEF sub_
    <3>2. sub_ = out
      BY ONLY <3>1, SeqSame
    <3> QED
      BY <3>2 DEF sub_
  <2> QED
    BY <2>2, <2>4 DEF all
<1>17. LittleEndian(out, B) - borrow[m] * Power(B, m) = f[m] - g[m]
  <2> DEFINE v == LittleEndian(out, B)
             p == Power(B, m)
             l == borrow[m]
             c == carry[m]
  <2>1. v \in Int /\ p \in Nat /\ l \in Int /\ c = 0 - l
    <3>1. v \in 0..Power(B, Len(out)) - 1
      BY <1>1, <1>10, NumberBelow
    <3>2. p \in Nat
      BY <1>1, PowerNext
    <3> QED
      BY <1>11, <3>1, <3>2
  <2>2. s[m] = v + c * p
    BY <1>15
  <2> HIDE DEF v, p, l, c
  <2>3. c * p = 0 - l * p
    BY <2>1
  <2> DEFINE lp == l * p
  <2>4. lp \in Int
    BY <2>1
  <2>5. s[m] = v + (0 - lp)
    BY <2>2, <2>3
  <2> HIDE DEF lp
  <2>6. s[m] = v - lp
    BY <2>1, <2>4, <2>5
  <2> QED
    BY <1>14, <2>6 DEF v, lp, p, l
<1> QED
  BY <1>2, <1>3, <1>4, <1>5, <1>16, <1>17 DEF B, m
\* The columns of a product are the rows added up one after the other.
LEMMA MultRows ==
    ASSUME NEW a \in Operands, NEW b \in Operands
    PROVE  \E s : /\ Arith!BigMult(a, b) = s[CircuitChunks]
                  /\ RowsAdded(s, a, b, CircuitChunks)
<1> DEFINE m == CircuitChunks
           cols == 1..2 * m - 1
           T == [cols -> Nat]
           add(t, i, col) == t[col] + ProductRow(a[i], b, i, m, col)
           Is(c) == c = [i \in 0..m |-> [col \in cols |->
                           IF i = 0 THEN 0
                           ELSE c[i - 1][col]
                                  + IF col - i + 1 \in 1..m THEN a[i] * b[col - i + 1] ELSE 0]]
           IsRow(c) == c = [i \in 0..m |-> [col \in cols |->
                             IF i = 0 THEN 0 ELSE c[i - 1][col] + ProductRow(a[i], b, i, m, col)]]
           sums == CHOOSE c : Is(c)
<1>1. /\ m \in Nat /\ m # 0 /\ b \in [1..m -> Nat] /\ \A i \in 1..m : a[i] \in Nat
  <2> DEFINE S == 0..Arith!Chunk - 1
             N == Nat
  <2>1. m \in Nat /\ m # 0 /\ b \in [1..m -> S] /\ (\A i \in 1..m : a[i] \in S) /\ S \subseteq N
    BY ArithFacts, OperandCounts
  <2> HIDE DEF m, S, N
  <2>2. b \in [1..m -> N] /\ \A i \in 1..m : a[i] \in N
    BY <2>1
  <2> QED
    BY <2>1, <2>2 DEF N
<1>2. Arith!BigMult(a, b) = sums[m]
  BY DEF Arith!BigMult
<1> HIDE DEF m
<1>3. ASSUME NEW c PROVE Is(c) <=> IsRow(c)
  BY DEF ProductRow
<1>4. \A i \in 1..m : \A col : ProductRow(a[i], b, i, m, col) \in Nat
  BY <1>1, RowType
<1> HIDE DEF cols
<1>12. ASSUME NEW i \in 1..m, NEW t \in T PROVE [col \in cols |-> add(t, i, col)] \in T
  BY <1>4
<1>5. \E c : IsRow(c)
  <2> DEFINE start == [col \in cols |-> 0]
             further == [i \in 1..m |-> [t \in T |-> [col \in cols |-> add(t, i, col)]]]
  <2>1. start \in T
    OBVIOUS
  <2>3. further \in [1..m -> [T -> T]]
    BY <1>12
  <2>4. \A i \in 1..m, t \in T : further[i][t] = [col \in cols |-> add(t, i, col)]
    OBVIOUS
  <2> HIDE DEF start, further, T
  <2>5. PICK f \in [0..m -> T] : Recurs(f, m, start, further)
    BY <1>1, <2>1, <2>3, RecursionExists
  <2>6. f[0] = start /\ \A i \in 1..m : f[i] = further[i][f[i - 1]]
    BY <2>5 DEF Recurs
  <2>7. ASSUME NEW i \in 0..m
        PROVE  f[i] = [col \in cols |->
                         IF i = 0 THEN 0 ELSE f[i - 1][col] + ProductRow(a[i], b, i, m, col)]
    <3>1. CASE i = 0
      BY <2>6, <3>1 DEF start
    <3>2. CASE i # 0
      <4>1. i \in 1..m /\ i - 1 \in 0..m
        BY <1>1, <3>2
      <4>2. f[i - 1] \in T
        BY <2>5, <4>1
      <4>3. f[i] = [col \in cols |-> add(f[i - 1], i, col)]
        BY <2>4, <2>6, <4>1, <4>2
      <4> QED
        BY <3>2, <4>3
    <3> QED
      BY <3>1, <3>2
  <2>8. f = [i \in 0..m |-> f[i]]
    BY <2>5
  <2>9. IsRow(f)
    BY <2>7, <2>8
  <2> HIDE DEF IsRow
  <2> QED
    BY <2>9
<1>6. IsRow(sums)
  <2> HIDE DEF Is, IsRow
  <2>1. \E c : Is(c)
    BY <1>3, <1>5
  <2>2. Is(sums)
    BY <2>1
  <2> QED
    BY <1>3, <2>2
<1> HIDE DEF sums
<1>7. /\ \A i \in 0..m : sums[i] = [col \in cols |->
                           IF i = 0 THEN 0 ELSE sums[i - 1][col] + ProductRow(a[i], b, i, m, col)]
      /\ DOMAIN sums = 0..m /\ sums = [i \in 0..m |-> sums[i]]
  BY <1>6
<1>8. \A col \in cols : sums[0][col] = 0
  <2>1. 0 \in 0..m
    BY <1>1
  <2> QED
    BY <1>7, <2>1
<1>9. ASSUME NEW i \in 1..m
      PROVE  /\ sums[i] = [col \in cols |-> add(sums[i - 1], i, col)]
             /\ \A col \in cols : sums[i][col] = sums[i - 1][col] + ProductRow(a[i], b, i, m, col)
  <2>1. i \in 0..m /\ i # 0
    BY <1>1
  <2> QED
    BY <1>7, <2>1
<1>10. \A i \in 0..m : sums[i] \in T
  <2> DEFINE C == {l \in 0..m : sums[l] \in T}
  <2>1. 0 \in C
    <3>1. 0 \in 0..m
      BY <1>1
    <3>2. sums[0] = [col \in cols |-> 0]
      BY <1>7, <3>1
    <3> QED
      BY <3>1, <3>2
  <2>2. ASSUME NEW l \in 1..m, l - 1 \in C PROVE l \in C
    <3>1. sums[l - 1] \in T /\ l \in 0..m
      BY <1>1, <2>2
    <3>2. [col \in cols |-> add(sums[l - 1], l, col)] \in T
      <4> HIDE DEF T, C
      <4> DEFINE t_ == sums[l - 1]
      <4>1. t_ \in T
        BY <3>1
      <4> HIDE DEF t_, add
      <4>2. [col \in cols |-> add(t_, l, col)] \in T
        BY <1>12, <4>1
      <4> QED
        BY <4>2 DEF t_
    <3> QED
      BY <1>9, <3>1, <3>2
  <2>3. 0..m \subseteq C
    <3> HIDE DEF C
    <3> QED
      BY <1>1, <2>1, <2>2, CountInduct
  <2> QED
    BY <2>3
<1>11. sums \in [0..m -> T]
  <2> HIDE DEF T
  <2> QED
    BY <1>7, <1>10
<1>13. \A i \in 1..m : \A col \in cols :
         sums[i][col] = sums[i - 1][col] + ProductRow(a[i], b, i, m, col)
  BY <1>9
<1>14. RowsAdded(sums, a, b, m)
  BY <1>8, <1>11, <1>13 DEF cols, RowsAdded
<1> QED
  BY <1>2, <1>14 DEF m

LEMMA MultRight ==
    ASSUME NEW a \in Operands, NEW b \in Operands
    PROVE  \E v :
             /\ CountsProduct(v, Arith!BigMult(a, b), Arith!Value(a) * Arith!Value(b),
                              Arith!Chunk, CircuitChunks)
             /\ Arith!BigMult(a, b) \in Seq(Nat)
             /\ Len(Arith!BigMult(a, b)) = 2 * CircuitChunks - 1
             /\ Arith!Value(Arith!BigMult(a, b)) = Arith!Value(a) * Arith!Value(b)
<1> DEFINE B == Arith!Chunk
           m == CircuitChunks
           out == Arith!BigMult(a, b)
<1>1. B \in Nat /\ m \in Nat /\ m # 0 /\ 2 * m - 1 \in Nat
  BY ArithFacts
<1>2. PICK f : Counts(f, a, B, m) /\ Arith!Value(a) = f[m]
  BY OperandCounts
<1>3. PICK g : Counts(g, b, B, m) /\ Arith!Value(b) = g[m]
  BY OperandCounts
<1>4. PICK s : out = s[m] /\ RowsAdded(s, a, b, m)
  BY MultRows
<1>5. Arith!Value(out) = LittleEndian(out, B)
  BY ValueIs
<1> HIDE DEF B, m, out
<1>6. PICK v : CountsProduct(v, s[m], f[m] * g[m], B, m)
  BY <1>1, <1>2, <1>3, <1>4, ProductOfValues
<1>7. out \in Seq(Nat) /\ Len(out) = 2 * m - 1
  <2> DEFINE N == Nat
             c == 2 * m - 1
  <2>1. m \in 0..m /\ c \in Nat
    BY <1>1
  <2>4. s \in [0..m -> [1..c -> N]]
    BY <1>4 DEF RowsAdded
  <2> HIDE DEF N, c
  <2>2. s[m] \in [1..c -> N]
    BY <2>1, <2>4
  <2>3. s[m] \in Seq(N) /\ Len(s[m]) = c
    BY ONLY <2>1, <2>2, SeqIs
  <2> QED
    BY <1>4, <2>3 DEF N, c
<1>8. LittleEndian(out, B) = v[2 * m - 1]
  <2> DEFINE c == 2 * m - 1
  <2>1. c \in Nat /\ IsValues(v, out, B, c) /\ out \in Seq(Nat) /\ Len(out) = c
        /\ B \in Nat /\ Len(out) <= c /\ \A i \in 1..Len(out) : out[i] = out[i]
    BY <1>1, <1>4, <1>6, <1>7 DEF CountsProduct
  <2> HIDE DEF c
  <2>2. LittleEndian(out, B) = v[Len(out)]
    BY <2>1, NumberIsValue
  <2> QED
    BY <2>1, <2>2 DEF c
<1>9. v[2 * m - 1] = f[m] * g[m] /\ CountsProduct(v, out, f[m] * g[m], B, m)
  BY <1>4, <1>6 DEF CountsProduct
<1> QED
  BY <1>2, <1>3, <1>5, <1>7, <1>8, <1>9 DEF B, m, out
\* A product fits twice the chunks of its operands.
LEMMA ProductBelow ==
    ASSUME NEW a \in Operands, NEW b \in Operands
    PROVE  Arith!Value(a) * Arith!Value(b) < Power(Arith!Chunk, 2 * CircuitChunks)
<1> DEFINE B == Arith!Chunk
           m == CircuitChunks
           p == Power(B, m)
           x == Arith!Value(a)
           y == Arith!Value(b)
<1>1. /\ a \in Seq(0..B - 1) /\ b \in Seq(0..B - 1) /\ Len(a) = m /\ Len(b) = m
      /\ B \in Nat /\ m \in Nat
  BY ArithFacts DEF Chunks
<1>2. x = LittleEndian(a, B) /\ y = LittleEndian(b, B)
  BY ValueIs
<1> HIDE DEF B, m, x, y
<1>3. x \in 0..p - 1 /\ y \in 0..p - 1
  BY <1>1, <1>2, NumberBelow
<1>4. Power(B, 2 * m) = p * p
  <2>1. 2 * m = m + m
    BY <1>1
  <2> QED
    BY <1>1, <2>1, PowerPlus
<1>5. p \in Nat
  BY <1>1, PowerNext
<1> HIDE DEF p
<1>6. x \in Nat /\ y \in Nat /\ x + 1 <= p /\ y + 1 <= p
  BY <1>3, <1>5
<1>7. y * x <= p * x
  BY <1>5, <1>6, TimesMonotone
<1>8. (x + 1) * p <= p * p
  BY <1>5, <1>6, TimesMonotone
<1>9. x * y = y * x /\ p * x = x * p /\ (x + 1) * p = x * p + p /\ p # 0
  BY <1>5, <1>6
<1>10. x * y \in Nat /\ x * p \in Nat /\ p * p \in Nat
  BY <1>5, <1>6, TimesNat
<1> DEFINE xy == x * y
           xp == x * p
           pp == p * p
<1>11. xy <= xp /\ xp + p <= pp /\ xy \in Nat /\ xp \in Nat /\ pp \in Nat
  BY <1>7, <1>8, <1>9, <1>10
<1> HIDE DEF xy, xp, pp
<1>12. xy < pp
  BY ONLY <1>5, <1>9, <1>11
<1> QED
  BY <1>4, <1>12 DEF xy, pp, x, y, B, m

LEMMA CarryRight ==
    ASSUME NEW a \in Operands, NEW b \in Operands
    PROVE  LET carried == Arith!BigCarryPropagate(Arith!BigMult(a, b), 2 * CircuitChunks)
           IN  /\ Arith!Value(carried) = Arith!Value(a) * Arith!Value(b)
               /\ \A i \in DOMAIN carried : carried[i] \in 0..Arith!Chunk - 1
<1> DEFINE B == Arith!Chunk
           m == CircuitChunks
           w == 2 * m
           product == Arith!BigMult(a, b)
           total == Arith!Value(a) * Arith!Value(b)
           In(i) == IF i <= Len(product) THEN product[i] ELSE 0
           Is(c) == c = [i \in 0..w |-> IF i = 0 THEN 0 ELSE (In(i) + c[i - 1]) \div B]
           carry == CHOOSE c : Is(c)
           out == [i \in 1..w |-> (In(i) + carry[i - 1]) % B]
           in == [i \in 1..w |-> In(i)]
<1>1. B \in Nat \ {0} /\ B \in Nat /\ B >= 2 /\ m \in Nat /\ w \in Nat /\ w - 1 \in Nat
      /\ w # 0
  BY ArithFacts
<1>2. Arith!BigCarryPropagate(product, w) = out
  BY DEF Arith!BigCarryPropagate
<1>3. PICK v : CountsProduct(v, product, total, B, m)
  BY MultRight
<1>4. product \in Seq(Nat) /\ Len(product) = w - 1
  BY MultRight
<1>5. Arith!Value(out) = LittleEndian(out, B)
  BY ValueIs
<1>6. total < Power(B, w) /\ total \in Nat
  <2>1. Arith!Value(a) \in Nat /\ Arith!Value(b) \in Nat
    <3>1. PICK f : Counts(f, a, B, m) /\ Arith!Value(a) = f[m]
      BY OperandCounts
    <3>2. PICK g : Counts(g, b, B, m) /\ Arith!Value(b) = g[m]
      BY OperandCounts
    <3> QED
      BY <1>1, <3>1, <3>2 DEF Counts
  <2> QED
    BY <2>1, ProductBelow, TimesNat
<1>7. v \in [0..w - 1 -> Nat] /\ IsValues(v, product, B, w - 1) /\ v[w - 1] = total
  BY <1>3 DEF CountsProduct
<1> HIDE DEF B, m, product, total, w
<1>8. ASSUME NEW i \in 1..w PROVE In(i) \in Nat
  BY <1>1, <1>4
<1>9. in \in [1..w -> Int] /\ \A i \in 1..w : in[i] = In(i) /\ in[i] \in Nat
  BY <1>8
<1>10. (\A i \in 1..w - 1 : in[i] = product[i]) /\ in[w] = 0
  BY <1>1, <1>4
<1> HIDE DEF in
<1>11. Is(carry)
  <2> DEFINE further == [i \in 1..w |-> [z \in Int |-> (In(i) + z) \div B]]
  <2>1. further \in [1..w -> [Int -> Int]]
    BY <1>1, <1>8
  <2>2. \A i \in 1..w, z \in Int : further[i][z] = (In(i) + z) \div B
    OBVIOUS
  <2> HIDE DEF further
  <2>3. PICK c \in [0..w -> Int] : c = [i \in 0..w |-> IF i = 0 THEN 0 ELSE further[i][c[i - 1]]]
    BY <1>1, <2>1, CarriesExist
  <2>4. \A i \in 0..w : i # 0 => i \in 1..w /\ c[i - 1] \in Int
    BY <1>1
  <2> HIDE DEF In
  <2>5. \A i \in 0..w : (IF i = 0 THEN 0 ELSE further[i][c[i - 1]])
                          = IF i = 0 THEN 0 ELSE (In(i) + c[i - 1]) \div B
    BY <2>2, <2>4
  <2>6. Is(c)
    BY <2>3, <2>5
  <2> HIDE DEF Is
  <2> QED
    BY <2>6
<1> HIDE DEF carry, In
<1>12. carry[0] = 0 /\ DOMAIN carry = 0..w /\ carry = [i \in 0..w |-> carry[i]]
       /\ \A i \in 1..w : carry[i] = (In(i) + carry[i - 1]) \div B
  <2>1. 0 \in 0..w /\ \A i \in 1..w : i \in 0..w /\ i # 0
    BY <1>1
  <2> QED
    BY <1>11, <2>1
<1>13. \A i \in 0..w : carry[i] \in Nat
  <2> DEFINE C == {l \in 0..w : carry[l] \in Nat}
  <2>1. 0 \in C
    BY <1>1, <1>12
  <2>2. ASSUME NEW l \in 1..w, l - 1 \in C PROVE l \in C
    <3>1. carry[l - 1] \in Nat /\ l \in 0..w
      BY <1>1, <2>2
    <3>2. In(l) + carry[l - 1] \in Nat
      BY <1>8, <3>1
    <3>3. (In(l) + carry[l - 1]) \div B \in Nat
      BY <1>1, <3>2, QuotientNat
    <3> QED
      BY <1>12, <3>1, <3>3
  <2>3. 0..w \subseteq C
    <3> HIDE DEF C
    <3> QED
      BY <1>1, <2>1, <2>2, CountInduct
  <2> QED
    BY <2>3
<1>14. ASSUME NEW i \in 1..w
       PROVE  out[i] \in 0..B - 1 /\ in[i] + carry[i - 1] = out[i] + carry[i] * B
  <2> DEFINE x == In(i) + carry[i - 1]
  <2>1. x \in Int
    <3>1. carry[i - 1] \in Nat
      BY <1>1, <1>13
    <3> QED
      BY <1>8, <3>1
  <2>2. carry[i] = x \div B /\ out[i] = x % B /\ in[i] + carry[i - 1] = x
    BY <1>9, <1>12
  <2> HIDE DEF x, out
  <2>3. x % B \in 0..B - 1 /\ x = (x % B) + (x \div B) * B
    BY <1>1, <2>1, QuotientRest
  <2> QED
    BY <2>2, <2>3
<1>15. out \in Seq(0..B - 1) /\ Len(out) = w /\ DOMAIN out = 1..w
  <2> DEFINE S == 0..B - 1
  <2>1. out \in [1..w -> S] /\ DOMAIN out = 1..w
    BY <1>14
  <2> HIDE DEF S, out
  <2>2. out \in Seq(S) /\ Len(out) = w
    BY ONLY <1>1, <2>1, SeqIs
  <2> QED
    BY <2>1, <2>2 DEF S
<1> HIDE DEF out
<1>16. carry \in [0..w -> Int] /\ CarriesTo(in, carry, out, B, w) /\ carry[w] \in Nat
  <2>1. \A i \in 0..w : carry[i] \in Int
    BY <1>13
  <2>2. w \in 0..w
    BY <1>1
  <2> QED
    BY <1>12, <1>13, <1>14, <2>1, <2>2 DEF CarriesTo
<1> DEFINE g == [i \in 0..w |-> IF i = w THEN v[w - 1] ELSE v[i]]
<1>17. g \in [0..w -> Int] /\ g[w] = total
  <2>1. \A i \in 0..w : (IF i = w THEN v[w - 1] ELSE v[i]) \in Int
    BY <1>1, <1>7
  <2>2. w \in 0..w
    BY <1>1
  <2> QED
    BY <1>7, <2>1, <2>2
<1>18. IsValues(g, in, B, w)
  <2>1. g[0] = 0
    BY <1>1, <1>7 DEF IsValues
  <2>2. ASSUME NEW i \in 1..w PROVE g[i] = g[i - 1] + in[i] * Power(B, i - 1)
    <3>1. g[i - 1] = v[i - 1] /\ i - 1 \in 0..w - 1 /\ v[i - 1] \in Nat /\ i - 1 \in Nat
      BY <1>1, <1>7
    <3>2. Power(B, i - 1) \in Nat
      BY <1>1, <3>1, PowerNext
    <3>3. CASE i = w
      <4>1. g[i] = v[i - 1]
        BY <1>1, <3>3
      <4>2. in[i] * Power(B, i - 1) = 0
        BY <1>10, <3>2, <3>3
      <4> QED
        BY <3>1, <4>1, <4>2
    <3>4. CASE i # w
      <4>1. i \in 1..w - 1 /\ g[i] = v[i]
        BY <1>1, <3>4
      <4>2. v[i] = v[i - 1] + product[i] * Power(B, i - 1)
        BY <1>7, <4>1 DEF IsValues
      <4> QED
        BY <1>10, <3>1, <4>1, <4>2
    <3> QED
      BY <3>3, <3>4
  <2> HIDE DEF g
  <2> QED
    BY <2>1, <2>2 DEF IsValues
<1> HIDE DEF g
<1>19. total = LittleEndian(out, B) + carry[w] * Power(B, w)
  <2>1. Carrying(in, g, carry, out, B, w)
    BY <1>1, <1>9, <1>15, <1>16, <1>17, <1>18 DEF Carrying
  <2>2. Makes(g[w], out, carry[w], B, w)
    BY <2>1, CarriedNumber
  <2> QED
    BY <1>17, <2>2 DEF Makes
<1>20. LittleEndian(out, B) = total
  <2> DEFINE p == Power(B, w)
             r == LittleEndian(out, B)
             c == carry[w]
  <2>1. p \in Nat /\ r \in Nat /\ c \in Nat
    <3>1. p \in Nat
      BY <1>1, PowerNext
    <3>2. LittleEndian(out, B) \in 0..Power(B, Len(out)) - 1
      BY <1>1, <1>15, NumberBelow
    <3> QED
      BY <1>15, <1>16, <3>1, <3>2
  <2>2. total = r + c * p /\ total < p
    BY <1>6, <1>19
  <2> HIDE DEF p, r, c
  <2>3. c = 0
    <3> SUFFICES ASSUME 1 <= c PROVE FALSE
      BY <2>1
    <3>1. 1 * p <= c * p
      BY <2>1, TimesMonotone
    <3> DEFINE cp == c * p
    <3>2. cp \in Nat /\ p <= cp
      BY <2>1, <3>1, TimesNat
    <3>3. total = r + cp
      BY <2>2
    <3> HIDE DEF cp
    <3> QED
      BY <2>1, <2>2, <3>2, <3>3
  <2>4. c * p = 0
    BY <2>1, <2>3
  <2>5. total = r
    BY <2>1, <2>2, <2>4
  <2> QED
    BY <2>5 DEF r
<1>21. \A i \in DOMAIN out : out[i] \in 0..B - 1
  BY <1>14, <1>15
<1> QED
  BY <1>2, <1>5, <1>20, <1>21 DEF B, product, w, m, total

\* The bits of a number that is given as bytes, and the same filled up to its chunks.
NumberBits(bytes) == Spread(Backwards(bytes), 2, ByteBits, NumberBytes)
ChunkedBits(bytes) ==
    [place \in 1..CircuitBits * CircuitChunks |->
       IF place <= ByteBits * NumberBytes THEN NumberBits(bytes)[place] ELSE 0]
StringNumber(bytes) == BigEndian(bytes, Power(2, ByteBits))

LEMMA StringIs ==
    ASSUME NEW bytes \in ByteStrings
    PROVE  /\ Power(2, ByteBits) \in Nat
           /\ Backwards(bytes) \in Seq(0..Power(2, ByteBits) - 1)
           /\ Len(Backwards(bytes)) = NumberBytes
           /\ \A i \in 1..NumberBytes : Backwards(bytes)[i] = bytes[NumberBytes + 1 - i]
           /\ StringNumber(bytes) = LittleEndian(Backwards(bytes), Power(2, ByteBits))
           /\ StringNumber(bytes) \in 0..Power(2, ByteBits * NumberBytes) - 1
<1> DEFINE P == Power(2, ByteBits)
           S == 0..P - 1
           back == Backwards(bytes)
           m == NumberBytes
           two == 2
<1>1. two \in Nat /\ ByteBits \in Nat /\ m \in Nat /\ bytes \in Seq(S) /\ Len(bytes) = m
  BY ArithFacts
<1>2. P \in Nat /\ P = Power(two, ByteBits)
  <2> HIDE DEF two
  <2>1. Power(two, ByteBits) \in Nat
    BY <1>1, PowerNext
  <2> QED
    BY <2>1 DEF two
<1>3. Power(P, m) = Power(two, ByteBits * m)
  <2> HIDE DEF P, m, two
  <2> QED
    BY <1>1, <1>2, PowerTimes
<1>4. StringNumber(bytes) = LittleEndian(back, P)
  BY BigEndianIs DEF StringNumber
<1> HIDE DEF S, P, back, two, m
<1>5. back \in Seq(S) /\ Len(back) = m /\ \A i \in 1..m : back[i] = bytes[m + 1 - i]
  BY <1>1, BackwardsType DEF back
<1>6. LittleEndian(back, P) \in 0..Power(P, Len(back)) - 1
  BY <1>2, <1>5, NumberBelow DEF S
<1> QED
  BY <1>2, <1>3, <1>4, <1>5, <1>6 DEF S, P, back, two, m

LEMMA StringBits ==
    ASSUME NEW bytes \in ByteStrings
    PROVE  /\ NumberBits(bytes) \in Seq(0..2 - 1)
           /\ Len(NumberBits(bytes)) = ByteBits * NumberBytes
           /\ LittleEndian(NumberBits(bytes), 2) = StringNumber(bytes)
           /\ \A place \in 1..ByteBits * NumberBytes :
                NumberBits(bytes)[place] = Arith!ByteBit(bytes, place)
<1> DEFINE back == Backwards(bytes)
           m == NumberBytes
           w == ByteBits
           two == 2
           bits == NumberBits(bytes)
           d(q, r) == Digits(back[q + 1], 2, w)[r + 1]
<1>1. w \in Nat \ {0} /\ m \in Nat /\ two \in Nat \ {0}
  BY ArithFacts
<1>2. back \in Seq(0..Power(2, w) - 1) /\ Len(back) = m
      /\ (\A i \in 1..m : back[i] = bytes[m + 1 - i])
      /\ StringNumber(bytes) = LittleEndian(back, Power(2, w))
  BY StringIs
<1>3. bits = Spread(back, 2, w, m)
  BY DEF NumberBits
<1>4. /\ Spread(back, two, w, Len(back)) \in Seq(0..two - 1)
      /\ Len(Spread(back, two, w, Len(back))) = w * Len(back)
      /\ LittleEndian(Spread(back, two, w, Len(back)), two) = LittleEndian(back, Power(two, w))
  <2>1. back \in Seq(0..Power(two, w) - 1)
    BY <1>2
  <2> HIDE DEF two, back, w, m
  <2> QED
    BY <1>1, <2>1, SpreadNumber
<1>5. bits = [place \in 1..w * m |-> d((place - 1) \div w, (place - 1) % w)]
  BY <1>3 DEF Spread
<1>6. ASSUME NEW place PROVE Arith!ByteBit(bytes, place)
                            = Digits(bytes[m - (place - 1) \div w], 2, w)[((place - 1) % w) + 1]
  BY ArithNumerals DEF Arith!ByteBit
<1>7. ASSUME NEW place \in 1..w * m PROVE bits[place] = Arith!ByteBit(bytes, place)
  <2> DEFINE q == (place - 1) \div w
             r == (place - 1) % w
  <2>1. q \in 0..m - 1
    <3> HIDE DEF w, m
    <3> QED
      BY <1>1, GroupOf
  <2>2. bits[place] = d(q, r) /\ Arith!ByteBit(bytes, place) = Digits(bytes[m - q], 2, w)[r + 1]
    BY <1>5, <1>6
  <2> HIDE DEF q, r, back, m
  <2>3. q + 1 \in 1..m /\ m + 1 - (q + 1) = m - q
    BY <1>1, <2>1
  <2>4. back[q + 1] = bytes[m - q]
    BY <1>2, <2>3
  <2> QED
    BY <2>2, <2>4
<1> QED
  BY <1>2, <1>3, <1>4, <1>7

LEMMA StringChunks ==
    ASSUME NEW bytes \in ByteStrings
    PROVE  /\ ChunkedBits(bytes) \in Seq(0..2 - 1)
           /\ Len(ChunkedBits(bytes)) = CircuitBits * CircuitChunks
           /\ LittleEndian(ChunkedBits(bytes), 2) = StringNumber(bytes)
<1> DEFINE t == ByteBits * NumberBytes
           l == CircuitBits * CircuitChunks
           bits == NumberBits(bytes)
           all == ChunkedBits(bytes)
           S == 0..2 - 1
           N == Nat
<1>1. t \in Nat /\ l \in Nat /\ t <= l
  BY ArithFacts, TimesNat
<1>2. bits \in Seq(S) /\ Len(bits) = t /\ LittleEndian(bits, 2) = StringNumber(bytes)
  BY StringBits
<1>3. all = [place \in 1..l |-> IF place <= t THEN bits[place] ELSE 0]
  BY DEF ChunkedBits
<1>4. 0 \in S /\ S \subseteq N
  OBVIOUS
<1> HIDE DEF t, l, bits, all, S, N
<1>5. \A place \in 1..l : (IF place <= t THEN bits[place] ELSE 0) \in S
  BY <1>1, <1>2, <1>4
<1>6. all \in [1..l -> S]
  BY <1>3, <1>5
<1>7. all \in Seq(S) /\ Len(all) = l
  BY ONLY <1>1, <1>6, SeqIs
<1>8. all \in Seq(N) /\ bits \in Seq(N)
  BY ONLY <1>2, <1>4, <1>7, SeqWider
<1>9. /\ Len(bits) <= Len(all) /\ \A i \in 1..Len(bits) : all[i] = bits[i]
      /\ \A i \in Len(bits) + 1..Len(all) : all[i] = 0
  BY <1>1, <1>2, <1>3, <1>7
<1>10. LittleEndian(all, 2) = LittleEndian(bits, 2)
  <2> DEFINE two == 2
  <2>1. two \in Nat
    OBVIOUS
  <2> HIDE DEF two
  <2>2. LittleEndian(all, two) = LittleEndian(bits, two)
    BY <1>8, <1>9, <2>1, ZerosAddNothing DEF N
  <2> QED
    BY <2>2 DEF two
<1> QED
  BY <1>2, <1>7, <1>10 DEF all, l, S

\* The circuit's chunks of a number, bit by bit, and the prover's are the same.
LEMMA CutRight ==
    ASSUME NEW bytes \in ByteStrings
    PROVE  /\ Arith!BytesToBigInt(bytes) = Arith!bytes_to_chunks(bytes)
           /\ Arith!bytes_to_chunks(bytes) \in Seq(0..Arith!Chunk - 1)
           /\ Len(Arith!bytes_to_chunks(bytes)) = CircuitChunks
           /\ LittleEndian(Arith!bytes_to_chunks(bytes), Arith!Chunk) = StringNumber(bytes)
<1> DEFINE B == Arith!Chunk
           n == CircuitBits
           k == CircuitChunks
           N == StringNumber(bytes)
           all == ChunkedBits(bytes)
           cut == Arith!BytesToBigInt(bytes)
           divided == Arith!bytes_to_chunks(bytes)
           two == 2
<1>1. /\ n \in Nat \ {0} /\ k \in Nat /\ two \in Nat \ {0} /\ B \in Nat \ {0}
      /\ B = Power(two, n)
  BY ArithFacts
<1>2. all \in Seq(0..two - 1) /\ Len(all) = n * k /\ LittleEndian(all, two) = N
  BY StringChunks
<1>3. cut = [i \in 1..k |->
               LittleEndian([j \in 1..n |-> LET place == n * (i - 1) + j
                                            IN  IF place <= ByteBits * NumberBytes
                                                THEN Arith!ByteBit(bytes, place) ELSE 0], two)]
  BY ArithNumerals DEF Arith!BytesToBigInt
<1>4. divided = Digits(N, B, k)
  BY ArithNumerals DEF Arith!bytes_to_chunks, StringNumber
<1>5. ASSUME NEW i \in 1..k, NEW j \in 1..n
      PROVE  all[n * (i - 1) + j]
               = LET place == n * (i - 1) + j
                 IN  IF place <= ByteBits * NumberBytes THEN Arith!ByteBit(bytes, place) ELSE 0
  <2> DEFINE place == n * (i - 1) + j
             t == ByteBits * NumberBytes
             l == n * k
  <2>1. place \in 1..l
    <3> HIDE DEF n, k
    <3> QED
      BY <1>1, PlaceOf
  <2>2. all = [p \in 1..l |-> IF p <= t THEN NumberBits(bytes)[p] ELSE 0]
    BY DEF ChunkedBits
  <2>3. \A p \in 1..t : NumberBits(bytes)[p] = Arith!ByteBit(bytes, p)
    BY StringBits
  <2>4. t \in Nat /\ l \in Nat
    BY ArithFacts, TimesNat
  <2> HIDE DEF place, t, l, all
  <2>5. all[place] = IF place <= t THEN Arith!ByteBit(bytes, place) ELSE 0
    BY <2>1, <2>2, <2>3, <2>4
  <2> QED
    BY <2>5 DEF place, t
<1>6. cut = Gather(all, two, n, k)
  BY <1>3, <1>5 DEF Gather
<1> HIDE DEF B, n, k, all, cut, two, N, divided
<1>7. cut \in Seq(0..B - 1) /\ Len(cut) = k /\ LittleEndian(cut, B) = N
  BY <1>1, <1>2, <1>6, GatherNumber
<1>8. N \in 0..Power(B, k) - 1
  <2>1. LittleEndian(cut, B) \in 0..Power(B, Len(cut)) - 1
    BY <1>1, <1>7, NumberBelow
  <2> QED
    BY <1>7, <2>1
<1>9. N \in Nat
  <2> DEFINE p == Power(B, k)
  <2>1. p \in Nat
    BY <1>1, PowerNext
  <2>2. N \in 0..p - 1
    BY <1>8
  <2> HIDE DEF p
  <2> QED
    BY <2>1, <2>2
<1>10. divided \in Seq(0..B - 1) /\ Len(divided) = k /\ LittleEndian(divided, B) = N
  BY <1>1, <1>4, <1>8, <1>9, DigitsType, DigitsNumber
<1>11. cut = divided
  BY <1>1, <1>7, <1>10, SameDigits
<1> QED
  BY <1>10, <1>11 DEF B, k, N, cut, divided

\* Bytes gathered from the bits of a number are the bytes that the number was given as.
LEMMA BytesGathered ==
    ASSUME NEW bytes \in ByteStrings, NEW bits \in Seq(0..2 - 1),
           Len(bits) = ByteBits * NumberBytes, LittleEndian(bits, 2) = StringNumber(bytes)
    PROVE  Gather(bits, 2, ByteBits, NumberBytes) = Backwards(bytes)
<1> DEFINE w == ByteBits
           m == NumberBytes
           two == 2
           P == Power(2, w)
           back == Backwards(bytes)
           y == Gather(bits, two, w, m)
<1>1. w \in Nat \ {0} /\ m \in Nat /\ two \in Nat \ {0} /\ bits \in Seq(0..two - 1)
      /\ Len(bits) = w * m /\ P = Power(two, w) /\ LittleEndian(bits, two) = StringNumber(bytes)
  BY ArithFacts
<1>2. /\ P \in Nat /\ back \in Seq(0..P - 1) /\ Len(back) = m
      /\ LittleEndian(back, P) = StringNumber(bytes)
  BY StringIs
<1> HIDE DEF w, m, two, P, back
<1>3. y \in Seq(0..P - 1) /\ Len(y) = m /\ LittleEndian(y, P) = StringNumber(bytes)
  BY <1>1, GatherNumber
<1> HIDE DEF y
<1>4. y = back
  BY <1>2, <1>3, SameDigits
<1> QED
  BY <1>4 DEF y, two, w, m, back

LEMMA BackwardsTwice ==
    ASSUME NEW bytes \in ByteStrings
    PROVE  bytes = [i \in 1..NumberBytes |-> Backwards(bytes)[NumberBytes + 1 - i]]
<1> DEFINE m == NumberBytes
           S == 0..Power(2, ByteBits) - 1
           back == Backwards(bytes)
<1>1. m \in Nat /\ bytes \in Seq(S) /\ Len(bytes) = m
  BY ArithFacts
<1>2. \A i \in 1..m : back[i] = bytes[m + 1 - i]
  BY StringIs
<1> HIDE DEF S, back, m
<1>3. \A i \in 1..m : m + 1 - i \in 1..m /\ m + 1 - (m + 1 - i) = i
  BY <1>1
<1>4. \A i \in 1..m : bytes[i] = back[m + 1 - i]
  BY <1>2, <1>3
<1>5. bytes = [i \in 1..m |-> bytes[i]]
  BY <1>1
<1> QED
  BY <1>4, <1>5 DEF m, back

\* The circuit's bytes of the prover's chunks of a number are the bytes of the number.
LEMMA JoinRight ==
    ASSUME NEW bytes \in ByteStrings
    PROVE  Arith!BigIntToBytes(Arith!bytes_to_chunks(bytes)) = bytes
<1> DEFINE B == Arith!Chunk
           n == CircuitBits
           k == CircuitChunks
           w == ByteBits
           m == NumberBytes
           t == w * m
           l == n * k
           N == StringNumber(bytes)
           chunks == Arith!bytes_to_chunks(bytes)
           spread == Spread(chunks, 2, n, k)
           bits == NumberBits(bytes)
           two == 2
           back == Backwards(bytes)
           joined == Arith!BigIntToBytes(chunks)
           bit(place) == IF place <= l THEN Arith!ChunkBit(chunks, place) ELSE 0
           byte(i) == LittleEndian([j \in 1..w |-> bit(w * (m - i) + j)], two)
<1>1. /\ n \in Nat \ {0} /\ k \in Nat /\ two \in Nat \ {0} /\ w \in Nat \ {0} /\ m \in Nat
      /\ B = Power(two, n) /\ t \in Nat /\ l \in Nat /\ t <= l
  BY ArithFacts, TimesNat
<1>2. chunks \in Seq(0..Power(two, n) - 1) /\ Len(chunks) = k
      /\ LittleEndian(chunks, Power(two, n)) = N
  BY <1>1, CutRight
<1>3. spread \in Seq(0..two - 1) /\ Len(spread) = l /\ LittleEndian(spread, two) = N
  <2> DEFINE chunks_ == chunks
  <2> HIDE DEF chunks_, n, k, two, N
  <2>1. chunks_ \in Seq(0..Power(two, n) - 1) /\ Len(chunks_) = k
        /\ LittleEndian(chunks_, Power(two, n)) = N
    BY <1>2 DEF chunks_
  <2>2. /\ Spread(chunks_, two, n, Len(chunks_)) \in Seq(0..two - 1)
        /\ Len(Spread(chunks_, two, n, Len(chunks_))) = n * Len(chunks_)
        /\ LittleEndian(Spread(chunks_, two, n, Len(chunks_)), two)
             = LittleEndian(chunks_, Power(two, n))
    BY <1>1, <2>1, SpreadNumber
  <2> QED
    BY <2>1, <2>2 DEF chunks_, two
<1>4. spread = ChunkedBits(bytes)
  <2>1. ChunkedBits(bytes) \in Seq(0..two - 1) /\ Len(ChunkedBits(bytes)) = l
        /\ LittleEndian(ChunkedBits(bytes), two) = N
    BY StringChunks
  <2> DEFINE all == ChunkedBits(bytes)
             other == spread
  <2>2. all \in Seq(0..two - 1) /\ other \in Seq(0..two - 1) /\ Len(all) = Len(other)
        /\ LittleEndian(all, two) = LittleEndian(other, two) /\ two \in Nat
    BY <1>1, <1>3, <2>1
  <2> HIDE DEF all, other, two
  <2>3. all = other
    BY ONLY <2>2, SameDigits
  <2> QED
    BY <2>3 DEF all, other
<1>5. /\ spread = [place \in 1..l |->
                     Digits(chunks[(place - 1) \div n + 1], 2, n)[((place - 1) % n) + 1]]
      /\ \A place : Arith!ChunkBit(chunks, place)
                   = Digits(chunks[(place - 1) \div n + 1], 2, n)[((place - 1) % n) + 1]
  BY ArithNumerals DEF Spread, Arith!ChunkBit
<1>6. \A place \in 1..l : Arith!ChunkBit(chunks, place) = spread[place]
  <2> HIDE DEF l, chunks, n
  <2> QED
    BY <1>5
<1>7. ASSUME NEW place \in 1..t PROVE bit(place) = bits[place]
  <2>1. place \in 1..l /\ place <= l /\ place <= t
    BY <1>1
  <2>2. ChunkedBits(bytes) = [p \in 1..l |-> IF p <= t THEN bits[p] ELSE 0]
    BY DEF ChunkedBits
  <2> HIDE DEF l, t, chunks, bits, spread
  <2> QED
    BY <1>4, <1>6, <2>1, <2>2
<1>8. joined = [i \in 1..m |-> byte(i)]
  BY ArithNumerals DEF Arith!BigIntToBytes
<1>9. bits \in Seq(0..2 - 1) /\ Len(bits) = t /\ LittleEndian(bits, 2) = N
  BY StringBits
<1>10. Gather(bits, 2, w, m) = back
  BY <1>9, BytesGathered
<1> HIDE DEF bit
<1>11. ASSUME NEW i \in 1..m PROVE byte(i) = back[m + 1 - i]
  <2> DEFINE g == m + 1 - i
  <2>1. g \in 1..m /\ m - i = g - 1
    BY <1>1
  <2>2. back[g] = LittleEndian([j \in 1..w |-> bits[w * (g - 1) + j]], 2)
    <3> HIDE DEF g, bits, m, w, back
    <3> QED
      BY <1>10, <2>1 DEF Gather
  <2>3. ASSUME NEW j \in 1..w PROVE bit(w * (m - i) + j) = bits[w * (g - 1) + j]
    <3> DEFINE place == w * (g - 1) + j
    <3>1. place \in 1..t
      <4> HIDE DEF g, m, w
      <4> QED
        BY <1>1, <2>1, PlaceOf
    <3>2. w * (m - i) + j = place
      BY <2>1
    <3> HIDE DEF place, t, bits
    <3>3. bit(place) = bits[place]
      BY <1>7, <3>1
    <3> QED
      BY <3>2, <3>3 DEF place
  <2>4. [j \in 1..w |-> bit(w * (m - i) + j)] = [j \in 1..w |-> bits[w * (g - 1) + j]]
    BY <2>3
  <2>5. byte(i) = LittleEndian([j \in 1..w |-> bit(w * (m - i) + j)], 2)
    OBVIOUS
  <2> QED
    BY <2>2, <2>4, <2>5
<1> HIDE DEF byte, joined
<1>12. joined = [i \in 1..m |-> back[m + 1 - i]]
  BY <1>8, <1>11
<1>13. bytes = [i \in 1..m |-> back[m + 1 - i]]
  BY BackwardsTwice
<1> QED
  BY <1>12, <1>13 DEF joined

\* The bytes of a field element begin with the least significant one.
LEMMA ToFieldRight ==
    ASSUME NEW bytes \in ByteStrings
    PROVE  Arith!FieldToBytes(Arith!BytesToField(bytes)) = bytes
<1> DEFINE w == ByteBits
           m == NumberBytes
           t == w * m
           P == Power(2, w)
           two == 2
           N == LittleEndian(bytes, P)
           bits == Digits(N, two, t)
<1>1. /\ w \in Nat \ {0} /\ m \in Nat /\ two \in Nat \ {0} /\ t \in Nat /\ P = Power(two, w)
      /\ bytes \in Seq(0..P - 1) /\ Len(bytes) = m
  BY ArithFacts, TimesNat
<1>2. Arith!BytesToField(bytes) = N
  BY ArithNumerals DEF Arith!BytesToField
<1>3. Arith!FieldToBytes(N) = Gather(bits, two, w, m)
  BY ArithNumerals DEF Arith!FieldToBytes, Gather
<1>4. P \in Nat
  BY StringIs
<1>5. Power(P, m) = Power(two, t)
  <2> HIDE DEF m, w, two, P
  <2> QED
    BY <1>1, PowerTimes
<1> HIDE DEF N, P, m
<1>6. N \in 0..Power(P, m) - 1
  <2>1. LittleEndian(bytes, P) \in 0..Power(P, Len(bytes)) - 1
    BY <1>1, <1>4, NumberBelow
  <2> QED
    BY <1>1, <2>1 DEF N
<1> HIDE DEF two, w, t, bits
<1>7. N \in 0..Power(two, t) - 1 /\ N \in Nat
  <2> DEFINE p == Power(two, t)
  <2>1. p \in Nat
    BY <1>1, PowerNext
  <2>2. N \in 0..p - 1
    BY <1>5, <1>6
  <2> HIDE DEF p
  <2>3. N \in 0..p - 1 /\ N \in Nat
    BY <2>1, <2>2
  <2> QED
    BY <2>3 DEF p
<1>8. bits \in Seq(0..two - 1) /\ Len(bits) = t /\ LittleEndian(bits, two) = N
  BY <1>1, <1>7, DigitsType, DigitsNumber DEF bits
<1>9. Len(bits) = w * m
  BY <1>8 DEF t
<1> DEFINE y == Gather(bits, two, w, m)
<1>10. y \in Seq(0..P - 1) /\ Len(y) = m /\ LittleEndian(y, P) = N
  BY <1>1, <1>8, <1>9, GatherNumber
<1> HIDE DEF y
<1>11. y = bytes
  BY <1>1, <1>4, <1>10, SameDigits DEF N
<1> QED
  BY <1>2, <1>3, <1>11 DEF y

LEMMA BothHalves ==
    ASSUME NEW S, NEW m \in Nat, NEW x \in Seq(S), NEW y \in Seq(S), Len(x) = m, Len(y) = m
    PROVE  SubSeq(x \o y, 1, m) = x /\ SubSeq(x \o y, m + 1, 2 * m) = y
<1> DEFINE z == x \o y
           first == SubSeq(z, 1, m)
           second == SubSeq(z, m + 1, 2 * m)
<1>1. /\ z \in Seq(S) /\ Len(z) = 2 * m
      /\ \A i \in 1..m : z[i] = x[i] /\ z[m + i] = y[i]
  OBVIOUS
<1> HIDE DEF z
<1>2. first \in Seq(S) /\ Len(first) = m /\ \A i \in 1..m : first[i] = z[i]
  BY <1>1
<1>3. second \in Seq(S) /\ Len(second) = m /\ \A i \in 1..m : second[i] = z[m + i]
  BY <1>1
<1> HIDE DEF first, second
<1>4. first = x
  BY <1>1, <1>2, SeqSame
<1>5. second = y
  BY <1>1, <1>3, SeqSame
<1> QED
  BY <1>4, <1>5 DEF first, second, z

LEMMA CutHalves ==
    ASSUME NEW bytes \in ByteStrings
    PROVE  LET both == Arith!BytesToBigInt(bytes) \o Arith!bytes_to_chunks(bytes)
           IN  /\ SubSeq(both, 1, CircuitChunks) = Arith!bytes_to_chunks(bytes)
               /\ SubSeq(both, CircuitChunks + 1, 2 * CircuitChunks) = Arith!bytes_to_chunks(bytes)
<1> DEFINE S == 0..Arith!Chunk - 1
           m == CircuitChunks
           x == Arith!bytes_to_chunks(bytes)
<1>1. m \in Nat /\ x \in Seq(S) /\ Len(x) = m /\ Arith!BytesToBigInt(bytes) = x
  BY ArithFacts, CutRight
<1> HIDE DEF S, m, x
<1>2. SubSeq(x \o x, 1, m) = x /\ SubSeq(x \o x, m + 1, 2 * m) = x
  BY ONLY <1>1, BothHalves
<1> QED
  BY <1>1, <1>2 DEF m, x

\* What a template has assigned is what it computes for what it was given.
Computes(a, b) ==
    /\ input = <<a, b>>
    /\ \/ /\ template = "Compare"
          /\ output = <<Arith!BigLessThan(a, b), Arith!BigIsEqual(a, b), Arith!BigIsZero(a)>>
       \/ template = "Add" /\ output = Arith!BigAdd(a, b)
       \/ template = "Sub" /\ output = Arith!BigSub(a, b)
       \/ template = "Mult" /\ output = Arith!BigMult(a, b)
       \/ template = "Carry"
            /\ output = Arith!BigCarryPropagate(Arith!BigMult(a, b), 2 * CircuitChunks)
Converts(bytes) ==
    /\ input = <<bytes>>
    /\ \/ template = "Cut" /\ output = Arith!BytesToBigInt(bytes) \o Arith!bytes_to_chunks(bytes)
       \/ template = "Join" /\ output = Arith!BigIntToBytes(Arith!bytes_to_chunks(bytes))
       \/ template = "ToField" /\ output = Arith!FieldToBytes(Arith!BytesToField(bytes))

ArithInv ==
    \/ template = None
    \/ \E a, b \in Operands : Computes(a, b)
    \/ \E bytes \in ByteStrings : Converts(bytes)

LEMMA ArithBegins == Arith!Init => ArithInv
BY DEF Arith!Init, ArithInv

LEMMA ArithStep == ArithInv /\ [Arith!Next]_(Arith!vars) => ArithInv'
<1> SUFFICES ASSUME ArithInv, [Arith!Next]_(Arith!vars) PROVE ArithInv'
  OBVIOUS
<1>0. None \notin {"Compare", "Add", "Sub", "Mult", "Carry", "Cut", "Join", "ToField"}
  BY ArithFacts
<1>1. ASSUME NEW a \in Operands, NEW b \in Operands, Arith!Compare(a, b) PROVE ArithInv'
  BY <1>1 DEF ArithInv, Computes, Arith!Compare, Arith!Run
<1>2. ASSUME NEW a \in Operands, NEW b \in Operands, Arith!Add(a, b) PROVE ArithInv'
  BY <1>2 DEF ArithInv, Computes, Arith!Add, Arith!Run
<1>3. ASSUME NEW a \in Operands, NEW b \in Operands, Arith!Sub(a, b) PROVE ArithInv'
  BY <1>3 DEF ArithInv, Computes, Arith!Sub, Arith!Run
<1>4. ASSUME NEW a \in Operands, NEW b \in Operands, Arith!Mult(a, b) PROVE ArithInv'
  BY <1>4 DEF ArithInv, Computes, Arith!Mult, Arith!Run
<1>5. CASE Arith!Carry
  <2>1. /\ template = "Mult" /\ template' = "Carry" /\ input' = input
        /\ output' = Arith!BigCarryPropagate(output, 2 * CircuitChunks)
    BY <1>5 DEF Arith!Carry, Arith!Run
  <2>2. PICK a \in Operands, b \in Operands : input = <<a, b>> /\ output = Arith!BigMult(a, b)
    BY <1>0, <2>1 DEF ArithInv, Computes, Converts
  <2>3. Computes(a, b)'
    BY <2>1, <2>2 DEF Computes
  <2> QED
    BY <2>3 DEF ArithInv
<1>6. CASE Arith!Join
  <2>1. /\ template = "Cut" /\ template' = "Join" /\ input' = input
        /\ output' = Arith!BigIntToBytes(SubSeq(output, CircuitChunks + 1, 2 * CircuitChunks))
    BY <1>6 DEF Arith!Join, Arith!Run
  <2>2. PICK bytes \in ByteStrings :
          /\ input = <<bytes>>
          /\ output = Arith!BytesToBigInt(bytes) \o Arith!bytes_to_chunks(bytes)
    BY <1>0, <2>1 DEF ArithInv, Computes, Converts
  <2>3. SubSeq(output, CircuitChunks + 1, 2 * CircuitChunks) = Arith!bytes_to_chunks(bytes)
    BY <2>2, CutHalves
  <2>4. Converts(bytes)'
    BY <2>1, <2>2, <2>3 DEF Converts
  <2> QED
    BY <2>4 DEF ArithInv
<1>7. ASSUME NEW bytes \in ByteStrings, Arith!Cut(bytes) PROVE ArithInv'
  BY <1>7 DEF ArithInv, Converts, Arith!Cut, Arith!Run
<1>8. ASSUME NEW bytes \in ByteStrings, Arith!ToField(bytes) PROVE ArithInv'
  BY <1>8 DEF ArithInv, Converts, Arith!ToField, Arith!Run
<1>9. CASE UNCHANGED Arith!vars
  BY <1>9 DEF ArithInv, Computes, Converts, Arith!vars
<1> QED
  BY <1>1, <1>2, <1>3, <1>4, <1>5, <1>6, <1>7, <1>8, <1>9 DEF Arith!Next

LEMMA ComputedRight ==
    ASSUME NEW a \in Operands, NEW b \in Operands, Computes(a, b)
    PROVE  Arith!TypeOK /\ Arith!ArithmeticRight /\ Arith!BytesKept
<1>1. input[1] = a /\ input[2] = b
  BY DEF Computes
<1>2. Arith!BytesKept
  BY DEF Computes, Arith!BytesKept
<1>3. CASE template = "Compare"
  <2>1. output = <<Arith!BigLessThan(a, b), Arith!BigIsEqual(a, b), Arith!BigIsZero(a)>>
    BY <1>3 DEF Computes
  <2> QED
    BY <1>1, <1>2, <1>3, <2>1, ComparesRight DEF Arith!TypeOK, Arith!ArithmeticRight
<1>4. CASE template = "Add"
  <2>1. output = Arith!BigAdd(a, b)
    BY <1>4 DEF Computes
  <2> QED
    BY <1>1, <1>2, <1>4, <2>1, AddRight DEF Arith!TypeOK, Arith!ArithmeticRight
<1>5. CASE template = "Sub"
  <2>1. output = Arith!BigSub(a, b)
    BY <1>5 DEF Computes
  <2>2. Arith!Value(SubSeq(output, 1, CircuitChunks))
            - output[CircuitChunks + 1] * Arith!Power(Arith!Chunk, CircuitChunks)
          = Arith!Value(a) - Arith!Value(b)
    BY <2>1, SubRight
  <2> QED
    BY <1>1, <1>2, <1>5, <2>2 DEF Arith!TypeOK, Arith!ArithmeticRight
<1>6. CASE template = "Mult"
  <2>1. output = Arith!BigMult(a, b)
    BY <1>6 DEF Computes
  <2>2. Arith!Value(output) = Arith!Value(a) * Arith!Value(b)
    BY <2>1, MultRight
  <2> QED
    BY <1>1, <1>2, <1>6, <2>2 DEF Arith!TypeOK, Arith!ArithmeticRight
<1>7. CASE template = "Carry"
  <2>1. output = Arith!BigCarryPropagate(Arith!BigMult(a, b), 2 * CircuitChunks)
    BY <1>7 DEF Computes
  <2>2. /\ Arith!Value(output) = Arith!Value(a) * Arith!Value(b)
        /\ \A i \in DOMAIN output : output[i] \in 0..Arith!Chunk - 1
    BY <2>1, CarryRight
  <2> QED
    BY <1>1, <1>2, <1>7, <2>2 DEF Arith!TypeOK, Arith!ArithmeticRight
<1> QED
  BY <1>3, <1>4, <1>5, <1>6, <1>7 DEF Computes

LEMMA ConvertedRight ==
    ASSUME NEW bytes \in ByteStrings, Converts(bytes)
    PROVE  Arith!TypeOK /\ Arith!ArithmeticRight /\ Arith!BytesKept
<1>1. Arith!TypeOK /\ Arith!ArithmeticRight
  BY DEF Converts, Arith!TypeOK, Arith!ArithmeticRight
<1>2. CASE template = "Cut"
  <2>1. output = Arith!BytesToBigInt(bytes) \o Arith!bytes_to_chunks(bytes)
    BY <1>2 DEF Converts
  <2>2. SubSeq(output, 1, CircuitChunks) = SubSeq(output, CircuitChunks + 1, 2 * CircuitChunks)
    BY <2>1, CutHalves
  <2> QED
    BY <1>1, <1>2, <2>2 DEF Arith!BytesKept
<1>3. CASE template = "Join"
  BY <1>1, <1>3, JoinRight DEF Converts, Arith!BytesKept
<1>4. CASE template = "ToField"
  BY <1>1, <1>4, ToFieldRight DEF Converts, Arith!BytesKept
<1> QED
  BY <1>2, <1>3, <1>4 DEF Converts

LEMMA ArithRight == ArithInv => Arith!TypeOK /\ Arith!ArithmeticRight /\ Arith!BytesKept
<1>1. CASE template = None
  BY <1>1, ArithFacts DEF Arith!TypeOK, Arith!ArithmeticRight, Arith!BytesKept
<1> QED
  BY <1>1, ComputedRight, ConvertedRight DEF ArithInv

LEMMA ArithHolds ==
    Arith!Init /\ [][Arith!Next]_(Arith!vars)
      => [](Arith!TypeOK /\ Arith!ArithmeticRight /\ Arith!BytesKept)
<1>1. Arith!Init => ArithInv
  BY ArithBegins
<1>2. ArithInv /\ [Arith!Next]_(Arith!vars) => ArithInv'
  BY ArithStep
<1>3. ArithInv => Arith!TypeOK /\ Arith!ArithmeticRight /\ Arith!BytesKept
  BY ArithRight
<1> QED
  BY <1>1, <1>2, <1>3, PTL

-----------------------------------------------------------------------------
(* SdkXdr: what is written and read.                                       *)

LEMMA XdrNumerals ==
    /\ \A x, b : Xdr!Power(x, b) = Power(x, b)
    /\ \A x, b : Xdr!BigEndian(x, b) = BigEndian(x, b)
    /\ \A x, b, c : Xdr!Digits(x, b, c) = Digits(x, b, c)
<1>1. ASSUME NEW x, NEW b PROVE Xdr!Power(x, b) = Power(x, b)
  BY DEF Xdr!Power, Power
<1>2. ASSUME NEW x, NEW b PROVE Xdr!BigEndian(x, b) = BigEndian(x, b)
  BY DEF Xdr!BigEndian, BigEndian, Xdr!LittleEndian, LittleEndian, Xdr!Power, Power
<1>3. ASSUME NEW x, NEW b, NEW c PROVE Xdr!Digits(x, b, c) = Digits(x, b, c)
  BY DEF Xdr!Digits, Digits
<1> QED
  BY <1>1, <1>2, <1>3

LEMMA XdrFacts ==
    /\ Byte \in Nat \ {0, 1} /\ WordBytes \in Nat \ {0} /\ MaxFields \in Nat
    /\ Xdr!Word = Power(Byte, WordBytes) /\ Xdr!Word \in Nat \ {0} /\ Xdr!Word \div 2 > 15
    /\ Xdr!Bytes = 0..Byte - 1
    /\ Decimals \in Nat /\ Stroops \subseteq Nat /\ None \notin Nat
<1>1. Xdr!Word = Power(Byte, WordBytes)
  BY XdrNumerals DEF Xdr!Word
<1>2. /\ Byte \in Nat \ {0, 1} /\ WordBytes \in Nat \ {0} /\ MaxFields \in Nat
      /\ Xdr!Word \div 2 > 15
      /\ Decimals \in Nat /\ Stroops \subseteq Nat /\ None \notin Nat
  BY PartsAssumption DEF Xdr!XdrAssumption
<1>3. Xdr!Word \in Nat \ {0}
  BY <1>1, <1>2, PowerNext
<1> QED
  BY <1>1, <1>2, <1>3 DEF Xdr!Bytes

LEMMA WordIs ==
    ASSUME NEW v \in 0..Xdr!Word - 1
    PROVE  /\ Xdr!writeUint32(v) \in Seq(Xdr!Bytes) /\ Len(Xdr!writeUint32(v)) = WordBytes
           /\ BigEndian(Xdr!writeUint32(v), Byte) = v
<1>1. Xdr!writeUint32(v) = [i \in 1..WordBytes |-> Digits(v, Byte, WordBytes)[WordBytes + 1 - i]]
  BY XdrNumerals DEF Xdr!writeUint32
<1>2. /\ Byte \in Nat \ {0} /\ WordBytes \in Nat /\ v \in 0..Power(Byte, WordBytes) - 1
      /\ Xdr!Bytes = 0..Byte - 1
  BY XdrFacts
<1> QED
  BY <1>1, <1>2, BackwardsNumber

\* These bytes stand behind the place, in all the bytes there are and in the buffer.
Stands(all, pos, s) ==
    /\ pos \in Nat /\ pos + Len(s) <= Len(all)
    /\ \A i \in 1..Len(s) : all[pos + i] = s[i]

Holds(pos, s) == Stands(buffer, pos, s)

LEMMA HoldsBoth ==
    ASSUME NEW S, NEW s \in Seq(S), NEW t \in Seq(S), NEW pos, Holds(pos, s \o t)
    PROVE  Holds(pos, s) /\ Holds(pos + Len(s), t) /\ Len(s \o t) = Len(s) + Len(t)
<1> DEFINE b == s \o t
<1>1. /\ Len(s) \in Nat /\ Len(t) \in Nat /\ Len(b) = Len(s) + Len(t)
      /\ \A i \in 1..Len(s) : b[i] = s[i]
      /\ \A i \in 1..Len(t) : b[Len(s) + i] = t[i]
  OBVIOUS
<1>2. pos \in Nat /\ pos + Len(b) <= Len(buffer) /\ \A i \in 1..Len(b) : buffer[pos + i] = b[i]
  BY DEF Holds, Stands
<1> HIDE DEF b
<1>3. \A i \in 1..Len(s) : buffer[pos + i] = s[i]
  <2> TAKE i \in 1..Len(s)
  <2>1. i \in 1..Len(b)
    BY <1>1
  <2> QED
    BY <2>1, <1>1, <1>2
<1>4. \A i \in 1..Len(t) : buffer[(pos + Len(s)) + i] = t[i]
  <2> TAKE i \in 1..Len(t)
  <2>1. Len(s) + i \in 1..Len(b) /\ pos + (Len(s) + i) = (pos + Len(s)) + i
    BY <1>1, <1>2
  <2> QED
    BY <2>1, <1>1, <1>2
<1>5. Len(buffer) \in Int \/ Len(buffer) \notin Int
  OBVIOUS
<1> QED
  BY <1>1, <1>2, <1>3, <1>4 DEF Holds, Stands, b

LEMMA HeldIs ==
    ASSUME NEW S, NEW s \in Seq(S), NEW pos, buffer \in Seq(S), Holds(pos, s)
    PROVE  SubSeq(buffer, pos + 1, pos + Len(s)) = s
<1> DEFINE b == SubSeq(buffer, pos + 1, pos + Len(s))
<1>1. /\ pos \in Nat /\ Len(s) \in Nat /\ Len(buffer) \in Nat /\ pos + Len(s) <= Len(buffer)
      /\ \A i \in 1..Len(s) : buffer[pos + i] = s[i]
  BY DEF Holds, Stands
<1>2. /\ b \in Seq(S) /\ Len(b) = Len(s) /\ \A i \in 1..Len(s) : b[i] = buffer[pos + i]
  <2>1. b = [i \in 1..Len(s) |-> buffer[pos + i]]
    BY <1>1
  <2>2. \A i \in 1..Len(s) : pos + i \in 1..Len(buffer)
    BY <1>1
  <2>3. [i \in 1..Len(s) |-> buffer[pos + i]] \in [1..Len(s) -> S]
    BY <2>2
  <2> QED
    BY <1>1, <2>1, <2>3, SeqIs
<1> HIDE DEF b
<1>3. b = s
  BY <1>1, <1>2, SeqSame
<1> QED
  BY <1>3 DEF b

LEMMA ReadsWord ==
    ASSUME buffer \in Seq(Xdr!Bytes), NEW v \in 0..Xdr!Word - 1, NEW pos,
           Holds(pos, Xdr!writeUint32(v))
    PROVE  Xdr!readUint32(pos) = [value |-> v, offset |-> pos + WordBytes]
<1>1. SubSeq(buffer, pos + 1, pos + WordBytes) = Xdr!writeUint32(v)
  BY WordIs, HeldIs
<1>2. BigEndian(SubSeq(buffer, pos + 1, pos + WordBytes), Byte) = v
  BY <1>1, WordIs
<1> QED
  BY <1>2, XdrNumerals DEF Xdr!readUint32

LEMMA ReadsInt32 ==
    ASSUME buffer \in Seq(Xdr!Bytes), NEW v \in -(Xdr!Word \div 2)..Xdr!Word \div 2 - 1, NEW pos,
           Holds(pos, Xdr!writeInt32(v))
    PROVE  /\ Xdr!writeInt32(v) \in Seq(Xdr!Bytes) /\ Len(Xdr!writeInt32(v)) = WordBytes
           /\ Xdr!readInt32(pos) = [value |-> v, offset |-> pos + WordBytes]
<1> DEFINE W == Xdr!Word
           r == v % W
<1>1. W \in Nat \ {0} /\ v \in Int /\ W \div 2 \in Nat /\ 2 * (W \div 2) <= W
  BY XdrFacts
<1>2. r \in 0..W - 1 /\ (v >= 0 => r = v) /\ (v < 0 => r = v + W)
  <2>1. v \div W \in Int /\ r \in 0..W - 1 /\ v = r + (v \div W) * W
    BY <1>1, QuotientRest
  <2>2. CASE v >= 0
    <3>1. v \in 0..W - 1
      BY <1>1, <2>2
    <3>2. v = v + 0 * W
      BY <1>1
    <3> HIDE DEF W, r
    <3>3. r + (v \div W) * W = v + 0 * W
      BY <2>1, <3>2
    <3> QED
      BY <1>1, <2>1, <3>1, <3>3, <2>2, OneQuotient
  <2>3. CASE v < 0
    <3>1. v + W \in 0..W - 1
      BY <1>1, <2>3
    <3>2. v = (v + W) + (-1) * W
      BY <1>1
    <3> HIDE DEF W, r
    <3>3. r + (v \div W) * W = (v + W) + (-1) * W
      BY <2>1, <3>2
    <3> QED
      BY <1>1, <2>1, <3>1, <3>3, <2>3, OneQuotient
  <2> QED
    BY <1>1, <2>2, <2>3
<1>3. Xdr!writeInt32(v) = Xdr!writeUint32(r)
  BY DEF Xdr!writeInt32
<1>4. Xdr!readUint32(pos) = [value |-> r, offset |-> pos + WordBytes]
  BY <1>2, <1>3, ReadsWord
<1>5. Xdr!readInt32(pos) = [value |-> IF r >= W \div 2 THEN r - W ELSE r,
                            offset |-> pos + WordBytes]
  BY <1>4 DEF Xdr!readInt32
<1>6. (IF r >= W \div 2 THEN r - W ELSE r) = v
  <2> HIDE DEF W, r
  <2>1. v \in -(W \div 2)..W \div 2 - 1
    BY DEF W
  <2> QED
    BY <1>1, <1>2, <2>1
<1> QED
  BY <1>2, <1>3, <1>5, <1>6, WordIs

LEMMA ReadsUint64 ==
    ASSUME buffer \in Seq(Xdr!Bytes), NEW v \in Int, NEW pos, Holds(pos, Xdr!writeUint64(v))
    PROVE  Xdr!readUint64(pos) = [value |-> v % (Xdr!Word * Xdr!Word),
                                  offset |-> pos + 2 * WordBytes]
<1> DEFINE W == Xdr!Word
           high == (v \div W) % W
           low == v % W
<1>1. W \in Nat \ {0} /\ WordBytes \in Nat
  BY XdrFacts
<1>2. high \in 0..W - 1 /\ low \in 0..W - 1
  BY <1>1, QuotientRest
<1>3. Xdr!writeUint64(v) = Xdr!writeUint32(high) \o Xdr!writeUint32(low)
  BY DEF Xdr!writeUint64
<1>4. high * W + low = v % (W * W)
  BY <1>1, SquareRest
<1> HIDE DEF W, high, low
<1>5. /\ Xdr!writeUint32(high) \in Seq(Xdr!Bytes) /\ Xdr!writeUint32(low) \in Seq(Xdr!Bytes)
      /\ Len(Xdr!writeUint32(high)) = WordBytes
  BY <1>2, WordIs DEF W
<1>6. Holds(pos, Xdr!writeUint32(high)) /\ Holds(pos + WordBytes, Xdr!writeUint32(low))
  BY <1>3, <1>5, HoldsBoth
<1>7. /\ Xdr!readUint32(pos) = [value |-> high, offset |-> pos + WordBytes]
      /\ Xdr!readUint32(pos + WordBytes) =
           [value |-> low, offset |-> (pos + WordBytes) + WordBytes]
  BY <1>2, <1>6, ReadsWord DEF W
<1>8. pos \in Nat
  BY DEF Holds, Stands
<1>9. Xdr!readUint64(pos) = [value |-> high * W + low, offset |-> (pos + WordBytes) + WordBytes]
  BY <1>7 DEF Xdr!readUint64, W
<1> QED
  BY <1>1, <1>4, <1>8, <1>9 DEF W

LEMMA LongIs ==
    ASSUME NEW v \in Int
    PROVE  /\ Xdr!writeUint64(v) \in Seq(Xdr!Bytes) /\ Len(Xdr!writeUint64(v)) = 2 * WordBytes
           /\ Xdr!writeInt64(v) = Xdr!writeUint64(v)
<1> DEFINE high == (v \div Xdr!Word) % Xdr!Word
           low == v % Xdr!Word
<1>1. Xdr!Word \in Nat \ {0} /\ WordBytes \in Nat
  BY XdrFacts
<1>2. high \in 0..Xdr!Word - 1 /\ low \in 0..Xdr!Word - 1
  BY <1>1, QuotientRest
<1>3. Xdr!writeUint64(v) = Xdr!writeUint32(high) \o Xdr!writeUint32(low)
  BY DEF Xdr!writeUint64
<1> HIDE DEF high, low
<1>4. /\ Xdr!writeUint32(high) \in Seq(Xdr!Bytes) /\ Len(Xdr!writeUint32(high)) = WordBytes
      /\ Xdr!writeUint32(low) \in Seq(Xdr!Bytes) /\ Len(Xdr!writeUint32(low)) = WordBytes
  BY <1>2, WordIs
<1>5. Xdr!writeInt64(v) = Xdr!writeUint64(v)
  BY DEF Xdr!writeInt64
<1>6. /\ Xdr!writeUint64(v) \in Seq(Xdr!Bytes)
      /\ Len(Xdr!writeUint64(v)) = WordBytes + WordBytes
  BY <1>3, <1>4, ConcatType
<1> QED
  BY <1>1, <1>5, <1>6

LEMMA ReadsInt128 ==
    ASSUME buffer \in Seq(Xdr!Bytes), NEW v \in Int, NEW pos, Holds(pos, Xdr!writeInt128(v))
    PROVE  Xdr!readUint128(pos) =
             [value |-> v % ((Xdr!Word * Xdr!Word) * (Xdr!Word * Xdr!Word)),
              offset |-> pos + 4 * WordBytes]
<1> DEFINE W == Xdr!Word * Xdr!Word
           high == v \div W
           low == v % W
<1>1. W \in Nat \ {0} /\ WordBytes \in Nat
  BY XdrFacts
<1> HIDE DEF W
<1>2. high \in Int /\ low \in Int /\ low \in 0..W - 1
  BY <1>1, QuotientRest
<1>3. Xdr!writeInt128(v) = Xdr!writeUint64(high) \o Xdr!writeUint64(low)
  BY <1>2, LongIs DEF Xdr!writeInt128, W
<1>4. low % W = low
  <2>1. low \div W \in Int /\ low % W \in 0..W - 1 /\ low = (low % W) + (low \div W) * W
    BY <1>1, <1>2, QuotientRest
  <2> HIDE DEF W, low
  <2>2. (low % W) + (low \div W) * W = low + 0 * W
    BY <1>1, <1>2, <2>1
  <2> QED
    BY <1>1, <1>2, <2>1, <2>2, OneQuotient
<1>5. (high % W) * W + low = v % (W * W)
  BY <1>1, SquareRest
<1> HIDE DEF high, low
<1>6. Holds(pos, Xdr!writeUint64(high)) /\ Holds(pos + 2 * WordBytes, Xdr!writeUint64(low))
  BY <1>2, <1>3, LongIs, HoldsBoth
<1>7. /\ Xdr!readUint64(pos) = [value |-> high % W, offset |-> pos + 2 * WordBytes]
      /\ Xdr!readUint64(pos + 2 * WordBytes) =
           [value |-> low, offset |-> (pos + 2 * WordBytes) + 2 * WordBytes]
  BY <1>2, <1>4, <1>6, ReadsUint64 DEF W
<1>8. pos \in Nat
  BY DEF Holds, Stands
<1>9. Xdr!readUint128(pos) = [value |-> (high % W) * W + low,
                              offset |-> (pos + 2 * WordBytes) + 2 * WordBytes]
  BY <1>7 DEF Xdr!readUint128, W
<1>10. (pos + 2 * WordBytes) + 2 * WordBytes = pos + 4 * WordBytes
  BY <1>1, <1>8
<1> QED
  BY <1>5, <1>9, <1>10 DEF W

LEMMA DataIs ==
    ASSUME NEW data \in Seq(Xdr!Bytes), Len(data) < Xdr!Word
    PROVE  /\ Xdr!writeOpaque(data) \in Seq(Xdr!Bytes)
           /\ Len(Xdr!writeOpaque(data)) = Len(data) + Xdr!Padding(Len(data))
           /\ Xdr!writeVarOpaque(data) \in Seq(Xdr!Bytes)
           /\ Len(Xdr!writeVarOpaque(data)) = WordBytes + (Len(data) + Xdr!Padding(Len(data)))
           /\ Xdr!Padding(Len(data)) \in Nat
<1> DEFINE m == Xdr!Padding(Len(data))
           z == [i \in 1..m |-> 0]
<1>1. /\ Len(data) \in Nat /\ WordBytes \in Nat \ {0} /\ 0 \in Xdr!Bytes
      /\ Len(data) \in 0..Xdr!Word - 1
  BY XdrFacts
<1>2. m \in Nat
  BY <1>1 DEF Xdr!Padding
<1> HIDE DEF m
<1>3. z \in Seq(Xdr!Bytes) /\ Len(z) = m
  <2>1. z \in [1..m -> Xdr!Bytes]
    BY <1>1
  <2> QED
    BY <1>2, <2>1, SeqIs
<1> HIDE DEF z
<1>4. Xdr!writeOpaque(data) = data \o z
  BY DEF Xdr!writeOpaque, z, m
<1>5. data \o z \in Seq(Xdr!Bytes) /\ Len(data \o z) = Len(data) + m
  BY <1>3
<1>6. Xdr!writeVarOpaque(data) = Xdr!writeUint32(Len(data)) \o (data \o z)
  BY <1>4 DEF Xdr!writeVarOpaque
<1>7. Xdr!writeUint32(Len(data)) \in Seq(Xdr!Bytes)
      /\ Len(Xdr!writeUint32(Len(data))) = WordBytes
  BY <1>1, WordIs
<1>8. /\ Xdr!writeVarOpaque(data) \in Seq(Xdr!Bytes)
      /\ Len(Xdr!writeVarOpaque(data)) = WordBytes + (Len(data) + m)
  <2> DEFINE head == Xdr!writeUint32(Len(data))
             body == data \o z
  <2>1. /\ head \in Seq(Xdr!Bytes) /\ Len(head) = WordBytes /\ Xdr!writeVarOpaque(data) = head \o body
        /\ body \in Seq(Xdr!Bytes) /\ Len(body) = Len(data) + m
    BY <1>5, <1>6, <1>7
  <2> HIDE DEF head, body
  <2> QED
    BY <2>1, ConcatType
<1> QED
  BY <1>2, <1>4, <1>5, <1>8 DEF m

LEMMA ReadsVarOpaque ==
    ASSUME buffer \in Seq(Xdr!Bytes), NEW data \in Seq(Xdr!Bytes), Len(data) < Xdr!Word,
           NEW pos, Holds(pos, Xdr!writeVarOpaque(data))
    PROVE  Xdr!readVarOpaque(pos) = [value |-> data,
                                     offset |-> pos + Len(Xdr!writeVarOpaque(data))]
<1> DEFINE l == Len(data)
           m == Xdr!Padding(l)
           z == [i \in 1..m |-> 0]
           head == Xdr!writeUint32(l)
           body == Xdr!writeOpaque(data)
<1>1. /\ l \in Nat /\ l \in 0..Xdr!Word - 1 /\ pos \in Nat /\ WordBytes \in Nat
      /\ 0 \in Xdr!Bytes
  BY XdrFacts DEF Holds, Stands
<1>2. head \in Seq(Xdr!Bytes) /\ Len(head) = WordBytes
  BY <1>1, WordIs
<1>3. body \in Seq(Xdr!Bytes) /\ m \in Nat
  BY DataIs
<1>4. Xdr!writeVarOpaque(data) = head \o body
  BY DEF Xdr!writeVarOpaque
<1>5. body = data \o z
  BY DEF Xdr!writeOpaque
<1>6. z \in Seq(Xdr!Bytes)
  <2> HIDE DEF m
  <2>1. z \in [1..m -> Xdr!Bytes]
    BY <1>1
  <2> QED
    BY <1>3, <2>1, SeqIs
<1> HIDE DEF l, m, z, head, body
<1>7. Holds(pos, head) /\ Holds(pos + WordBytes, body)
  BY <1>2, <1>3, <1>4, HoldsBoth
<1>8. Holds(pos + WordBytes, data)
  BY <1>5, <1>6, <1>7, HoldsBoth
<1>9. Xdr!readUint32(pos) = [value |-> l, offset |-> pos + WordBytes]
  BY <1>1, <1>7, ReadsWord DEF head
<1>10. SubSeq(buffer, (pos + WordBytes) + 1, (pos + WordBytes) + l) = data
  BY <1>8, HeldIs DEF l
<1>11. Xdr!readVarOpaque(pos) = [value |-> data, offset |-> ((pos + WordBytes) + l) + m]
  <2>1. Xdr!readVarOpaque(pos) = Xdr!readOpaque(pos + WordBytes, l)
    BY <1>9 DEF Xdr!readVarOpaque
  <2>2. Xdr!readOpaque(pos + WordBytes, l) =
          [value |-> SubSeq(buffer, (pos + WordBytes) + 1, (pos + WordBytes) + l),
           offset |-> ((pos + WordBytes) + l) + m]
    BY DEF Xdr!readOpaque, m
  <2> QED
    BY <1>10, <2>1, <2>2
<1>12. Len(Xdr!writeVarOpaque(data)) = WordBytes + (l + m)
  BY DataIs DEF l, m
<1>13. ((pos + WordBytes) + l) + m = pos + (WordBytes + (l + m))
  BY <1>1, <1>3
<1> QED
  BY <1>11, <1>12, <1>13

-----------------------------------------------------------------------------
Numeric == {"i64", "u64", "i128", "u128"}
Textual == {"string", "bytes", "symbol"}

LEMMA FieldIs ==
    ASSUME NEW field \in Fields
    PROVE  /\ field.kind \in {"uint32", "int32", "uint64", "bool", "opaque"} \cup Numeric \cup Textual
           /\ field.kind = "uint32" => field.value \in 0..Xdr!Word - 1
           /\ field.kind = "int32" => field.value \in -(Xdr!Word \div 2)..Xdr!Word \div 2 - 1
           /\ field.kind \in {"uint64"} \cup Numeric => field.value \in Int
           /\ field.kind = "bool" => field.value \in BOOLEAN
           /\ field.kind \in {"opaque"} \cup Textual =>
                field.value \in Seq(Xdr!Bytes) /\ Len(field.value) < Xdr!Word
BY PartsAssumption DEF Xdr!XdrAssumption, Numeric, Textual

\* A Soroban value: its tag, and what the tag says comes next.
Body(field) ==
    IF field.kind \in {"i64", "u64"} THEN Xdr!writeUint64(field.value)
    ELSE IF field.kind \in {"i128", "u128"} THEN Xdr!writeInt128(field.value)
    ELSE Xdr!writeVarOpaque(field.value)

LEMMA BodyIs ==
    ASSUME NEW field \in Fields, field.kind \in Numeric \cup Textual
    PROVE  /\ Xdr!Encoded(field) = Xdr!writeInt32(Xdr!Tag[field.kind]) \o Body(field)
           /\ Body(field) \in Seq(Xdr!Bytes)
           /\ field.kind \in {"i64", "u64"} => Len(Body(field)) = 2 * WordBytes
           /\ field.kind \in {"i128", "u128"} => Len(Body(field)) = 4 * WordBytes
<1>1. CASE field.kind \in {"i64", "u64"}
  <2>1. field.value \in Int
    BY <1>1, FieldIs DEF Numeric
  <2>2. Xdr!Encoded(field) = Xdr!writeInt32(Xdr!Tag[field.kind]) \o Xdr!writeInt64(field.value)
    BY <1>1 DEF Xdr!Encoded, Xdr!encodeSorobanValue
  <2> QED
    BY <1>1, <2>1, <2>2, LongIs DEF Body
<1>2. CASE field.kind \in {"i128", "u128"}
  <2> DEFINE W == Xdr!Word * Xdr!Word
  <2>1. field.value \in Int
    BY <1>2, FieldIs DEF Numeric
  <2>2. Xdr!Encoded(field) = Xdr!writeInt32(Xdr!Tag[field.kind]) \o Xdr!writeInt128(field.value)
    BY <1>2 DEF Xdr!Encoded, Xdr!encodeSorobanValue
  <2>3. W \in Nat \ {0} /\ WordBytes \in Nat
    BY XdrFacts
  <2> HIDE DEF W
  <2>4. field.value \div W \in Int /\ field.value % W \in Int
    BY <2>1, <2>3, QuotientRest
  <2> DEFINE high == Xdr!writeUint64(field.value \div W)
             low == Xdr!writeUint64(field.value % W)
  <2>5. /\ high \in Seq(Xdr!Bytes) /\ Len(high) = 2 * WordBytes
        /\ low \in Seq(Xdr!Bytes) /\ Len(low) = 2 * WordBytes
        /\ Xdr!writeInt128(field.value) = high \o low
    BY <2>4, LongIs DEF Xdr!writeInt128, W
  <2> HIDE DEF high, low
  <2>6. Xdr!writeInt128(field.value) \in Seq(Xdr!Bytes)
        /\ Len(Xdr!writeInt128(field.value)) = 2 * WordBytes + 2 * WordBytes
    BY <2>5, ConcatType
  <2>7. Body(field) = Xdr!writeInt128(field.value)
    BY <1>2 DEF Body
  <2>8. 2 * WordBytes + 2 * WordBytes = 4 * WordBytes
    BY <2>3
  <2> QED
    BY <1>2, <2>2, <2>6, <2>7, <2>8
<1>3. CASE field.kind \in Textual
  <2>1. field.value \in Seq(Xdr!Bytes) /\ Len(field.value) < Xdr!Word
    BY <1>3, FieldIs
  <2>2. Xdr!Encoded(field) = Xdr!writeInt32(Xdr!Tag[field.kind]) \o Xdr!writeVarOpaque(field.value)
    BY <1>3 DEF Xdr!Encoded, Xdr!encodeSorobanValue, Textual
  <2> QED
    BY <1>3, <2>1, <2>2, DataIs DEF Body, Textual
<1> QED
  BY <1>1, <1>2, <1>3 DEF Numeric

LEMMA TagFits ==
    ASSUME NEW l \in 0..15
    PROVE  /\ l \in -(Xdr!Word \div 2)..Xdr!Word \div 2 - 1
           /\ Xdr!writeInt32(l) \in Seq(Xdr!Bytes) /\ Len(Xdr!writeInt32(l)) = WordBytes
<1>1. Xdr!Word \div 2 \in Nat /\ Xdr!Word \div 2 > 15 /\ Xdr!Word \in Nat \ {0}
  BY XdrFacts
<1>2. l % Xdr!Word \in 0..Xdr!Word - 1
  BY <1>1
<1> QED
  BY <1>1, <1>2, WordIs DEF Xdr!writeInt32

LEMMA FieldType ==
    ASSUME NEW field \in Fields
    PROVE  Xdr!Encoded(field) \in Seq(Xdr!Bytes)
<1>0. Xdr!Word \in Nat \ {0}
  BY XdrFacts
<1>1. CASE field.kind = "uint32"
  BY <1>1, FieldIs, WordIs DEF Xdr!Encoded
<1>2. CASE field.kind = "int32"
  <2>1. field.value \in Int
    BY <1>0, <1>2, FieldIs
  <2>2. field.value % Xdr!Word \in 0..Xdr!Word - 1
    BY <1>0, <2>1, QuotientRest
  <2> QED
    BY <1>2, <2>2, WordIs DEF Xdr!Encoded, Xdr!writeInt32
<1>3. CASE field.kind = "uint64"
  BY <1>3, FieldIs, LongIs DEF Xdr!Encoded
<1>4. CASE field.kind = "opaque"
  BY <1>4, FieldIs, DataIs DEF Xdr!Encoded
<1>5. CASE field.kind = "bool"
  <2>1. Xdr!Encoded(field) = Xdr!writeInt32(IF field.value THEN 1 ELSE 0)
    BY <1>5 DEF Xdr!Encoded, Xdr!encodeSorobanValue
  <2> QED
    BY <2>1, TagFits
<1>6. CASE field.kind \in Numeric \cup Textual
  <2>1. Xdr!Tag[field.kind] \in 0..15
    BY <1>6 DEF Xdr!Tag, Numeric, Textual
  <2> DEFINE tagged == Xdr!writeInt32(Xdr!Tag[field.kind])
             rest == Body(field)
  <2>2. tagged \in Seq(Xdr!Bytes) /\ rest \in Seq(Xdr!Bytes) /\ Xdr!Encoded(field) = tagged \o rest
    BY <1>6, <2>1, TagFits, BodyIs
  <2> HIDE DEF tagged, rest
  <2> QED
    BY <2>2, ConcatType
<1> QED
  BY <1>1, <1>2, <1>3, <1>4, <1>5, <1>6, FieldIs

\* What is read where a field was written is the field, and then the place behind it.
LEMMA FieldReadBack ==
    ASSUME buffer \in Seq(Xdr!Bytes), NEW field \in Fields, Holds(offset, Xdr!Encoded(field))
    PROVE  Xdr!Decoded(field.kind) = [value |-> Xdr!Meaning(field),
                                      offset |-> offset + Len(Xdr!Encoded(field))]
<1>0. WordBytes \in Nat /\ offset \in Nat
  BY XdrFacts DEF Holds, Stands
<1>1. CASE field.kind = "uint32"
  <2>1. Xdr!Encoded(field) = Xdr!writeUint32(field.value) /\ field.value \in 0..Xdr!Word - 1
    BY <1>1, FieldIs DEF Xdr!Encoded
  <2>2. Xdr!readUint32(offset) = [value |-> field.value, offset |-> offset + WordBytes]
    BY <2>1, ReadsWord
  <2> QED
    BY <1>1, <2>1, <2>2, WordIs DEF Xdr!Decoded, Xdr!Meaning
<1>2. CASE field.kind = "int32"
  <2>1. /\ Xdr!Encoded(field) = Xdr!writeInt32(field.value)
        /\ field.value \in -(Xdr!Word \div 2)..Xdr!Word \div 2 - 1
    BY <1>2, FieldIs DEF Xdr!Encoded
  <2>2. Xdr!readInt32(offset) = [value |-> field.value, offset |-> offset + WordBytes]
        /\ Len(Xdr!writeInt32(field.value)) = WordBytes
    BY <2>1, ReadsInt32
  <2> QED
    BY <1>2, <2>1, <2>2 DEF Xdr!Decoded, Xdr!Meaning
<1>3. CASE field.kind = "uint64"
  <2>1. Xdr!Encoded(field) = Xdr!writeUint64(field.value) /\ field.value \in Int
    BY <1>3, FieldIs DEF Xdr!Encoded
  <2>2. /\ Xdr!readUint64(offset) = [value |-> field.value % (Xdr!Word * Xdr!Word),
                                      offset |-> offset + 2 * WordBytes]
        /\ Len(Xdr!writeUint64(field.value)) = 2 * WordBytes
    BY <2>1, ReadsUint64, LongIs
  <2> QED
    BY <1>3, <2>1, <2>2 DEF Xdr!Decoded, Xdr!Meaning
<1>4. CASE field.kind = "opaque"
  <2>1. /\ Xdr!Encoded(field) = Xdr!writeVarOpaque(field.value)
        /\ field.value \in Seq(Xdr!Bytes) /\ Len(field.value) < Xdr!Word
    BY <1>4, FieldIs DEF Xdr!Encoded
  <2>2. Xdr!readVarOpaque(offset) =
          [value |-> field.value, offset |-> offset + Len(Xdr!Encoded(field))]
    BY <2>1, ReadsVarOpaque
  <2> QED
    BY <1>4, <2>2 DEF Xdr!Decoded, Xdr!Meaning
<1>5. CASE field.kind = "bool"
  <2> DEFINE bit == IF field.value THEN 1 ELSE 0
  <2>1. Xdr!Encoded(field) = Xdr!writeInt32(bit) /\ field.value \in BOOLEAN
    BY <1>5, FieldIs DEF Xdr!Encoded, Xdr!encodeSorobanValue
  <2>2. bit \in 0..15 /\ bit \in {0, 1} /\ (bit = 1) = field.value
    BY <2>1
  <2> HIDE DEF bit
  <2>3. Xdr!readInt32(offset) = [value |-> bit, offset |-> offset + WordBytes]
        /\ Len(Xdr!writeInt32(bit)) = WordBytes
    BY <2>1, <2>2, TagFits, ReadsInt32
  <2>4. Xdr!readSorobanValue(offset) = [value |-> bit = 1, offset |-> offset + WordBytes]
    BY <2>2, <2>3 DEF Xdr!readSorobanValue
  <2>5. Xdr!Decoded(field.kind) = Xdr!readSorobanValue(offset) /\ Xdr!Meaning(field) = field.value
    BY <1>5 DEF Xdr!Decoded, Xdr!Meaning
  <2> QED
    BY <2>1, <2>2, <2>3, <2>4, <2>5
<1>6. CASE field.kind \in Numeric \cup Textual
  <2> DEFINE l == Xdr!Tag[field.kind]
             tagged == Xdr!writeInt32(l)
             rest == Body(field)
             next == offset + WordBytes
  <2>1. /\ l \in 0..15
        /\ field.kind \in {"i64", "u64"} => l \in {5, 6}
        /\ field.kind \in {"i128", "u128"} => l \in {9, 10}
        /\ field.kind \in Textual => l \in {13, 14, 15}
    BY <1>6 DEF Xdr!Tag, Numeric, Textual
  <2>2. /\ tagged \in Seq(Xdr!Bytes) /\ Len(tagged) = WordBytes /\ rest \in Seq(Xdr!Bytes)
        /\ Xdr!Encoded(field) = tagged \o rest
    BY <1>6, <2>1, TagFits, BodyIs
  <2> HIDE DEF l, rest
  <2>3. /\ Holds(offset, tagged) /\ Holds(next, rest)
        /\ Len(Xdr!Encoded(field)) = WordBytes + Len(rest)
    <3>1. Holds(offset, tagged \o rest)
      BY <2>2
    <3> HIDE DEF tagged
    <3> QED
      BY <2>2, <3>1, HoldsBoth
  <2>4. Xdr!readInt32(offset) = [value |-> l, offset |-> next]
    BY <2>1, <2>3, TagFits, ReadsInt32
  <2>5. Xdr!Decoded(field.kind) = Xdr!readSorobanValue(offset)
    BY <1>6 DEF Xdr!Decoded, Numeric, Textual
  <2> HIDE DEF tagged, next
  <2>6. Len(rest) \in Nat /\ next + Len(rest) = offset + Len(Xdr!Encoded(field))
    BY <1>0, <2>2, <2>3 DEF next
  <2>7. CASE field.kind \in {"i64", "u64"}
    <3>1. field.value \in Int /\ rest = Xdr!writeUint64(field.value) /\ Len(rest) = 2 * WordBytes
      BY <1>6, <2>7, FieldIs, BodyIs DEF Body, rest, Numeric
    <3>2. Xdr!readUint64(next) = [value |-> field.value % (Xdr!Word * Xdr!Word),
                                  offset |-> next + 2 * WordBytes]
      BY <2>3, <3>1, ReadsUint64
    <3>3. Xdr!readSorobanValue(offset) = Xdr!readUint64(next)
      BY <2>1, <2>4, <2>7 DEF Xdr!readSorobanValue
    <3>4. Xdr!Meaning(field) = field.value % (Xdr!Word * Xdr!Word)
      BY <2>7 DEF Xdr!Meaning
    <3> QED
      BY <2>5, <2>6, <3>1, <3>2, <3>3, <3>4
  <2>8. CASE field.kind \in {"i128", "u128"}
    <3>1. field.value \in Int /\ rest = Xdr!writeInt128(field.value) /\ Len(rest) = 4 * WordBytes
      BY <1>6, <2>8, FieldIs, BodyIs DEF Body, rest, Numeric
    <3>2. Xdr!readUint128(next) =
            [value |-> field.value % ((Xdr!Word * Xdr!Word) * (Xdr!Word * Xdr!Word)),
             offset |-> next + 4 * WordBytes]
      BY <2>3, <3>1, ReadsInt128
    <3>3. Xdr!readSorobanValue(offset) = Xdr!readUint128(next)
      BY <2>1, <2>4, <2>8 DEF Xdr!readSorobanValue
    <3>4. Xdr!Meaning(field) = field.value % ((Xdr!Word * Xdr!Word) * (Xdr!Word * Xdr!Word))
      BY <2>8 DEF Xdr!Meaning
    <3> QED
      BY <2>5, <2>6, <3>1, <3>2, <3>3, <3>4
  <2>9. CASE field.kind \in Textual
    <3>1. /\ field.value \in Seq(Xdr!Bytes) /\ Len(field.value) < Xdr!Word
          /\ rest = Xdr!writeVarOpaque(field.value)
      BY <2>9, FieldIs DEF Body, rest, Textual
    <3>2. Xdr!readVarOpaque(next) = [value |-> field.value, offset |-> next + Len(rest)]
      BY <2>3, <3>1, ReadsVarOpaque
    <3>3. Xdr!readSorobanValue(offset) = Xdr!readVarOpaque(next)
      BY <2>1, <2>4, <2>9 DEF Xdr!readSorobanValue
    <3>4. Xdr!Meaning(field) = field.value
      BY <2>9 DEF Xdr!Meaning, Textual
    <3> QED
      BY <2>5, <2>6, <3>2, <3>3, <3>4
  <2> QED
    BY <1>6, <2>7, <2>8, <2>9 DEF Numeric
<1> QED
  BY <1>1, <1>2, <1>3, <1>4, <1>5, <1>6, FieldIs

-----------------------------------------------------------------------------
(* SdkXdr: amounts.                                                        *)

\* Behind this place there are only zeros, and it is the first such place.
Ends(f, m, l) == (\A i \in l + 1..m : f[i] = 0) /\ (l = 0 \/ f[l] # 0)

LEMMA ZerosBegin == ASSUME NEW m \in Nat, NEW f PROVE \E l \in 0..m : Ends(f, m, l)
<1> DEFINE T == {j \in 0..m : \E l \in 0..j : Ends(f, j, l)}
<1>1. 0 \in T
  BY DEF Ends
<1>2. ASSUME NEW i \in 1..m, i - 1 \in T PROVE i \in T
  <2>1. PICK l \in 0..i - 1 : Ends(f, i - 1, l)
    BY <1>2
  <2>2. CASE f[i] = 0
    <3>1. \A j \in l + 1..i : f[j] = 0
      BY <2>1, <2>2 DEF Ends
    <3>2. Ends(f, i, l) /\ l \in 0..i
      BY <2>1, <3>1 DEF Ends
    <3> QED
      BY <3>2
  <2>3. CASE f[i] # 0
    <3>1. Ends(f, i, i) /\ i \in 0..i
      BY <2>3 DEF Ends
    <3> QED
      BY <3>1
  <2> QED
    BY <2>2, <2>3
<1>3. 0..m \subseteq T
  <2> HIDE DEF T
  <2> QED
    BY <1>1, <1>2, CountInduct
<1> QED
  BY <1>3

LEMMA AmountBack ==
    ASSUME NEW n \in Nat
    PROVE  Xdr!toStroops(Xdr!fromStroops(n)) = n
<1> DEFINE m == Decimals
           ten == 10
           P == Power(ten, m)
           r == n % P
           w == n \div P
           x == [i \in 1..m |-> Digits(r, ten, m)[m + 1 - i]]
           l == CHOOSE j \in 0..m : (\A i \in j + 1..m : x[i] = 0) /\ (j = 0 \/ x[j] # 0)
           d == SubSeq(x, 1, l)
           y == [i \in 1..m |-> IF i <= Len(d) THEN d[i] ELSE 0]
<1>1. m \in Nat /\ ten \in Nat \ {0} /\ P \in Nat \ {0}
  <2>1. m \in Nat /\ ten \in Nat /\ ten # 0
    BY XdrFacts
  <2> HIDE DEF ten, m
  <2> QED
    BY <2>1, PowerNext
<1>2. Xdr!fromStroops(n) = [whole |-> w, decimal |-> d]
  BY XdrNumerals DEF Xdr!fromStroops, Xdr!Fraction
<1>3. Xdr!toStroops([whole |-> w, decimal |-> d]) = w * P + BigEndian(y, ten)
  <2> HIDE DEF w, d
  <2> QED
    BY XdrNumerals DEF Xdr!toStroops
<1> HIDE DEF P, ten
<1>4. w \in Int /\ r \in 0..P - 1 /\ n = r + w * P
  BY <1>1, QuotientRest
<1> HIDE DEF m, r, w
<1>5. x \in Seq(0..ten - 1) /\ Len(x) = m /\ BigEndian(x, ten) = r
  <2>1. x = [i \in 1..m |-> Digits(r, ten, m)[m + 1 - i]]
    OBVIOUS
  <2>2. r \in 0..Power(ten, m) - 1
    BY <1>4 DEF P
  <2> HIDE DEF x
  <2> QED
    BY <1>1, <2>1, <2>2, BackwardsNumber
<1> HIDE DEF x
<1>6. l \in 0..m /\ \A i \in l + 1..m : x[i] = 0
  BY <1>1, ZerosBegin DEF Ends
<1> HIDE DEF l
<1>7. Len(d) = l /\ \A i \in 1..l : d[i] = x[i]
  BY <1>1, <1>5, <1>6
<1> HIDE DEF d
<1>8. \A i \in 1..m : y[i] = x[i]
  <2> SUFFICES ASSUME NEW i \in 1..m PROVE y[i] = x[i]
    OBVIOUS
  <2>1. CASE i <= l
    BY <1>6, <1>7, <2>1
  <2>2. CASE ~(i <= l)
    <3>1. i \in l + 1..m
      BY <1>1, <1>6, <2>2
    <3> QED
      BY <1>6, <1>7, <2>2, <3>1
  <2> QED
    BY <2>1, <2>2
<1>9. y = x
  <2>1. x = [i \in 1..m |-> x[i]] /\ y = [i \in 1..m |-> y[i]]
    BY <1>1, <1>5
  <2> HIDE DEF y
  <2> QED
    BY <1>8, <2>1
<1> HIDE DEF y
<1>10. w * P \in Int /\ r \in Int
  BY <1>1, <1>4
<1> QED
  BY <1>2, <1>3, <1>4, <1>5, <1>9, <1>10

-----------------------------------------------------------------------------
(* SdkXdr: a message, field after field.                                   *)

\* Where the fields of the message end: each stands behind the one before it.
Laid(fields, all, ends) ==
    /\ ends \in [0..Len(fields) -> Nat]
    /\ ends[0] = 0 /\ ends[Len(fields)] = Len(all)
    /\ \A i \in 1..Len(fields) :
         /\ ends[i] = ends[i - 1] + Len(Xdr!Encoded(fields[i]))
         /\ Stands(all, ends[i - 1], Xdr!Encoded(fields[i]))

Meanings == {Xdr!Meaning(field) : field \in Fields}

XdrInv ==
    /\ written \in Seq(Fields) /\ Len(written) <= MaxFields
    /\ buffer \in Seq(Xdr!Bytes)
    /\ read \in Seq(Meanings) /\ Len(read) <= Len(written)
    /\ \A i \in 1..Len(read) : read[i] = Xdr!Meaning(written[i])
    /\ \E ends : Laid(written, buffer, ends) /\ offset = ends[Len(read)]
    /\ text # None => amount \in Stroops /\ text = Xdr!fromStroops(amount)

LEMMA XdrBegins == Xdr!Init => XdrInv
<1> SUFFICES ASSUME Xdr!Init PROVE XdrInv
  OBVIOUS
<1>1. written = <<>> /\ buffer = <<>> /\ offset = 0 /\ read = <<>> /\ text = None
  BY DEF Xdr!Init
<1> DEFINE ends == [i \in 0..0 |-> 0]
<1>2. Laid(written, buffer, ends) /\ offset = ends[Len(read)]
  BY <1>1 DEF Laid
<1>3. MaxFields \in Nat
  BY XdrFacts
<1>4. /\ written \in Seq(Fields) /\ Len(written) = 0
      /\ buffer \in Seq(Xdr!Bytes)
      /\ read \in Seq(Meanings) /\ Len(read) = 0
  BY <1>1
<1> HIDE DEF ends
<1> QED
  BY <1>1, <1>2, <1>3, <1>4 DEF XdrInv

\* What the next field adds to the buffer stands behind the rest, which it leaves alone.
LEMMA StillHolds ==
    ASSUME NEW S, buffer \in Seq(S), NEW t \in Seq(S), buffer' = buffer \o t, NEW pos, NEW s,
           Len(s) \in Nat, Holds(pos, s)
    PROVE  Stands(buffer', pos, s)
<1>1. Len(buffer) \in Nat /\ Len(t) \in Nat /\ Len(buffer') = Len(buffer) + Len(t)
      /\ \A i \in 1..Len(buffer) : buffer'[i] = buffer[i]
  OBVIOUS
<1>2. pos \in Nat /\ pos + Len(s) <= Len(buffer) /\ \A i \in 1..Len(s) : buffer[pos + i] = s[i]
  BY DEF Holds, Stands
<1>3. \A i \in 1..Len(s) : pos + i \in 1..Len(buffer)
  BY <1>1, <1>2
<1> QED
  BY <1>1, <1>2, <1>3 DEF Stands

LEMMA FieldWritten ==
    ASSUME XdrInv, NEW field \in Fields, Xdr!write(field)
    PROVE  XdrInv'
<1> DEFINE m == Len(written)
           t == Xdr!Encoded(field)
<1>1. /\ m < MaxFields /\ read = <<>> /\ written' = Append(written, field)
      /\ buffer' = buffer \o t /\ UNCHANGED <<offset, read, amount, text>>
  BY DEF Xdr!write
<1>2. PICK ends : Laid(written, buffer, ends) /\ offset = ends[Len(read)]
  BY DEF XdrInv
<1>3. /\ m \in Nat /\ Len(written') = m + 1 /\ written' \in Seq(Fields)
      /\ \A i \in 1..m : written'[i] = written[i]
      /\ written'[m + 1] = field
      /\ \A i \in 1..m : written[i] \in Fields
  BY <1>1 DEF XdrInv
<1>4. t \in Seq(Xdr!Bytes) /\ Len(t) \in Nat
  BY FieldType
<1> HIDE DEF t
<1>5. /\ buffer' \in Seq(Xdr!Bytes) /\ Len(buffer) \in Nat /\ Len(buffer') = Len(buffer) + Len(t)
      /\ \A i \in 1..Len(t) : buffer'[Len(buffer) + i] = t[i]
  BY <1>1, <1>4 DEF XdrInv
<1> DEFINE next == [i \in 0..m + 1 |-> IF i = m + 1 THEN Len(buffer') ELSE ends[i]]
<1>6. /\ next \in [0..m + 1 -> Nat] /\ next[0] = 0 /\ next[m + 1] = Len(buffer')
      /\ next[m] = Len(buffer) /\ \A i \in 0..m : next[i] = ends[i]
  BY <1>2, <1>3, <1>4, <1>5 DEF Laid
<1> HIDE DEF next
<1>7. ASSUME NEW i \in 1..m + 1
      PROVE  /\ next[i] = next[i - 1] + Len(Xdr!Encoded(written'[i]))
             /\ Stands(buffer', next[i - 1], Xdr!Encoded(written'[i]))
  <2>1. CASE i = m + 1
    <3>1. Xdr!Encoded(written'[i]) = t /\ next[i - 1] = Len(buffer) /\ next[i] = Len(buffer')
      BY <1>3, <1>6, <2>1 DEF t
    <3>2. Stands(buffer', Len(buffer), t)
      BY <1>4, <1>5 DEF Stands
    <3> QED
      BY <1>5, <3>1, <3>2
  <2>2. CASE i \in 1..m
    <3>1. /\ written'[i] = written[i] /\ written[i] \in Fields
          /\ next[i] = ends[i] /\ next[i - 1] = ends[i - 1] /\ i - 1 \in 0..m
      BY <1>3, <1>6, <2>2
    <3> DEFINE s == Xdr!Encoded(written[i])
               pos == ends[i - 1]
    <3>2. s \in Seq(Xdr!Bytes) /\ Len(s) \in Nat
      BY <3>1, FieldType
    <3>3. ends[i] = pos + Len(s) /\ Holds(pos, s)
      BY <1>2, <2>2 DEF Laid, Holds
    <3>4. Xdr!Encoded(written'[i]) = s
      BY <3>1
    <3> HIDE DEF s, pos
    <3>5. Stands(buffer', pos, s)
      BY <1>1, <1>4, <3>2, <3>3, StillHolds DEF XdrInv
    <3> QED
      BY <3>1, <3>3, <3>4, <3>5 DEF pos
  <2> QED
    BY <1>3, <2>1, <2>2
<1>8. Laid(written', buffer', next)
  BY <1>3, <1>6, <1>7 DEF Laid
<1>9. offset' = next[Len(read')]
  <2>1. Len(read) = 0
    BY <1>1
  <2> QED
    BY <1>1, <1>2, <1>3, <1>6, <2>1
<1>10. MaxFields \in Nat
  BY XdrFacts
<1>11. Len(read') = 0 /\ read' \in Seq(Meanings)
  BY <1>1 DEF XdrInv
<1>12. text' # None => amount' \in Stroops /\ text' = Xdr!fromStroops(amount')
  BY <1>1 DEF XdrInv
<1> QED
  BY <1>1, <1>3, <1>5, <1>8, <1>9, <1>10, <1>11, <1>12 DEF XdrInv

LEMMA FieldRead == ASSUME XdrInv, Xdr!readField PROVE XdrInv'
<1> DEFINE m == Len(read)
           field == written[m + 1]
<1>1. /\ m < Len(written) /\ UNCHANGED <<written, buffer, amount, text>>
      /\ read' = Append(read, Xdr!Decoded(field.kind).value)
      /\ offset' = Xdr!Decoded(field.kind).offset
  BY DEF Xdr!readField
<1>2. PICK ends : Laid(written, buffer, ends) /\ offset = ends[m]
  BY DEF XdrInv
<1>3. /\ written \in Seq(Fields) /\ read \in Seq(Meanings) /\ m \in Nat
      /\ buffer \in Seq(Xdr!Bytes) /\ Len(written) \in Nat
      /\ \A i \in 1..m : read[i] = Xdr!Meaning(written[i])
  BY DEF XdrInv
<1>4. m + 1 \in 1..Len(written) /\ (m + 1) - 1 = m /\ field \in Fields
  BY <1>1, <1>3
<1>5. ends[m + 1] = ends[m] + Len(Xdr!Encoded(field)) /\ Holds(offset, Xdr!Encoded(field))
  BY <1>2, <1>4 DEF Laid, Holds
<1> HIDE DEF m, field
<1>6. Xdr!Decoded(field.kind) = [value |-> Xdr!Meaning(field),
                                 offset |-> offset + Len(Xdr!Encoded(field))]
  BY <1>3, <1>4, <1>5, FieldReadBack
<1>7. Xdr!Meaning(field) \in Meanings
  BY <1>4 DEF Meanings
<1> DEFINE v == Xdr!Meaning(field)
<1>8. read' = Append(read, v) /\ offset' = ends[m + 1]
  BY <1>1, <1>2, <1>5, <1>6
<1>9. v = Xdr!Meaning(written[m + 1]) /\ v \in Meanings
  BY <1>7 DEF field
<1> HIDE DEF v
<1>10. /\ read' \in Seq(Meanings) /\ Len(read') = m + 1
       /\ \A i \in 1..m : read'[i] = read[i]
       /\ read'[m + 1] = v
  BY <1>3, <1>8, <1>9 DEF m
<1>11. \A i \in 1..Len(read') : read'[i] = Xdr!Meaning(written'[i])
  <2> SUFFICES ASSUME NEW i \in 1..m + 1 PROVE read'[i] = Xdr!Meaning(written[i])
    BY <1>1, <1>10
  <2>1. CASE i = m + 1
    BY <1>9, <1>10, <2>1
  <2>2. CASE i \in 1..m
    BY <1>3, <1>10, <2>2
  <2> QED
    BY <1>3, <2>1, <2>2
<1>12. Laid(written', buffer', ends) /\ offset' = ends[Len(read')]
  BY <1>1, <1>2, <1>8, <1>10
<1>13. Len(read') <= Len(written')
  BY <1>1, <1>3, <1>10
<1>14. /\ Len(written') <= MaxFields /\ written' \in Seq(Fields) /\ buffer' \in Seq(Xdr!Bytes)
       /\ text' # None => amount' \in Stroops /\ text' = Xdr!fromStroops(amount')
  BY <1>1 DEF XdrInv
<1> QED
  BY <1>10, <1>11, <1>12, <1>13, <1>14 DEF XdrInv

LEMMA XdrStep == XdrInv /\ [Xdr!Next]_(Xdr!vars) => XdrInv'
<1> SUFFICES ASSUME XdrInv, [Xdr!Next]_(Xdr!vars) PROVE XdrInv'
  OBVIOUS
<1>1. ASSUME NEW field \in Fields, Xdr!write(field) PROVE XdrInv'
  BY <1>1, FieldWritten
<1>2. CASE Xdr!readField
  BY <1>2, FieldRead
<1>3. ASSUME NEW n \in Stroops, Xdr!Show(n) PROVE XdrInv'
  BY <1>3 DEF XdrInv, Xdr!Show, Xdr!xdr
<1>4. CASE UNCHANGED Xdr!vars
  BY <1>4 DEF XdrInv, Xdr!vars, Xdr!xdr
<1> QED
  BY <1>1, <1>2, <1>3, <1>4 DEF Xdr!Next

LEMMA XdrMeans == ASSUME XdrInv PROVE Xdr!TypeOK /\ Xdr!ReadsBack
<1>1. PICK ends : Laid(written, buffer, ends) /\ offset = ends[Len(read)]
  BY DEF XdrInv
<1>2. /\ Len(read) \in 0..Len(written) /\ Len(written) \in Nat
      /\ buffer \in Seq(Xdr!Bytes) /\ Len(buffer) \in Nat
      /\ DOMAIN read = 1..Len(read)
  BY DEF XdrInv
<1>3. offset \in Nat
  BY <1>1, <1>2 DEF Laid
<1>4. Len(read) = Len(written) => offset = Len(buffer)
  BY <1>1 DEF Laid
<1>5. offset <= Len(buffer)
  <2>1. CASE Len(read) = Len(written)
    BY <1>2, <1>4, <2>1
  <2>2. CASE Len(read) # Len(written)
    <3> DEFINE i == Len(read) + 1
               s == Xdr!Encoded(written[i])
    <3>1. i \in 1..Len(written) /\ i - 1 = Len(read) /\ written[i] \in Fields
      BY <1>2, <2>2 DEF XdrInv
    <3>2. Stands(buffer, offset, s)
      BY <1>1, <3>1 DEF Laid
    <3>3. Len(s) \in Nat
      BY <3>1, FieldType
    <3> QED
      BY <1>2, <1>3, <3>2, <3>3 DEF Stands
  <2> QED
    BY <2>1, <2>2
<1>6. text # None => Xdr!toStroops(text) = amount
  <2> SUFFICES ASSUME text # None PROVE Xdr!toStroops(text) = amount
    OBVIOUS
  <2>1. amount \in Nat /\ text = Xdr!fromStroops(amount)
    BY XdrFacts DEF XdrInv
  <2> QED
    BY <2>1, AmountBack
<1>7. \A i \in DOMAIN read : read[i] = Xdr!Meaning(written[i])
  BY <1>2 DEF XdrInv
<1>8. Xdr!TypeOK
  BY <1>2, <1>3, <1>5 DEF Xdr!TypeOK, XdrInv
<1>9. Xdr!ReadsBack
  BY <1>4, <1>6, <1>7 DEF Xdr!ReadsBack
<1> QED
  BY <1>8, <1>9

LEMMA XdrHolds ==
    Xdr!Init /\ [][Xdr!Next]_(Xdr!vars) => [](Xdr!TypeOK /\ Xdr!ReadsBack)
<1>1. Xdr!Init => XdrInv
  BY XdrBegins
<1>2. XdrInv /\ [Xdr!Next]_(Xdr!vars) => XdrInv'
  BY XdrStep
<1>3. XdrInv => Xdr!TypeOK /\ Xdr!ReadsBack
  BY XdrMeans
<1> QED
  BY <1>1, <1>2, <1>3, PTL
=============================================================================
