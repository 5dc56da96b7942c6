-------------------------- MODULE Services_proofs --------------------------
(***************************************************************************)
(* The services of the demo and the login of the SDK, for every set of     *)
(* requests, totals and times: an inductive invariant of each part and     *)
(* what it means.  StreamEscrow_proofs and LoginSession_proofs have the    *)
(* proofs about a stream's requests and about the login, which are         *)
(* brought in here.                                                        *)
(***************************************************************************)
EXTENDS Services, LoginSession_proofs, CollectionLemmas, Sequences

\* The operators on collections that the instances have each of their own.
LEMMA SameSizesHere ==
    /\ \A S : Quest!Cardinality(S) = Cardinality(S)
    /\ \A S : Quest!IsFiniteSet(S) = IsFiniteSet(S)
BY DEF Cardinality, Quest!Cardinality, IsFiniteSet, Quest!IsFiniteSet

LEMMA SameSumsHere == \A f, S : Quest!SumFunctionOnSet(f, S) = SumFunctionOnSet(f, S)
BY DEF SumFunctionOnSet, FoldFunctionOnSet, MapThenFoldSet, Quest!SumFunctionOnSet,
   Quest!FoldFunctionOnSet, Quest!MapThenFoldSet

LEMMA SameListsHere == \A s, w : Mpc!Filtered(s, w) = Filtered(s, w)
BY DEF Filtered, Mpc!Filtered

-----------------------------------------------------------------------------
(* StreamCurve.                                                            *)

(* Products and quotients of integers.                                     *)

LEMMA Times ==
    ASSUME NEW a \in Int, NEW b \in Int, NEW c \in Int, a <= b, 0 <= c
    PROVE  a * c <= b * c
OBVIOUS

LEMMA TimesBack ==
    ASSUME NEW a \in Int, NEW b \in Int, NEW c \in Int, a * c <= b * c, 0 < c
    PROVE  a <= b
<1> SUFFICES ASSUME b + 1 <= a PROVE FALSE
  OBVIOUS
<1>1. (b + 1) * c <= a * c
  BY Times
<1>2. (b + 1) * c = b * c + c /\ b * c \in Int /\ a * c \in Int
  OBVIOUS
<1> QED
  BY <1>1, <1>2

LEMMA Division ==
    ASSUME NEW a \in Int, NEW d \in Nat \ {0}
    PROVE  a \div d \in Int /\ (a \div d) * d <= a /\ a < (a \div d) * d + d
OBVIOUS

LEMMA DivisionGrows ==
    ASSUME NEW a \in Int, NEW b \in Int, NEW d \in Nat \ {0}, a <= b
    PROVE  a \div d <= b \div d
<1> DEFINE x == a \div d
           y == b \div d
<1>1. x \in Int /\ y \in Int /\ x * d <= a /\ b < y * d + d
  BY Division
<1> HIDE DEF x, y
<1>2. x * d < (y + 1) * d
  BY <1>1
<1>3. x < y + 1
  <2> SUFFICES ASSUME y + 1 <= x PROVE FALSE
    BY <1>1
  <2>1. (y + 1) * d <= x * d
    BY <1>1, Times
  <2> QED
    BY <1>1, <1>2, <2>1
<1> QED
  BY <1>1, <1>3 DEF x, y

\* What toFixed(7) makes of a fraction is at most half a stroop from it.
LEMMA Nearest ==
    ASSUME NEW x, NEW d \in Nat \ {0}, NEW m \in Int, x = <<m, d>>, NEW n \in Shape!Rounded(x)
    PROVE  n \in Int /\ 2 * (m - n * d) <= d /\ 2 * (n * d - m) <= d
BY Division DEF Shape!Rounded

(* The curves.                                                             *)

\* The share of the time: between nothing and everything, never ahead of the time itself,
\* and never shrinking.
LEMMA ProgressShare ==
    ASSUME NEW curve \in Shape!CurveTypes, NEW d \in Nat \ {0}, NEW e \in 0..d
    PROVE  \E p \in Nat, q \in Nat \ {0} :
             Shape!Progress(curve, e, d) = <<p, q>> /\ p <= q /\ p * d <= e * q
<1>1. CASE curve = "exponential"
  <2>1. Shape!Progress(curve, e, d) = <<e * e, d * d>>
    BY <1>1 DEF Shape!Progress
  <2>2. e * e \in Nat /\ d * d \in Nat \ {0} /\ e * e <= d * d /\ e * e * d <= e * (d * d)
    OBVIOUS
  <2> QED
    BY <2>1, <2>2
<1>2. CASE curve = "steps"
  <2> DEFINE n == (10 * e) \div d
  <2>1. Shape!Progress(curve, e, d) = <<n, 10>>
    BY <1>2 DEF Shape!Progress, Shape!Steps
  <2>2. 10 * e \in Int /\ n \in Int /\ n * d <= 10 * e /\ 10 * e < n * d + d
    BY Division
  <2> HIDE DEF n
  <2>3. n >= 0
    <3> SUFFICES ASSUME n + 1 <= 0 PROVE FALSE
      BY <2>2
    <3>1. (n + 1) * d <= 0 * d
      BY <2>2, Times
    <3> QED
      BY <2>2, <3>1
  <2>4. n <= 10
    <3>1. n * d <= 10 * d
      BY <2>2
    <3> QED
      BY <2>2, <3>1, TimesBack
  <2> QED
    BY <2>1, <2>2, <2>3, <2>4
<1>3. CASE curve \notin {"exponential", "steps"}
  <2>1. Shape!Progress(curve, e, d) = <<e, d>>
    BY <1>3 DEF Shape!Progress
  <2> QED
    BY <2>1
<1> QED
  BY <1>1, <1>2, <1>3

LEMMA ProgressGrows ==
    ASSUME NEW curve \in Shape!CurveTypes, NEW d \in Nat \ {0}, NEW e \in 0..d,
             NEW f \in 0..d, e <= f,
           NEW p \in Nat, NEW q \in Nat \ {0}, Shape!Progress(curve, e, d) = <<p, q>>,
           NEW r \in Nat, NEW u \in Nat \ {0}, Shape!Progress(curve, f, d) = <<r, u>>
    PROVE  q = u /\ p <= r
<1>1. CASE curve = "exponential"
  <2>1. <<p, q>> = <<e * e, d * d>> /\ <<r, u>> = <<f * f, d * d>>
    BY <1>1 DEF Shape!Progress
  <2>2. e * e <= f * f
    OBVIOUS
  <2> QED
    BY <2>1, <2>2
<1>2. CASE curve = "steps"
  <2>1. <<p, q>> = <<(10 * e) \div d, 10>> /\ <<r, u>> = <<(10 * f) \div d, 10>>
    BY <1>2 DEF Shape!Progress, Shape!Steps
  <2>2. (10 * e) \div d <= (10 * f) \div d
    BY DivisionGrows
  <2> QED
    BY <2>1, <2>2
<1>3. CASE curve \notin {"exponential", "steps"}
  <2>1. <<p, q>> = <<e, d>> /\ <<r, u>> = <<f, d>>
    BY <1>3 DEF Shape!Progress
  <2> QED
    BY <2>1
<1> QED
  BY <1>1, <1>2, <1>3

LEMMA StreamFields ==
    ASSUME Shape!CurveAssumption, NEW s \in Shape!Terms
    PROVE  /\ s.total \in Nat \ {0} /\ s.duration \in Nat \ {0} /\ s.curve \in Shape!CurveTypes
           /\ s.cliff \in Nat /\ s.duration - s.cliff \in Nat \ {0}
           /\ s.cliff \in 0..s.duration - 1
           /\ s.total \in Totals /\ s.duration \in Durations /\ s.curve \in Curves
           /\ [s EXCEPT !.cliff = 0] \in [total : Totals, duration : {s.duration},
                                          cliff : {0}, curve : Curves]
BY DEF Shape!CurveAssumption, Shape!Terms

\* What has streamed once the stream has begun and its cliff has passed.
LEMMA VestedShare ==
    ASSUME Shape!CurveAssumption, NEW s \in Shape!Terms, NEW e \in s.cliff..s.duration
    PROVE  \E p \in Nat, q \in Nat \ {0} :
             /\ Shape!Progress(s.curve, e - s.cliff, s.duration - s.cliff) = <<p, q>>
             /\ p <= q /\ p * (s.duration - s.cliff) <= (e - s.cliff) * q
             /\ Shape!Vested(s, e) = <<s.total * (s.cliff * q + (s.duration - s.cliff) * p),
                                 s.duration * q>>
<1>1. /\ s.duration - s.cliff \in Nat \ {0} /\ e - s.cliff \in 0..(s.duration - s.cliff)
      /\ s.curve \in Shape!CurveTypes
  <2>1. /\ s.cliff \in Nat /\ s.duration \in Nat /\ s.duration - s.cliff \in Nat \ {0}
        /\ s.curve \in Shape!CurveTypes
    BY StreamFields
  <2>2. e \in Int /\ s.cliff <= e /\ e <= s.duration
    BY <2>1
  <2> QED
    BY <2>1, <2>2
<1>2. PICK p \in Nat, q \in Nat \ {0} :
        /\ Shape!Progress(s.curve, e - s.cliff, s.duration - s.cliff) = <<p, q>>
        /\ p <= q /\ p * (s.duration - s.cliff) <= (e - s.cliff) * q
  BY <1>1, ProgressShare
<1> QED
  BY <1>2 DEF Shape!Vested

\* What has streamed is a fraction between nothing and the total.
LEMMA StreamedShare ==
    ASSUME Shape!CurveAssumption, NEW s \in Shape!Terms, NEW e \in Int
    PROVE  \E n \in Nat, d \in Nat \ {0} : Shape!Streamed(s, e) = <<n, d>> /\ n <= s.total * d
<1>0. /\ s.total \in Nat \ {0} /\ s.duration \in Nat \ {0} /\ s.cliff \in 0..s.duration - 1
  BY StreamFields
<1>1. CASE e <= 0 \/ e >= s.duration \/ e < s.cliff
  <2>1. Shape!Streamed(s, e) = <<0, 1>> \/ Shape!Streamed(s, e) = <<s.total, 1>>
    BY <1>0, <1>1 DEF Shape!Streamed, Shape!Whole
  <2> QED
    BY <1>0, <2>1
<1>2. CASE ~(e <= 0 \/ e >= s.duration \/ e < s.cliff)
  <2>1. Shape!Streamed(s, e) = Shape!Vested(s, e) /\ e \in s.cliff..s.duration
    BY <1>0, <1>2 DEF Shape!Streamed
  <2>a. PICK T \in Nat \ {0}, c \in Nat, k \in Nat \ {0} :
          T = s.total /\ c = s.cliff /\ k = s.duration - s.cliff /\ s.duration = c + k
    <3>1. s.total \in Nat \ {0} /\ s.cliff \in Nat /\ s.duration - s.cliff \in Nat \ {0}
      BY StreamFields
    <3>2. s.duration = s.cliff + (s.duration - s.cliff)
      BY <1>0, <3>1
    <3> QED
      BY <3>1, <3>2
  <2>2. PICK p \in Nat, q \in Nat \ {0} :
          p <= q /\ Shape!Vested(s, e) = <<T * (c * q + k * p), (c + k) * q>>
    <3>1. PICK p \in Nat, q \in Nat \ {0} :
            /\ p <= q
            /\ Shape!Vested(s, e) = <<s.total * (s.cliff * q + (s.duration - s.cliff) * p),
                                     s.duration * q>>
      BY <2>1, VestedShare
    <3>2. Shape!Vested(s, e) = <<T * (c * q + k * p), (c + k) * q>>
      BY <2>a, <3>1, ZenonT(30)
    <3> QED
      BY <3>1, <3>2
  <2>3. /\ T * (c * q + k * p) \in Nat /\ (c + k) * q \in Nat \ {0}
        /\ c * q + k * p <= (c + k) * q
    BY <2>2
  <2>4. T * (c * q + k * p) <= T * ((c + k) * q)
    BY <2>2, <2>3
  <2> QED
    BY <2>1, <2>2, <2>3, <2>4, <2>a
<1> QED
  BY <1>1, <1>2

\* What has streamed never shrinks.
LEMMA StreamedGrows ==
    ASSUME Shape!CurveAssumption, NEW s \in Shape!Terms, NEW e \in Int, NEW f \in Int, e <= f
    PROVE  Shape!Leq(Shape!Streamed(s, e), Shape!Streamed(s, f))
<1>0. /\ s.total \in Nat \ {0} /\ s.duration \in Nat \ {0} /\ s.cliff \in 0..s.duration - 1
      /\ s.curve \in Shape!CurveTypes
  BY StreamFields
<1>1. PICK n \in Nat, d \in Nat \ {0} : Shape!Streamed(s, e) = <<n, d>> /\ n <= s.total * d
  BY StreamedShare
<1>2. PICK m \in Nat, g \in Nat \ {0} : Shape!Streamed(s, f) = <<m, g>> /\ m <= s.total * g
  BY StreamedShare
<1>3. CASE e <= 0 \/ e < s.cliff \/ f <= 0 \/ f < s.cliff
  <2>1. Shape!Streamed(s, e) = <<0, 1>>
    BY <1>0, <1>3 DEF Shape!Streamed, Shape!Whole
  <2>2. 0 * g <= m * 1
    OBVIOUS
  <2> QED
    BY <1>2, <2>1, <2>2 DEF Shape!Leq
<1>4. CASE f >= s.duration
  <2>1. Shape!Streamed(s, f) = <<s.total, 1>>
    BY <1>0, <1>4 DEF Shape!Streamed, Shape!Whole
  <2>2. n * 1 <= s.total * d
    BY <1>0, <1>1
  <2> QED
    BY <1>1, <2>1, <2>2 DEF Shape!Leq
<1>5. CASE e > 0 /\ e >= s.cliff /\ f < s.duration
  <2>1. /\ Shape!Streamed(s, e) = Shape!Vested(s, e) /\ Shape!Streamed(s, f) = Shape!Vested(s, f)
        /\ e \in s.cliff..s.duration /\ f \in s.cliff..s.duration
    BY <1>0, <1>5 DEF Shape!Streamed
  <2>a. PICK T \in Nat \ {0}, c \in Nat, k \in Nat \ {0} :
          T = s.total /\ c = s.cliff /\ k = s.duration - s.cliff /\ s.duration = c + k
    <3>1. s.total \in Nat \ {0} /\ s.cliff \in Nat /\ s.duration - s.cliff \in Nat \ {0}
      BY StreamFields
    <3>2. s.duration = s.cliff + (s.duration - s.cliff)
      BY <1>0, <3>1
    <3> QED
      BY <3>1, <3>2
  <2>2. PICK p \in Nat, q \in Nat \ {0} :
          /\ Shape!Progress(s.curve, e - c, k) = <<p, q>>
          /\ Shape!Vested(s, e) = <<T * (c * q + k * p), (c + k) * q>>
    <3>1. PICK p \in Nat, q \in Nat \ {0} :
            /\ Shape!Progress(s.curve, e - s.cliff, s.duration - s.cliff) = <<p, q>>
            /\ Shape!Vested(s, e) = <<s.total * (s.cliff * q + (s.duration - s.cliff) * p),
                               s.duration * q>>
      BY <2>1, VestedShare
    <3> QED
      BY <2>a, <3>1
  <2>3. PICK r \in Nat, u \in Nat \ {0} :
          /\ Shape!Progress(s.curve, f - c, k) = <<r, u>>
          /\ Shape!Vested(s, f) = <<T * (c * u + k * r), (c + k) * u>>
    <3>1. PICK r \in Nat, u \in Nat \ {0} :
            /\ Shape!Progress(s.curve, f - s.cliff, s.duration - s.cliff) = <<r, u>>
            /\ Shape!Vested(s, f) = <<s.total * (s.cliff * u + (s.duration - s.cliff) * r),
                               s.duration * u>>
      BY <2>1, VestedShare
    <3> QED
      BY <2>a, <3>1
  <2>4. u = q /\ p <= r
    <3>1. e - c \in 0..k /\ f - c \in 0..k /\ e - c <= f - c
      BY <2>1, <2>a
    <3> QED
      BY <1>0, <2>2, <2>3, <3>1, ProgressGrows
  <2>5. c * q + k * p <= c * q + k * r
    BY <2>4
  <2>6. T * (c * q + k * p) <= T * (c * q + k * r)
    BY <2>5
  <2>7. T * (c * q + k * p) \in Int /\ T * (c * q + k * r) \in Int /\ (c + k) * q \in Nat
    OBVIOUS
  <2>8. (T * (c * q + k * p)) * ((c + k) * q) <= (T * (c * q + k * r)) * ((c + k) * q)
    BY <2>6, <2>7, Times
  <2> QED
    BY <2>1, <2>2, <2>3, <2>4, <2>8 DEF Shape!Leq
<1> QED
  BY <1>0, <1>3, <1>4, <1>5

\* The stream without its cliff, and without its bend, is a stream too.
LEMMA StraightStreams ==
    ASSUME Shape!CurveAssumption, NEW s \in Shape!Terms, NEW e \in Int, e > 0, e < s.duration
    PROVE  /\ Shape!Progress([s EXCEPT !.cliff = 0, !.curve = "linear"].curve, e, s.duration)
                = <<e, s.duration>>
           /\ Shape!Streamed([s EXCEPT !.cliff = 0, !.curve = "linear"], e)
                = <<s.total * (0 * s.duration + s.duration * e), s.duration * s.duration>>
           /\ s.curve \in {"linear", "cliff"} =>
                Shape!Streamed([s EXCEPT !.cliff = 0], e)
                  = <<s.total * (0 * s.duration + s.duration * e), s.duration * s.duration>>
<1> DEFINE g == [s EXCEPT !.cliff = 0, !.curve = "linear"]
           h == [s EXCEPT !.cliff = 0]
<1>0. s.total \in Nat /\ s.duration \in Nat /\ e - 0 = e /\ s.duration - 0 = s.duration
  <2>1. s.total \in Nat /\ s.duration \in Nat
    BY StreamFields
  <2> QED
    BY <2>1
<1>1. /\ g.total = s.total /\ g.duration = s.duration /\ g.cliff = 0 /\ g.curve = "linear"
      /\ h.total = s.total /\ h.duration = s.duration /\ h.cliff = 0 /\ h.curve = s.curve
  BY DEF Shape!Terms
<1> HIDE DEF g, h
<1>2. Shape!Streamed(g, e) = Shape!Vested(g, e) /\ Shape!Streamed(h, e) = Shape!Vested(h, e)
  BY <1>0, <1>1 DEF Shape!Streamed
<1>3. /\ Shape!Progress(g.curve, e, s.duration) = <<e, s.duration>>
      /\ h.curve \in {"linear", "cliff"} => Shape!Progress(h.curve, e, s.duration)
        = <<e, s.duration>>
  BY <1>1 DEF Shape!Progress
<1>4. Shape!Vested(g, e) = <<s.total * (0 * s.duration + s.duration * e), s.duration * s.duration>>
  BY <1>0, <1>1, <1>3 DEF Shape!Vested
<1>5. h.curve \in {"linear", "cliff"} =>
        Shape!Vested(h, e) = <<s.total * (0 * s.duration + s.duration * e),
          s.duration * s.duration>>
  BY <1>0, <1>1, <1>3 DEF Shape!Vested
<1> QED
  BY <1>1, <1>2, <1>3, <1>4, <1>5 DEF g, h

LEMMA CliffDelays ==
    ASSUME Shape!CurveAssumption, stream \in Shape!Terms, elapsed \in Int
             PROVE Shape!CliffOnlyDelays
<1> DEFINE h == [stream EXCEPT !.cliff = 0]
<1> SUFFICES ASSUME stream.curve \in {"linear", "cliff"}, elapsed > 0, elapsed >= stream.cliff
             PROVE  /\ Shape!Leq(Shape!Streamed(h, elapsed), Shape!Streamed(stream, elapsed))
                    /\ Shape!Leq(Shape!Streamed(stream, elapsed), Shape!Streamed(h, elapsed))
  BY DEF Shape!CliffOnlyDelays
<1>0. /\ stream.total \in Nat \ {0} /\ stream.duration \in Nat \ {0} /\ stream.cliff \in Nat
      /\ stream.duration - stream.cliff \in Nat \ {0}
  BY StreamFields
<1>1. CASE elapsed >= stream.duration
  <2>1. h.duration = stream.duration /\ h.total = stream.total
    BY DEF Shape!Terms
  <2>2. Shape!Streamed(stream, elapsed) = <<stream.total, 1>> /\ Shape!Streamed(h, elapsed)
          = <<stream.total, 1>>
    BY <1>0, <1>1, <2>1 DEF Shape!Streamed, Shape!Whole
  <2> QED
    BY <1>0, <2>2 DEF Shape!Leq
<1>2. CASE elapsed < stream.duration
  <2>a. PICK T \in Nat, c \in Nat, k \in Nat \ {0}, e \in Int :
          T = stream.total /\ c = stream.cliff /\ k = stream.duration - stream.cliff /\ e = elapsed
    BY <1>0
  <2>b. stream.duration = c + k
    BY <1>0, <2>a
  <2>1. Shape!Streamed(h, elapsed) = <<T * (0 * (c + k) + (c + k) * e), (c + k) * (c + k)>>
    BY <1>2, <2>a, <2>b, StraightStreams
  <2>2. Shape!Streamed(stream, elapsed) = Shape!Vested(stream, elapsed)
    BY <1>0, <1>2 DEF Shape!Streamed
  <2>3. Shape!Progress(stream.curve, e - c, k) = <<e - c, k>>
    BY DEF Shape!Progress
  <2>4. Shape!Vested(stream, elapsed) = <<T * (c * k + k * (e - c)), (c + k) * k>>
    BY <2>3, <2>a, <2>b DEF Shape!Vested
  <2>5. (T * (c * k + k * (e - c))) * ((c + k) * (c + k))
          = (T * (0 * (c + k) + (c + k) * e)) * ((c + k) * k)
    <3>1. c * k + k * (e - c) = k * e /\ 0 * (c + k) + (c + k) * e = (c + k) * e
      OBVIOUS
    <3>2. (T * (k * e)) * ((c + k) * (c + k)) = (T * ((c + k) * e)) * ((c + k) * k)
      OBVIOUS
    <3> QED
      BY <3>1, <3>2
  <2>6. (T * (c * k + k * (e - c))) * ((c + k) * (c + k)) \in Int
    OBVIOUS
  <2>7. \A a, b, x, y : a * y = x * b /\ a * y \in Int
          => Shape!Leq(<<a, b>>, <<x, y>>) /\ Shape!Leq(<<x, y>>, <<a, b>>)
    BY DEF Shape!Leq
  <2> QED
    BY <2>1, <2>2, <2>4, <2>5, <2>6, <2>7
<1> QED
  BY <1>0, <1>1, <1>2

(* The stream over time.                                                   *)

\* What has been withdrawn is at most half a stroop above what has streamed: written as a
\* fact of integers.
LEMMA BoundedMeans ==
    ASSUME NEW n \in Nat, NEW d \in Nat \ {0}, Shape!Streamed(stream, elapsed) = <<n, d>>,
           withdrawn \in Int
    PROVE  Shape!RoundingBounded <=> 2 * (withdrawn * d - n) <= d
BY DEF Shape!RoundingBounded, Shape!Leq, Shape!Minus, Shape!Whole

Rounding ==
    /\ stream \in Shape!Terms /\ elapsed \in -1..MaxElapsed
    /\ withdrawn \in 0..stream.total /\ refunded \in -1..stream.total
    /\ Shape!RoundingBounded /\ Shape!SharesFitDeposit

\* One payment of n stroops, where n is what toFixed makes of an amount that has streamed.
LEMMA PayStep ==
    ASSUME Shape!CurveAssumption, Rounding, NEW n \in Int, n > 0, refunded = -1,
           withdrawn' = withdrawn + n, UNCHANGED <<stream, elapsed, refunded>>,
           NEW m \in Nat, NEW d \in Nat \ {0}, Shape!Streamed(stream, elapsed) = <<m, d>>,
           m <= stream.total * d,
           2 * ((withdrawn + n) * d - m) <= d
    PROVE  Rounding'
<1>0. stream.total \in Nat /\ withdrawn \in Nat /\ withdrawn' \in Nat
  <2>1. stream \in Shape!Terms /\ withdrawn \in 0..stream.total
    BY DEF Rounding
  <2>2. stream.total \in Nat
    BY <2>1, StreamFields
  <2> QED
    BY <2>1, <2>2
<1>1. Shape!RoundingBounded'
  <2>1. Shape!Streamed(stream, elapsed)' = <<m, d>>
    BY DEF Shape!Streamed
  <2> QED
    BY <1>0, <2>1 DEF Shape!RoundingBounded, Shape!Leq, Shape!Minus, Shape!Whole
<1>2. withdrawn' <= stream.total
  <2> SUFFICES ASSUME stream.total + 1 <= withdrawn' PROVE FALSE
    BY <1>0
  <2>1. (stream.total + 1) * d <= withdrawn' * d
    BY <1>0, Times
  <2>2. /\ (stream.total + 1) * d = stream.total * d + d
        /\ stream.total * d \in Int /\ withdrawn' * d \in Int
    BY <1>0
  <2> QED
    BY <2>1, <2>2
<1> QED
  BY <1>0, <1>1, <1>2 DEF Rounding, Shape!SharesFitDeposit

LEMMA RoundingStep == ASSUME Shape!CurveAssumption, Rounding, [Shape!Next]_(Shape!vars)
        PROVE Rounding'
<1>0. /\ stream \in Shape!Terms /\ stream.total \in Nat \ {0} /\ elapsed \in Int
        /\ withdrawn \in Nat
      /\ MaxElapsed \in Nat
  <2>1. stream \in Shape!Terms /\ withdrawn \in 0..stream.total
    BY DEF Rounding
  <2>2. stream.total \in Nat \ {0}
    BY <2>1, StreamFields
  <2>3. MaxElapsed \in Nat /\ elapsed \in Int
    BY DEF Rounding, Shape!CurveAssumption
  <2> QED
    BY <2>1, <2>2, <2>3
<1>a. PICK m \in Nat, d \in Nat \ {0} :
        Shape!Streamed(stream, elapsed) = <<m, d>> /\ m <= stream.total * d
  BY <1>0, StreamedShare
<1>b. 2 * (withdrawn * d - m) <= d
  BY <1>0, <1>a, BoundedMeans DEF Rounding
<1>1. CASE Shape!Tick
  <2>1. elapsed' = elapsed + 1 /\ elapsed' \in -1..MaxElapsed /\ elapsed' \in Int
        /\ UNCHANGED <<stream, withdrawn, refunded>>
    BY <1>0, <1>1 DEF Shape!Tick, Rounding
  <2>2. PICK x \in Nat, y \in Nat \ {0} : Shape!Streamed(stream, elapsed') = <<x, y>>
    BY <1>0, <2>1, StreamedShare
  <2>3. m * y <= x * d
    <3>1. Shape!Leq(Shape!Streamed(stream, elapsed), Shape!Streamed(stream, elapsed'))
      BY <1>0, <2>1, StreamedGrows
    <3> QED
      BY <1>a, <2>2, <3>1 DEF Shape!Leq
  <2>4. 2 * (withdrawn * y - x) <= y
    <3>a. PICK w \in Nat : w = withdrawn
      BY <1>0
    <3>1. (2 * (w * d - m)) * y <= d * y
      BY <1>b, <3>a, Times
    <3>2. (2 * (w * d - m)) * y = 2 * (w * y) * d - 2 * (m * y)
      OBVIOUS
    <3>3. 2 * (w * y) * d - 2 * (x * d) = (2 * (w * y - x)) * d /\ d * y = y * d
      OBVIOUS
    <3>4. /\ m * y \in Int /\ x * d \in Int /\ 2 * (w * y) * d \in Int /\ y * d \in Int
          /\ 2 * (w * y - x) \in Int
      OBVIOUS
    <3>5. (2 * (w * y - x)) * d <= y * d
      BY <2>3, <3>1, <3>2, <3>3, <3>4
    <3> QED
      BY <3>4, <3>5, <3>a, TimesBack
  <2>5. Shape!RoundingBounded'
    <3>1. Shape!Streamed(stream, elapsed)' = <<x, y>>
      BY <2>1, <2>2 DEF Shape!Streamed
    <3> QED
      BY <1>0, <2>1, <2>4, <3>1 DEF Shape!RoundingBounded, Shape!Leq, Shape!Minus, Shape!Whole
  <2> QED
    BY <2>1, <2>5 DEF Rounding, Shape!SharesFitDeposit
<1>2. CASE Shape!WithdrawAll
  <2>1. /\ Shape!Withdrawable = <<m * 1 - withdrawn * d, d * 1>>
    BY <1>a DEF Shape!Withdrawable, Shape!Minus, Shape!Whole
  <2>2. m * 1 - withdrawn * d \in Int /\ d * 1 = d
    BY <1>0
  <2>3. PICK n \in Shape!Rounded(Shape!Withdrawable) :
          /\ n > 0 /\ withdrawn' = withdrawn + n /\ refunded = -1
          /\ UNCHANGED <<stream, elapsed, refunded>>
    BY <1>2 DEF Shape!WithdrawAll, Shape!Pay
  <2>4. n \in Int /\ 2 * (n * d - (m * 1 - withdrawn * d)) <= d
    BY <2>1, <2>2, <2>3, Nearest
  <2>5. 2 * ((withdrawn + n) * d - m) <= d
    <3>1. (withdrawn + n) * d = withdrawn * d + n * d /\ m * 1 = m
          /\ withdrawn * d \in Int /\ n * d \in Int
      BY <1>0, <2>4
    <3> QED
      BY <2>4, <3>1
  <2> QED
    BY <1>a, <2>3, <2>4, <2>5, PayStep
<1>3. CASE Shape!WithdrawPart
  <2>1. PICK halves \in 1..2 * stream.total :
          Shape!Leq(<<halves, 2>>, Shape!Withdrawable) /\ Shape!Pay(<<halves, 2>>)
    BY <1>3 DEF Shape!WithdrawPart
  <2>2. PICK n \in Shape!Rounded(<<halves, 2>>) :
          /\ n > 0 /\ withdrawn' = withdrawn + n /\ refunded = -1
          /\ UNCHANGED <<stream, elapsed, refunded>>
    BY <2>1 DEF Shape!Pay
  <2>3. halves \in Int
    BY <1>0
  <2>4. n \in Int /\ 2 * (n * 2 - halves) <= 2
    BY <2>2, <2>3, Nearest
  <2>5. halves * (d * 1) <= (m * 1 - withdrawn * d) * 2
    BY <1>a, <2>1 DEF Shape!Leq, Shape!Withdrawable, Shape!Minus, Shape!Whole
  <2>6. 2 * ((withdrawn + n) * d - m) <= d
    <3>a. PICK w \in Nat : w = withdrawn
      BY <1>0
    <3>1. 2 * n <= halves + 1
      BY <2>3, <2>4
    <3>2. (2 * n) * d <= (halves + 1) * d
      BY <2>3, <2>4, <3>1, Times
    <3>3. (halves + 1) * d = halves * (d * 1) + d /\ halves * (d * 1) \in Int
      BY <2>3
    <3>4. 2 * ((w + n) * d - m) = (2 * n) * d - (m * 1 - w * d) * 2
      BY <2>4
    <3>5. (2 * n) * d \in Int /\ (m * 1 - w * d) * 2 \in Int
      BY <2>4
    <3> QED
      BY <2>5, <3>2, <3>3, <3>4, <3>5, <3>a
  <2> QED
    BY <1>a, <2>2, <2>4, <2>6, PayStep
<1>4. CASE Shape!Cancel
  <2> DEFINE left == Shape!Minus(Shape!Whole(stream.total), Shape!Streamed(stream, elapsed))
  <2>1. left = <<stream.total * d - m * 1, 1 * d>>
    BY <1>a DEF Shape!Minus, Shape!Whole
  <2>2. stream.total * d - m * 1 \in Nat /\ 1 * d = d /\ stream.total * d \in Int
    BY <1>0, <1>a
  <2>3. refunded = -1 /\ UNCHANGED <<stream, elapsed, withdrawn>>
    BY <1>4 DEF Shape!Cancel
  <2>4. CASE Shape!Leq(left, Shape!Whole(1))
    <3>1. refunded' = 0
      BY <1>4, <2>4 DEF Shape!Cancel
    <3> QED
      BY <1>0, <2>3, <3>1 DEF Rounding, Shape!SharesFitDeposit, Shape!RoundingBounded,
         Shape!Streamed
  <2>5. CASE ~Shape!Leq(left, Shape!Whole(1))
    <3>1. refunded' \in Shape!Rounded(left)
      BY <1>4, <2>5 DEF Shape!Cancel
    <3>2. PICK r \in Int : /\ r = refunded'
                           /\ 2 * ((stream.total * d - m * 1) - r * d) <= d
                           /\ 2 * (r * d - (stream.total * d - m * 1)) <= d
      BY <2>1, <2>2, <3>1, Nearest
    <3>a. PICK T \in Nat, w \in Nat : T = stream.total /\ w = withdrawn
      BY <1>0
    <3>3. r >= 0
      <4>1. 0 <= (2 * r + 1) * d
        <5>1. (2 * r + 1) * d = 2 * (r * d) + d /\ r * d \in Int
          OBVIOUS
        <5>2. PICK x \in Nat : x = stream.total * d - m * 1
          BY <2>2
        <5>3. 2 * (x - r * d) <= d
          BY <3>2, <5>2
        <5> QED
          BY <5>1, <5>2, <5>3
      <4>2. 0 * d <= (2 * r + 1) * d
        BY <4>1
      <4>3. 0 <= 2 * r + 1
        BY <4>2, TimesBack
      <4> QED
        BY <4>3
    <3>4. (2 * r) * d <= (2 * T + 1) * d
      <4>1. (2 * T + 1) * d = 2 * (T * d) + d /\ T * d \in Int
            /\ (2 * r) * d = 2 * (r * d) /\ r * d \in Int
        OBVIOUS
      <4> QED
        BY <3>2, <3>a, <4>1
    <3>5. r <= T
      <4>1. 2 * r <= 2 * T + 1
        BY <3>4, TimesBack
      <4> QED
        BY <4>1
    <3>6. (w + r) * d <= (T + 1) * d
      <4>1. /\ (w + r) * d = w * d + r * d /\ (T + 1) * d = T * d + d
            /\ w * d \in Int /\ r * d \in Int /\ T * d \in Int
        OBVIOUS
      <4> QED
        BY <1>b, <3>2, <3>a, <4>1
    <3>7. w + r <= T + 1
      BY <3>6, TimesBack
    <3> QED
      BY <1>0, <2>3, <3>2, <3>3, <3>5, <3>7, <3>a
      DEF Rounding, Shape!SharesFitDeposit, Shape!RoundingBounded, Shape!Streamed
  <2> QED
    BY <2>4, <2>5
<1>5. CASE UNCHANGED Shape!vars
  BY <1>5 DEF Shape!vars, Rounding, Shape!SharesFitDeposit, Shape!RoundingBounded,
     Shape!Streamed
<1> QED
  BY <1>1, <1>2, <1>3, <1>4, <1>5 DEF Shape!Next

THEOREM CurveHolds ==
    ASSUME Shape!CurveAssumption
    PROVE  /\ Shape!Spec => [](Shape!TypeOK /\ Shape!CliffOnlyDelays
                         /\ Shape!RoundingBounded /\ Shape!SharesFitDeposit)
           /\ Shape!Spec => Shape!NeverShrinks
<1>1. Shape!Init => Rounding
  <2> SUFFICES ASSUME Shape!Init PROVE Rounding
    OBVIOUS
  <2>1. stream \in Shape!Terms /\ elapsed = -1 /\ withdrawn = 0 /\ refunded = -1
    BY DEF Shape!Init
  <2>2. stream.total \in Nat \ {0} /\ MaxElapsed \in Nat
    BY <2>1, StreamFields DEF Shape!CurveAssumption
  <2>3. Shape!Streamed(stream, elapsed) = <<0, 1>>
    BY <2>1 DEF Shape!Streamed, Shape!Whole
  <2>4. Shape!RoundingBounded
    BY <2>1, <2>3 DEF Shape!RoundingBounded, Shape!Leq, Shape!Minus, Shape!Whole
  <2> QED
    BY <2>1, <2>2, <2>4 DEF Rounding, Shape!SharesFitDeposit
<1>2. Rounding
      => /\ Shape!TypeOK /\ Shape!CliffOnlyDelays
         /\ Shape!RoundingBounded /\ Shape!SharesFitDeposit
  <2> SUFFICES ASSUME Rounding
               PROVE  Shape!TypeOK /\ Shape!CliffOnlyDelays
    BY DEF Rounding
  <2>1. stream \in Shape!Terms /\ elapsed \in Int
    BY DEF Rounding, Shape!CurveAssumption
  <2>2. Shape!TypeOK
    BY <2>1, StreamFields DEF Rounding, Shape!TypeOK
  <2> QED
    BY <2>1, <2>2, CliffDelays
<1>3. Rounding /\ [Shape!Next]_(Shape!vars)
      => [Shape!Leq(Shape!Streamed(stream, elapsed), Shape!Streamed(stream, elapsed'))]_(Shape!vars)
  <2> SUFFICES ASSUME Rounding, Shape!Next
               PROVE  Shape!Leq(Shape!Streamed(stream, elapsed), Shape!Streamed(stream, elapsed'))
    OBVIOUS
  <2>1. stream \in Shape!Terms /\ elapsed \in Int /\ (elapsed' = elapsed \/ elapsed'
          = elapsed + 1)
    <3>1. stream \in Shape!Terms /\ elapsed \in Int
      BY DEF Rounding, Shape!CurveAssumption
    <3>2. CASE Shape!Tick
      BY <3>1, <3>2 DEF Shape!Tick
    <3>3. CASE Shape!WithdrawAll
      BY <3>1, <3>3 DEF Shape!WithdrawAll, Shape!Pay
    <3>4. CASE Shape!WithdrawPart
      BY <3>1, <3>4 DEF Shape!WithdrawPart, Shape!Pay
    <3>5. CASE Shape!Cancel
      BY <3>1, <3>5 DEF Shape!Cancel
    <3> QED
      BY <3>1, <3>2, <3>3, <3>4, <3>5 DEF Shape!Next
  <2> QED
    BY <2>1, StreamedGrows
<1> QED
  BY <1>1, <1>2, <1>3, RoundingStep, PTL DEF Shape!Spec, Shape!NeverShrinks

-----------------------------------------------------------------------------
(* Quests.                                                                 *)

\* What a request of either kind is about, by what it does next.
Signups == [at : {"code", "referrer", "count", "insert"}, email : Emails, code : Codes,
            tries : Nat, referredBy : Codes \cup {None}]
Completions == [at : {"complete"}, email : Emails, task : DOMAIN Points,
                completed_tasks : SUBSET DOMAIN Points, total_points : Nat]

\* The rows that name a code, and the requests that will insert one more and have
\* counted it already.
NamedBy(code) == {f \in DOMAIN participants : participants[f].referred_by = code}
Counted(code) == {r \in QuestRequests : Quest!At(r, "insert") /\ request[r].referredBy = code}

Enrolled ==
    /\ participants = [e \in DOMAIN participants |-> participants[e]]
    /\ DOMAIN participants \subseteq Emails /\ IsFiniteSet(DOMAIN participants)
    /\ \A e \in DOMAIN participants :
         participants[e] \in Quest!Rows /\ IsFiniteSet(participants[e].completed_tasks)
    /\ \A e, f \in DOMAIN participants :
         participants[e].referral_code = participants[f].referral_code => e = f
    /\ request \in [QuestRequests -> {Quest!Idle} \cup Signups \cup Completions]

\* What a completion has read is not above what the row's referrals and the tasks it
\* has read are worth: the referrals of a row only grow.
MayAdd(q) ==
    /\ q.email \in DOMAIN participants
    /\ IsFiniteSet(q.completed_tasks) /\ q.task \notin q.completed_tasks
    /\ q.total_points <= Quest!PointsPerReferral * participants[q.email].referral_count
                           + SumFunctionOnSet(Points, q.completed_tasks)

Earning ==
    /\ Quest!NeverOverpaid
    /\ \A r \in QuestRequests : Quest!At(r, "complete") => MayAdd(request[r])

\* A code that a row or a request names has an owner; and the owner's count covers the
\* rows that name the code and those that are about to.
Covering ==
    /\ \A e \in DOMAIN participants :
         participants[e].referred_by # None => Quest!With(participants[e].referred_by) # {}
    /\ \A r \in QuestRequests :
         Quest!At(r, "count") \/ (Quest!At(r, "insert") /\ request[r].referredBy # None)
           => Quest!With(request[r].referredBy) # {}
    /\ \A c \in Codes : IsFiniteSet(Counted(c))
    /\ \A c \in Codes : \A e \in Quest!With(c) :
         Cardinality(NamedBy(c)) + Cardinality(Counted(c)) <= participants[e].referral_count

Booked == Enrolled /\ Earning /\ Covering

LEMMA BookedInit == ASSUME Quest!QuestsAssumption, Quest!Init PROVE Booked
<1>1. Enrolled
  BY FS_EmptySet DEF Quest!Init, Enrolled
<1>2. Earning
  BY DEF Quest!Init, Earning, Quest!NeverOverpaid, Quest!At, Quest!Idle
<1>3. Covering
  <2>1. \A c \in Codes : Counted(c) = {}
    BY DEF Quest!Init, Counted, Quest!At, Quest!Idle
  <2>2. \A c \in Codes : Quest!With(c) = {}
    BY DEF Quest!Init, Quest!With
  <2> QED
    BY <2>1, <2>2, FS_EmptySet DEF Quest!Init, Covering, Quest!At, Quest!Idle
<1> QED
  BY <1>1, <1>2, <1>3 DEF Booked

\* The kinds of requests are told apart by what comes next.
LEMMA Kinds ==
    ASSUME Enrolled, NEW r \in QuestRequests
    PROVE  /\ Quest!At(r, "idle") => request[r] = Quest!Idle
           /\ request[r].at \in {"code", "referrer", "count", "insert"}
                => request[r] \in Signups
           /\ Quest!At(r, "complete") => request[r] \in Completions
           /\ request[r].at \in {"idle", "code", "referrer", "count", "insert", "complete"}
BY DEF Enrolled, Quest!Idle, Signups, Completions, Quest!At

\* A step of a request that writes no row and neither counts a referral nor names
\* a code that nobody has.
LEMMA OutsideStep ==
    ASSUME Quest!QuestsAssumption, Booked, NEW r \in QuestRequests, UNCHANGED participants,
           NEW q \in {Quest!Idle} \cup Signups \cup Completions,
           request' = [request EXCEPT ![r] = q],
           q.at = "insert" => q.referredBy = None,
           q.at = "count" => Quest!With(q.referredBy) # {},
           q.at = "complete" => MayAdd(q)
    PROVE  Booked'
<1>0. /\ request'[r] = q /\ \A s \in QuestRequests \ {r} : request'[s] = request[s]
      /\ \A c : Quest!With(c)' = Quest!With(c) /\ NamedBy(c)' = NamedBy(c)
  BY DEF Booked, Enrolled, Quest!With, NamedBy
<1>1. Enrolled'
  BY DEF Booked, Enrolled
<1>2. Earning'
  <2>1. Quest!NeverOverpaid'
    BY DEF Booked, Earning, Quest!NeverOverpaid, Quest!Earned
  <2>2. \A s \in QuestRequests : Quest!At(s, "complete")' => MayAdd(request[s])'
    BY <1>0 DEF Booked, Earning, Quest!At, MayAdd
  <2> QED
    BY <2>1, <2>2 DEF Earning
<1>3. Covering'
  <2>1. \A c \in Codes : Counted(c)' \subseteq Counted(c)
    BY <1>0 DEF Counted, Quest!At, Quest!QuestsAssumption
  <2>2. ASSUME NEW c \in Codes
        PROVE  /\ IsFiniteSet(Counted(c)') /\ IsFiniteSet(NamedBy(c))
               /\ Cardinality(Counted(c)') <= Cardinality(Counted(c))
               /\ Cardinality(Counted(c)') \in Nat /\ Cardinality(Counted(c)) \in Nat
               /\ Cardinality(NamedBy(c)) \in Nat
    <3>1. IsFiniteSet(Counted(c)) /\ IsFiniteSet(NamedBy(c))
      BY FS_Subset DEF Booked, Covering, Enrolled, NamedBy
    <3> QED
      BY <2>1, <3>1, FS_Subset, FS_CardinalityType
  <2>3. ASSUME NEW c \in Codes, NEW e \in Quest!With(c)
        PROVE  Cardinality(NamedBy(c)) + Cardinality(Counted(c)') <= participants[e].referral_count
    <3>1. /\ Cardinality(NamedBy(c)) + Cardinality(Counted(c)) <= participants[e].referral_count
          /\ participants[e].referral_count \in Nat
      BY DEF Booked, Covering, Quest!With, Enrolled, Quest!Rows
    <3> QED
      BY <2>2, <3>1
  <2>4. \A s \in QuestRequests : Quest!At(s, "count")' \/ (Quest!At(s, "insert")'
          /\ request'[s].referredBy # None)
           => Quest!With(request'[s].referredBy) # {}
    BY <1>0 DEF Booked, Covering, Quest!At
  <2>5. (\A e \in DOMAIN participants :
          participants[e].referred_by # None => Quest!With(participants[e].referred_by) # {})'
    BY DEF Booked, Covering, Quest!With
  <2>6. (\A s \in QuestRequests : Quest!At(s, "count") \/ (Quest!At(s, "insert")
          /\ request[s].referredBy # None)
           => Quest!With(request[s].referredBy) # {})'
    BY <2>4 DEF Quest!With, Quest!At
  <2>7. (\A c \in Codes : \A e \in Quest!With(c) :
         Cardinality(NamedBy(c)) + Cardinality(Counted(c)) <= participants[e].referral_count)'
    BY <1>0, <2>3
  <2> QED
    BY <2>2, <2>5, <2>6, <2>7 DEF Covering
<1> QED
  BY <1>1, <1>2, <1>3 DEF Booked

LEMMA FailStep == ASSUME Quest!QuestsAssumption, Booked, NEW r \in QuestRequests,
        Quest!Fail(r) PROVE Booked'
<1>1. Quest!Idle.at \notin {"insert", "count", "complete"}
  BY DEF Quest!Idle
<1> QED
  BY <1>1, OutsideStep DEF Quest!Fail, Quest!End

LEMMA SelectExistingStep ==
    ASSUME Quest!QuestsAssumption, Booked, NEW r \in QuestRequests,
             Quest!SelectExisting(r) PROVE Booked'
<1>1. PICK email \in Emails \ DOMAIN participants, code \in Codes,
           referredBy \in Codes \cup {None} :
        request' = [request EXCEPT ![r] =
             [at |-> "code", email |-> email, code |-> code, tries |-> 0,
              referredBy |-> referredBy]]
  BY DEF Quest!SelectExisting
<1> DEFINE q == [at |-> "code", email |-> email, code |-> code, tries |-> 0,
                 referredBy |-> referredBy]
<1>2. q \in Signups /\ q.at = "code"
  BY DEF Signups
<1>3. request' = [request EXCEPT ![r] = q] /\ UNCHANGED participants
  BY <1>1 DEF Quest!SelectExisting
<1> HIDE DEF q
<1> QED
  BY <1>2, <1>3, OutsideStep

LEMMA SelectCodeStep ==
    ASSUME Quest!QuestsAssumption, Booked, NEW r \in QuestRequests, Quest!SelectCode(r)
             PROVE Booked'
<1>0. /\ request[r] \in Signups /\ UNCHANGED participants
      /\ request \in [QuestRequests -> {Quest!Idle} \cup Signups \cup Completions]
  BY Kinds DEF Quest!SelectCode, Quest!At, Booked, Enrolled
<1>1. CASE Quest!With(request[r].code) = {} \/ request[r].tries = Retries
  <2> DEFINE next == IF request[r].referredBy = None THEN "insert" ELSE "referrer"
             q == [request[r] EXCEPT !.at = next]
  <2>1. request' = [request EXCEPT ![r] = q]
    BY <1>1, <1>0 DEF Quest!SelectCode, Quest!Goto
  <2>2. /\ q \in Signups /\ q.at \in {"insert", "referrer"}
        /\ q.at = "insert" => q.referredBy = None
    BY <1>0 DEF Signups
  <2> HIDE DEF q
  <2> QED
    BY <1>0, <2>1, <2>2, OutsideStep
<1>2. CASE ~(Quest!With(request[r].code) = {} \/ request[r].tries = Retries)
  <2>1. PICK code \in Codes :
          request' = [request EXCEPT ![r].code = code, ![r].tries = @ + 1]
    BY <1>2 DEF Quest!SelectCode
  <2> DEFINE q == [request[r] EXCEPT !.code = code, !.tries = @ + 1]
  <2>2. request' = [request EXCEPT ![r] = q]
    BY <2>1, <1>0
  <2>3. q \in Signups /\ q.at = "code"
    <3>1. request[r].at = "code" /\ request[r].tries + 1 \in Nat
      BY <1>0 DEF Signups, Quest!SelectCode, Quest!At
    <3> QED
      BY <1>0, <3>1 DEF Signups
  <2> HIDE DEF q
  <2> QED
    BY <1>0, <2>2, <2>3, OutsideStep
<1> QED
  BY <1>1, <1>2

LEMMA SelectReferrerStep ==
    ASSUME Quest!QuestsAssumption, Booked, NEW r \in QuestRequests,
             Quest!SelectReferrer(r) PROVE Booked'
<1>0. /\ request[r] \in Signups /\ UNCHANGED participants
      /\ request \in [QuestRequests -> {Quest!Idle} \cup Signups \cup Completions]
  BY Kinds DEF Quest!SelectReferrer, Quest!At, Booked, Enrolled
<1>1. CASE Quest!With(request[r].referredBy) \ {request[r].email} # {}
  <2> DEFINE q == [request[r] EXCEPT !.at = "count"]
  <2>1. request' = [request EXCEPT ![r] = q]
    BY <1>1, <1>0 DEF Quest!SelectReferrer, Quest!Goto
  <2>2. q \in Signups /\ q.at = "count" /\ q.referredBy = request[r].referredBy
    BY <1>0 DEF Signups
  <2>3. Quest!With(q.referredBy) # {}
    BY <1>1, <2>2
  <2> HIDE DEF q
  <2> QED
    BY <1>0, <2>1, <2>2, <2>3, OutsideStep
<1>2. CASE ~(Quest!With(request[r].referredBy) \ {request[r].email} # {})
  <2> DEFINE q == [request[r] EXCEPT !.referredBy = None, !.at = "insert"]
  <2>1. request' = [request EXCEPT ![r] = q]
    BY <1>2, <1>0 DEF Quest!SelectReferrer
  <2>2. q \in Signups /\ q.at = "insert" /\ q.referredBy = None
    BY <1>0 DEF Signups
  <2> HIDE DEF q
  <2> QED
    BY <1>0, <2>1, <2>2, OutsideStep
<1> QED
  BY <1>1, <1>2

LEMMA SelectUserStep ==
    ASSUME Quest!QuestsAssumption, Booked, NEW r \in QuestRequests, Quest!SelectUser(r)
             PROVE Booked'
<1>1. PICK email \in DOMAIN participants :
      \E task \in DOMAIN Points \ participants[email].completed_tasks :
         request' = [request EXCEPT ![r] =
             [at |-> "complete", email |-> email, task |-> task,
              completed_tasks |-> participants[email].completed_tasks,
              total_points |-> participants[email].total_points]]
  BY DEF Quest!SelectUser
<1>2. PICK task \in DOMAIN Points \ participants[email].completed_tasks :
         request' = [request EXCEPT ![r] =
             [at |-> "complete", email |-> email, task |-> task,
              completed_tasks |-> participants[email].completed_tasks,
              total_points |-> participants[email].total_points]]
  BY <1>1
<1> DEFINE q == [at |-> "complete", email |-> email, task |-> task,
                 completed_tasks |-> participants[email].completed_tasks,
                 total_points |-> participants[email].total_points]
<1>3. request' = [request EXCEPT ![r] = q] /\ UNCHANGED participants
  BY <1>2 DEF Quest!SelectUser
<1>4. /\ participants[email] \in Quest!Rows /\ IsFiniteSet(participants[email].completed_tasks)
      /\ email \in Emails
      /\ participants[email].total_points <= Quest!Earned(participants[email])
  BY DEF Booked, Enrolled, Earning, Quest!NeverOverpaid
<1>5. q \in Completions /\ q.at = "complete"
  BY <1>4 DEF Completions, Quest!Rows
<1>6. MayAdd(q)
  BY <1>4, <1>5, SameSumsHere DEF MayAdd, Quest!Earned
<1> HIDE DEF q
<1> QED
  BY <1>3, <1>5, <1>6, OutsideStep

LEMMA CountReferralStep ==
    ASSUME Quest!QuestsAssumption, Booked, NEW r \in QuestRequests,
             Quest!CountReferral(r) PROVE Booked'
<1>a. PICK own : own = request[r].referredBy
  OBVIOUS
<1>b. PICK q : q = [request[r] EXCEPT !.at = "insert"]
  OBVIOUS
<1>1. /\ request[r] \in Signups /\ request[r].at = "count"
      /\ request \in [QuestRequests -> {Quest!Idle} \cup Signups \cup Completions]
  BY Kinds DEF Quest!CountReferral, Quest!At, Booked, Enrolled
<1>2. Quest!With(own) # {} /\ own \in Codes
  <2>1. Quest!With(own) # {}
    <3>1. Quest!With(request[r].referredBy) # {}
      BY <1>1 DEF Booked, Covering, Quest!At
    <3> QED
      BY <3>1, <1>a DEF Quest!With
  <2> QED
    BY <2>1 DEF Quest!With, Booked, Enrolled, Quest!Rows
<1>3. /\ request' = [request EXCEPT ![r] = q]
      /\ q \in Signups /\ q.at = "insert" /\ q.referredBy = own
  BY <1>1, <1>a, <1>b DEF Quest!CountReferral, Quest!Goto, Signups
<1>4. /\ request' \in [QuestRequests -> {Quest!Idle} \cup Signups \cup Completions]
      /\ request'[r] = q /\ \A s \in QuestRequests \ {r} : request'[s] = request[s]
  BY <1>1, <1>3
<1>5. /\ DOMAIN participants' = DOMAIN participants
      /\ participants' = [e \in DOMAIN participants' |-> participants'[e]]
  BY DEF Quest!CountReferral
<1>6. ASSUME NEW e \in DOMAIN participants
      PROVE  /\ participants'[e] \in Quest!Rows
             /\ participants'[e].referral_code = participants[e].referral_code
             /\ participants'[e].referred_by = participants[e].referred_by
             /\ participants'[e].completed_tasks = participants[e].completed_tasks
             /\ participants'[e].referral_count
                  = participants[e].referral_count + (IF e \in Quest!With(own) THEN 1 ELSE 0)
             /\ participants'[e].total_points
                  = participants[e].total_points + (IF e \in Quest!With(own) THEN 5 ELSE 0)
  <2>1. participants[e] \in Quest!Rows
    BY DEF Booked, Enrolled
  <2>2. CASE e \in Quest!With(own)
    <3>1. participants'[e] = [participants[e] EXCEPT !.referral_count = @ + 1,
                                        !.total_points = @ + 5]
      BY <1>a, <2>2 DEF Quest!CountReferral, Quest!PointsPerReferral
    <3>2. /\ participants[e].referral_count + 1 \in Nat
          /\ participants[e].total_points + 5 \in Nat
      BY <2>1 DEF Quest!Rows
    <3> QED
      BY <2>1, <2>2, <3>1, <3>2 DEF Quest!Rows
  <2>3. CASE e \notin Quest!With(own)
    <3>1. participants'[e] = participants[e]
      BY <1>a, <2>3 DEF Quest!CountReferral
    <3> QED
      BY <2>1, <2>3, <3>1 DEF Quest!Rows
  <2> QED
    BY <2>2, <2>3
<1>7. \A c : Quest!With(c)' = Quest!With(c) /\ NamedBy(c)' = NamedBy(c)
  BY <1>5, <1>6 DEF Quest!With, NamedBy
<1>8. Enrolled'
  BY <1>4, <1>5, <1>6 DEF Booked, Enrolled
<1>9. Earning'
  <2>1. ASSUME NEW e \in DOMAIN participants
        PROVE  /\ participants[e].referral_count \in Nat /\ participants[e].total_points \in Nat
               /\ SumFunctionOnSet(Points, participants[e].completed_tasks) \in Int
    BY SumType DEF Booked, Enrolled, Quest!Rows, Quest!QuestsAssumption
  <2>2. Quest!NeverOverpaid'
    BY <1>5, <1>6, <2>1, SameSumsHere DEF Booked, Earning, Quest!NeverOverpaid, Quest!Earned,
       Quest!PointsPerReferral
  <2>3. ASSUME NEW s \in QuestRequests, Quest!At(s, "complete")'
        PROVE  MayAdd(request[s])'
    <3>1. request'[s] = request[s] /\ MayAdd(request[s]) /\ request[s] \in Completions
      BY <1>3, <1>4, <2>3, Kinds DEF Booked, Earning, Quest!At
    <3>2. SumFunctionOnSet(Points, request[s].completed_tasks) \in Int
      BY <3>1, SumType DEF MayAdd, Completions, Quest!QuestsAssumption
    <3>3. request[s].email \in DOMAIN participants /\ request[s].total_points \in Nat
      BY <3>1 DEF MayAdd, Completions
    <3> QED
      BY <1>5, <1>6, <2>1, <3>1, <3>2, <3>3 DEF MayAdd, Quest!PointsPerReferral
  <2> QED
    BY <2>2, <2>3 DEF Earning
<1>10. Covering'
  <2>1. (\A e \in DOMAIN participants :
          participants[e].referred_by # None => Quest!With(participants[e].referred_by) # {})'
    BY <1>5, <1>6 DEF Booked, Covering, Quest!With
  <2>2. \A s \in QuestRequests : Quest!At(s, "count")' \/ (Quest!At(s, "insert")'
          /\ request'[s].referredBy # None)
           => Quest!With(request'[s].referredBy) # {}
    BY <1>2, <1>3, <1>4 DEF Booked, Covering, Quest!At
  <2>3. (\A s \in QuestRequests : Quest!At(s, "count") \/ (Quest!At(s, "insert")
          /\ request[s].referredBy # None)
           => Quest!With(request[s].referredBy) # {})'
    BY <1>5, <1>6, <2>2 DEF Quest!With, Quest!At
  <2>4. \A c \in Codes : IsFiniteSet(Counted(c)) /\ IsFiniteSet(NamedBy(c))
    BY FS_Subset DEF Booked, Covering, Enrolled, NamedBy
  <2>5. /\ Counted(own)' = Counted(own) \cup {r} /\ r \notin Counted(own)
        /\ \A c \in Codes \ {own} : Counted(c)' = Counted(c)
    BY <1>1, <1>3, <1>4 DEF Counted, Quest!At
  <2>6. /\ IsFiniteSet(Counted(own)')
        /\ Cardinality(Counted(own)') = Cardinality(Counted(own)) + 1
    BY <1>2, <2>4, <2>5, FS_AddElement
  <2>7. \A c \in Codes : IsFiniteSet(Counted(c)')
    BY <2>4, <2>5, <2>6
  <2>8. ASSUME NEW c \in Codes, NEW e \in Quest!With(c)
        PROVE  Cardinality(NamedBy(c)) + Cardinality(Counted(c)') <= participants'[e].referral_count
    <3>1. /\ Cardinality(NamedBy(c)) + Cardinality(Counted(c)) <= participants[e].referral_count
          /\ participants[e].referral_count \in Nat /\ e \in DOMAIN participants
      BY DEF Booked, Covering, Quest!With, Enrolled, Quest!Rows
    <3>2. Cardinality(NamedBy(c)) \in Nat /\ Cardinality(Counted(c)) \in Nat
      BY <2>4, FS_CardinalityType
    <3>3. CASE c = own
      BY <1>6, <2>6, <3>1, <3>2, <3>3
    <3>4. CASE c # own
      BY <1>6, <2>5, <3>1, <3>2, <3>4
    <3> QED
      BY <3>3, <3>4
  <2>9. (\A c \in Codes : \A e \in Quest!With(c) :
         Cardinality(NamedBy(c)) + Cardinality(Counted(c)) <= participants[e].referral_count)'
    BY <1>7, <2>8
  <2> QED
    BY <2>1, <2>3, <2>7, <2>9 DEF Covering
<1> QED
  BY <1>8, <1>9, <1>10 DEF Booked

LEMMA InsertStep ==
    ASSUME Quest!QuestsAssumption, Booked, NEW r \in QuestRequests, Quest!Insert(r) PROVE Booked'
<1>a. PICK q : q = request[r]
  OBVIOUS
<1>1. /\ q \in Signups /\ q.at = "insert" /\ request' = [request EXCEPT ![r] = Quest!Idle]
      /\ request \in [QuestRequests -> {Quest!Idle} \cup Signups \cup Completions]
  BY Kinds, <1>a DEF Quest!Insert, Quest!At, Quest!End, Booked, Enrolled
<1>2. CASE q.email \in DOMAIN participants \/ Quest!With(q.code) # {}
  <2>1. UNCHANGED participants
    BY <1>a, <1>2 DEF Quest!Insert
  <2> QED
    BY <1>1, <2>1, OutsideStep DEF Quest!Idle
<1>3. CASE q.email \notin DOMAIN participants /\ Quest!With(q.code) = {}
  <2> DEFINE new == [referral_code |-> q.code,
                     referred_by |-> q.referredBy, referral_count |-> 0,
                     completed_tasks |-> {}, total_points |-> 0]
  <2>1. participants' = [e \in DOMAIN participants \cup {q.email} |->
                           IF e \in DOMAIN participants THEN participants[e] ELSE new]
    BY <1>a, <1>3 DEF Quest!Insert
  <2>2. /\ new \in Quest!Rows /\ new.referral_code = q.code /\ new.referred_by = q.referredBy
        /\ new.referral_count = 0 /\ new.completed_tasks = {} /\ new.total_points = 0
    BY <1>1 DEF Quest!Rows, Signups
  <2>3. q.email \in Emails /\ q.code \in Codes /\ q.referredBy \in Codes \cup {None}
    BY <1>1 DEF Signups
  <2> HIDE DEF new
  <2>4. /\ DOMAIN participants' = DOMAIN participants \cup {q.email}
        /\ participants' = [e \in DOMAIN participants' |-> participants'[e]]
        /\ participants'[q.email] = new
        /\ \A e \in DOMAIN participants : participants'[e] = participants[e]
    BY <1>3, <2>1
  <2>5. /\ request' \in [QuestRequests -> {Quest!Idle} \cup Signups \cup Completions]
        /\ request'[r] = Quest!Idle /\ \A s \in QuestRequests \ {r} : request'[s] = request[s]
    BY <1>1
  <2>6. Enrolled'
    <3>1. IsFiniteSet(DOMAIN participants')
      BY <2>4, FS_AddElement DEF Booked, Enrolled
    <3>2. \A e \in DOMAIN participants' :
            participants'[e] \in Quest!Rows /\ IsFiniteSet(participants'[e].completed_tasks)
      BY <2>2, <2>4, FS_EmptySet DEF Booked, Enrolled
    <3>3. \A e, f \in DOMAIN participants' :
            participants'[e].referral_code = participants'[f].referral_code => e = f
      BY <1>3, <2>2, <2>4 DEF Booked, Enrolled, Quest!With
    <3>4. DOMAIN participants' \subseteq Emails
      BY <2>3, <2>4 DEF Booked, Enrolled
    <3> QED
      BY <2>4, <2>5, <3>1, <3>2, <3>3, <3>4 DEF Enrolled
  <2>7. Earning'
    <3>0. Quest!SumFunctionOnSet(Points, {}) = 0
      BY SumEmpty, SameSumsHere
    <3>1. Quest!NeverOverpaid'
      BY <2>2, <2>4, <3>0 DEF Booked, Earning, Quest!NeverOverpaid, Quest!Earned,
         Quest!PointsPerReferral
    <3>2. \A s \in QuestRequests : Quest!At(s, "complete")' => MayAdd(request[s])'
      BY <2>4, <2>5 DEF Booked, Earning, Quest!At, MayAdd, Quest!Idle
    <3> QED
      BY <3>1, <3>2 DEF Earning
  <2>8. Covering'
    <3>0. None \notin Codes
      BY DEF Quest!QuestsAssumption
    <3>1. /\ \A c \in Codes \ {q.code} : Quest!With(c)' = Quest!With(c)
          /\ Quest!With(q.code)' = {q.email}
          /\ \A c \in Codes : Quest!With(c) \subseteq Quest!With(c)'
            /\ Quest!With(c) \subseteq DOMAIN participants
      BY <1>3, <2>2, <2>4 DEF Quest!With
    <3>2. /\ \A c \in Codes \ {q.referredBy} : NamedBy(c)' = NamedBy(c)
          /\ NamedBy(q.referredBy)' = NamedBy(q.referredBy) \cup {q.email}
          /\ q.email \notin NamedBy(q.referredBy)
      BY <1>3, <2>2, <2>4 DEF NamedBy
    <3>3. /\ \A c \in Codes \ {q.referredBy} : Counted(c)' = Counted(c)
          /\ Counted(q.referredBy)' = Counted(q.referredBy) \ {r}
          /\ r \in Counted(q.referredBy)
      BY <1>1, <1>a, <2>5 DEF Counted, Quest!At, Quest!Idle
    <3>4. \A c \in Codes : IsFiniteSet(Counted(c)) /\ IsFiniteSet(NamedBy(c))
      BY FS_Subset DEF Booked, Covering, Enrolled, NamedBy
    <3>5. \A c \in Codes : IsFiniteSet(Counted(c)')
      BY <3>3, <3>4, FS_RemoveElement
    <3>6. (\A e \in DOMAIN participants :
             participants[e].referred_by # None => Quest!With(participants[e].referred_by) # {})'
      <4>1. q.referredBy # None => Quest!With(q.referredBy) # {}
        BY <1>1, <1>a DEF Booked, Covering, Quest!At
      <4>2. \A e \in DOMAIN participants' : participants'[e].referred_by # None
              => \E f \in DOMAIN participants :
                   participants[f].referral_code = participants'[e].referred_by
        BY <2>2, <2>4, <4>1 DEF Booked, Covering, Quest!With
      <4> QED
        BY <2>4, <4>2 DEF Quest!With
    <3>7. (\A s \in QuestRequests : Quest!At(s, "count") \/ (Quest!At(s, "insert")
            /\ request[s].referredBy # None)
             => Quest!With(request[s].referredBy) # {})'
      <4>1. \A s \in QuestRequests : Quest!At(s, "count")' \/ (Quest!At(s, "insert")'
              /\ request'[s].referredBy # None)
             => \E f \in DOMAIN participants :
                   participants[f].referral_code = request'[s].referredBy
        BY <2>5 DEF Booked, Covering, Quest!At, Quest!With, Quest!Idle
      <4> QED
        BY <2>4, <4>1 DEF Quest!With, Quest!At
    <3>8. ASSUME NEW c \in Codes, NEW e \in Quest!With(c)'
          PROVE  Cardinality(NamedBy(c)') + Cardinality(Counted(c)')
                   <= participants'[e].referral_count
      <4>1. CASE c = q.code
        <5>1. e = q.email /\ participants'[e].referral_count = 0
          BY <2>2, <2>4, <3>1, <4>1
        <5>2. c # q.referredBy
          BY <1>1, <1>a, <1>3, <3>0, <4>1 DEF Booked, Covering, Quest!At
        <5>3. NamedBy(c)' = {}
          BY <1>3, <3>0, <3>2, <4>1, <5>2 DEF Booked, Covering, NamedBy
        <5>4. Counted(c)' = {}
          BY <1>3, <3>0, <3>3, <4>1, <5>2 DEF Booked, Covering, Counted
        <5> QED
          BY <5>1, <5>3, <5>4, FS_EmptySet
      <4>2. CASE c # q.code
        <5>1. e \in Quest!With(c) /\ e \in DOMAIN participants
          BY <3>1, <4>2
        <5>2. /\ participants'[e] = participants[e]
              /\ Cardinality(NamedBy(c)) + Cardinality(Counted(c)) <= participants[e].referral_count
          BY <2>4, <5>1 DEF Booked, Covering
        <5>3. Cardinality(NamedBy(c)) \in Nat /\ Cardinality(Counted(c)) \in Nat
          BY <3>4, FS_CardinalityType
        <5>4. CASE c = q.referredBy
          <6>1. Cardinality(NamedBy(c)') = Cardinality(NamedBy(c)) + 1
            BY <3>2, <3>4, <5>4, FS_AddElement
          <6>2. Cardinality(Counted(c)') = Cardinality(Counted(c)) - 1
            BY <3>3, <3>4, <5>4, FS_RemoveElement
          <6> QED
            BY <5>2, <5>3, <6>1, <6>2
        <5>5. CASE c # q.referredBy
          BY <3>2, <3>3, <5>2, <5>5
        <5> QED
          BY <5>4, <5>5
      <4> QED
        BY <4>1, <4>2
    <3>9. (\A c \in Codes : \A e \in Quest!With(c) :
           Cardinality(NamedBy(c)) + Cardinality(Counted(c)) <= participants[e].referral_count)'
      BY <3>8
    <3> QED
      BY <3>5, <3>6, <3>7, <3>9 DEF Covering
  <2> QED
    BY <2>6, <2>7, <2>8 DEF Booked
<1> QED
  BY <1>2, <1>3

LEMMA CompleteTaskStep ==
    ASSUME Quest!QuestsAssumption, Booked, NEW r \in QuestRequests,
             Quest!CompleteTask(r) PROVE Booked'
<1>a. PICK q : q = request[r]
  OBVIOUS
<1>b. PICK done, points : /\ done = q.completed_tasks \cup {q.task}
                          /\ points = q.total_points + Points[q.task]
  OBVIOUS
<1>1. /\ q \in Completions /\ MayAdd(q) /\ request' = [request EXCEPT ![r] = Quest!Idle]
      /\ request \in [QuestRequests -> {Quest!Idle} \cup Signups \cup Completions]
  BY Kinds, <1>a DEF Quest!CompleteTask, Quest!At, Quest!End, Booked, Earning, Enrolled
<1>2. /\ q.task \in DOMAIN Points /\ Points[q.task] \in Nat /\ q.email \in DOMAIN participants
      /\ q.total_points \in Nat /\ q.completed_tasks \in SUBSET DOMAIN Points
      /\ IsFiniteSet(q.completed_tasks) /\ q.task \notin q.completed_tasks
  BY <1>1 DEF Completions, MayAdd, Quest!QuestsAssumption
<1>3. /\ done \in SUBSET DOMAIN Points /\ IsFiniteSet(done) /\ points \in Nat
      /\ SumFunctionOnSet(Points, done)
           = Points[q.task] + SumFunctionOnSet(Points, q.completed_tasks)
      /\ SumFunctionOnSet(Points, q.completed_tasks) \in Int
  <2>1. \A t \in q.completed_tasks \cup {q.task} : Points[t] \in Int
    BY <1>2 DEF Quest!QuestsAssumption
  <2> QED
    BY <1>2, <1>b, <2>1, FS_AddElement, SumAdd, SumType
<1>4. /\ request' \in [QuestRequests -> {Quest!Idle} \cup Signups \cup Completions]
      /\ request'[r] = Quest!Idle /\ \A s \in QuestRequests \ {r} : request'[s] = request[s]
  BY <1>1
<1>5. participants' = [participants EXCEPT ![q.email].completed_tasks = done,
                                           ![q.email].total_points = points]
  BY <1>a, <1>b DEF Quest!CompleteTask
<1>6. \A e \in DOMAIN participants : participants[e] \in Quest!Rows
  BY DEF Booked, Enrolled
<1>7. /\ DOMAIN participants' = DOMAIN participants
      /\ participants' = [e \in DOMAIN participants' |-> participants'[e]]
      /\ \A e \in DOMAIN participants \ {q.email} : participants'[e] = participants[e]
      /\ participants'[q.email] = [participants[q.email] EXCEPT !.completed_tasks = done,
                                                               !.total_points = points]
  BY <1>2, <1>5, <1>6
<1>8. /\ participants'[q.email] \in Quest!Rows
      /\ participants'[q.email].completed_tasks = done
      /\ participants'[q.email].total_points = points
      /\ participants'[q.email].referral_code = participants[q.email].referral_code
      /\ participants'[q.email].referred_by = participants[q.email].referred_by
      /\ participants'[q.email].referral_count = participants[q.email].referral_count
  BY <1>2, <1>3, <1>6, <1>7 DEF Quest!Rows
<1>c. \A e \in DOMAIN participants :
        /\ participants'[e] \in Quest!Rows /\ IsFiniteSet(participants'[e].completed_tasks)
        /\ participants'[e].referral_code = participants[e].referral_code
        /\ participants'[e].referred_by = participants[e].referred_by
        /\ participants'[e].referral_count = participants[e].referral_count
  <2>1. \A e \in DOMAIN participants \ {q.email} :
          /\ participants'[e] = participants[e] /\ participants[e] \in Quest!Rows
          /\ IsFiniteSet(participants[e].completed_tasks)
    BY <1>7 DEF Booked, Enrolled
  <2> QED
    BY <1>3, <1>8, <2>1
<1>9. \A c : Quest!With(c)' = Quest!With(c) /\ NamedBy(c)' = NamedBy(c)
  BY <1>7, <1>c DEF Quest!With, NamedBy
<1>10. Enrolled'
  BY <1>4, <1>7, <1>c DEF Booked, Enrolled
<1>11. Earning'
  <2>1. participants[q.email].referral_count \in Nat
    BY <1>2, <1>6 DEF Quest!Rows
  <2>2. participants'[q.email].total_points <= Quest!Earned(participants'[q.email])
    BY <1>1, <1>2, <1>3, <1>8, <1>b, <2>1, SameSumsHere DEF MayAdd, Quest!Earned,
       Quest!PointsPerReferral
  <2>3. \A e \in DOMAIN participants' :
          participants'[e].total_points <= Quest!Earned(participants'[e])
    BY <1>7, <2>2 DEF Booked, Earning, Quest!NeverOverpaid
  <2>4. \A s \in QuestRequests : Quest!At(s, "complete")' => MayAdd(request[s])'
    BY <1>4, <1>7, <1>c DEF Booked, Earning, Quest!At, MayAdd, Quest!Idle
  <2>5. Quest!NeverOverpaid'
    BY <2>3 DEF Quest!NeverOverpaid, Quest!Earned
  <2> QED
    BY <2>4, <2>5 DEF Earning
<1>12. Covering'
  <2>1. \A c \in Codes : Counted(c)' = Counted(c)
    BY <1>1, <1>a, <1>4 DEF Counted, Quest!At, Quest!Idle, Completions
  <2>2. (\A e \in DOMAIN participants :
          participants[e].referred_by # None => Quest!With(participants[e].referred_by) # {})'
    BY <1>7, <1>c DEF Booked, Covering, Quest!With
  <2>3. \A s \in QuestRequests : Quest!At(s, "count")' \/ (Quest!At(s, "insert")'
          /\ request'[s].referredBy # None)
           => Quest!With(request'[s].referredBy) # {}
    BY <1>4 DEF Booked, Covering, Quest!At, Quest!Idle
  <2>4. (\A s \in QuestRequests : Quest!At(s, "count") \/ (Quest!At(s, "insert")
          /\ request[s].referredBy # None)
           => Quest!With(request[s].referredBy) # {})'
    BY <1>7, <1>c, <2>3 DEF Quest!With, Quest!At
  <2>5. ASSUME NEW c \in Codes, NEW e \in Quest!With(c)
        PROVE  Cardinality(NamedBy(c)) + Cardinality(Counted(c)) <= participants'[e].referral_count
    BY <1>7, <1>c DEF Booked, Covering, Quest!With
  <2>6. (\A c \in Codes : \A e \in Quest!With(c) :
         Cardinality(NamedBy(c)) + Cardinality(Counted(c)) <= participants[e].referral_count)'
    BY <1>9, <2>1, <2>5
  <2>7. (\A c \in Codes : IsFiniteSet(Counted(c)))'
    BY <2>1 DEF Booked, Covering
  <2> QED
    BY <2>2, <2>4, <2>6, <2>7 DEF Covering
<1> QED
  BY <1>10, <1>11, <1>12 DEF Booked

LEMMA BookedHolds == ASSUME Quest!QuestsAssumption PROVE Quest!Spec => []Booked
<1>1. Booked /\ UNCHANGED Quest!vars => Booked'
  <2> SUFFICES ASSUME Booked, UNCHANGED Quest!vars PROVE Booked'
    OBVIOUS
  <2>1. /\ UNCHANGED <<participants, request>>
        /\ \A c : Quest!With(c)' = Quest!With(c) /\ NamedBy(c)' = NamedBy(c) /\ Counted(c)'
          = Counted(c)
    BY DEF Quest!vars, Quest!With, NamedBy, Counted, Quest!At
  <2>2. Enrolled'
    BY <2>1 DEF Booked, Enrolled
  <2>3. Earning'
    BY <2>1 DEF Booked, Earning, Quest!NeverOverpaid, Quest!Earned, Quest!At, MayAdd
  <2>4. Covering'
    <3>1. (\A c \in Codes : \A e \in Quest!With(c) :
         Cardinality(NamedBy(c)) + Cardinality(Counted(c)) <= participants[e].referral_count)'
      BY <2>1 DEF Booked, Covering
    <3>2. (\A c \in Codes : IsFiniteSet(Counted(c)))'
      BY <2>1 DEF Booked, Covering
    <3> QED
      BY <2>1, <3>1, <3>2 DEF Booked, Covering, Quest!With, Quest!At
  <2> QED
    BY <2>2, <2>3, <2>4 DEF Booked
<1>2. Booked /\ Quest!Next => Booked'
  BY SelectExistingStep, SelectCodeStep, SelectReferrerStep, CountReferralStep, InsertStep,
     SelectUserStep, CompleteTaskStep, FailStep DEF Quest!Next
<1> QED
  BY <1>1, <1>2, BookedInit, PTL DEF Quest!Spec

LEMMA BookedTypes == Booked => Quest!TypeOK
<1> SUFFICES ASSUME Booked PROVE Quest!TypeOK
  OBVIOUS
<1>1. ASSUME NEW c \in Codes PROVE Cardinality(Quest!With(c)) <= 1
  <2>1. CASE Quest!With(c) = {}
    BY <2>1, FS_EmptySet
  <2>2. CASE Quest!With(c) # {}
    <3>1. PICK e \in Quest!With(c) : TRUE
      BY <2>2
    <3>2. Quest!With(c) = {e}
      BY <3>1 DEF Quest!With, Booked, Enrolled
    <3> QED
      <4>1. Cardinality({e}) = 1
        BY FS_Singleton
      <4> QED
        BY <3>2, <4>1
  <2> QED
    BY <2>1, <2>2
<1> QED
  BY <1>1, SameSizesHere DEF Quest!TypeOK, Booked, Enrolled

LEMMA BookedCovers == Booked => Quest!ReferralsCovered
<1> SUFFICES ASSUME Booked, NEW e \in DOMAIN participants,
                    NEW code, code = participants[e].referral_code
             PROVE  Cardinality({f \in DOMAIN participants : participants[f].referred_by = code})
                      <= participants[e].referral_count
  BY SameSizesHere DEF Quest!ReferralsCovered
<1>1. code \in Codes /\ e \in Quest!With(code) /\ participants[e].referral_count \in Nat
  BY DEF Booked, Enrolled, Quest!Rows, Quest!With
<1>2. Cardinality(NamedBy(code)) + Cardinality(Counted(code)) <= participants[e].referral_count
  BY <1>1 DEF Booked, Covering
<1>3. IsFiniteSet(NamedBy(code)) /\ IsFiniteSet(Counted(code))
  BY <1>1, FS_Subset DEF Booked, Enrolled, Covering, NamedBy
<1>4. Cardinality(NamedBy(code)) \in Nat /\ Cardinality(Counted(code)) \in Nat
  BY <1>3, FS_CardinalityType
<1>5. Cardinality(NamedBy(code)) <= participants[e].referral_count
  BY <1>1, <1>2, <1>4
<1> QED
  BY <1>5 DEF NamedBy

THEOREM QuestsHold == ASSUME Quest!QuestsAssumption
    PROVE Quest!Spec => [](Quest!TypeOK /\ Quest!NeverOverpaid /\ Quest!ReferralsCovered)
<1>1. Booked => Quest!TypeOK /\ Quest!NeverOverpaid /\ Quest!ReferralsCovered
  BY BookedTypes, BookedCovers DEF Booked, Earning
<1> QED
  BY <1>1, BookedHolds, PTL

-----------------------------------------------------------------------------
(* PaymentLinks.                                                           *)

\* A page that is open has a link to show, and one that tells of a payment has paid; a
\* link names a payment that was made if it is paid, and none if it is not.
Told ==
    /\ link \in Pay!Links \cup {None}
    /\ time \in 0..LinkMaxTime
    /\ page \in [Payers -> {"closed", "open", "paying", "telling"}]
    /\ paid \in [Payers -> 0..MaxPaid]
    /\ \A p \in Payers : /\ page[p] # "closed" => link \in Pay!Links
                         /\ page[p] = "paying" => paid[p] < MaxPaid
                         /\ page[p] = "telling" => paid[p] >= 1
    /\ link \in Pay!Links =>
         /\ link.status # "paid" => link.payment = Pay!Nothing
         /\ link.status = "paid" =>
              \E p \in Payers : link.payment[1] = p /\ link.payment[2] \in 1..paid[p]

\* What a page writes when it tells the service of its payment.
LEMMA Closing ==
    ASSUME Pay!LinksAssumption, Told, NEW p \in Payers, page[p] = "telling"
    PROVE  /\ link \in Pay!Links /\ Pay!closedBy(link, p) \in Pay!Links
           /\ Pay!closedBy(link, p).status # "paid" => Pay!closedBy(link, p).payment = Pay!Nothing
           /\ Pay!closedBy(link, p).status = "paid" =>
                \E q \in Payers : /\ Pay!closedBy(link, p).payment[1] = q
                                  /\ Pay!closedBy(link, p).payment[2] \in 1..paid[q]
           /\ link.status # "active" => Pay!closedBy(link, p) = link
<1>1. link \in Pay!Links /\ paid[p] \in 1..MaxPaid /\ paid[p] \in 1..paid[p]
  BY DEF Told, Pay!LinksAssumption
<1>2. CASE link.status = "active"
  <2> DEFINE l == [link EXCEPT !.status = "paid", !.payment = <<p, paid[p]>>]
  <2>1. /\ Pay!closedBy(link, p) = l /\ l.status = "paid" /\ l.payment = <<p, paid[p]>>
        /\ l.expires_at = link.expires_at /\ l \in Pay!Links
    BY <1>1, <1>2 DEF Pay!closedBy, Pay!Links, Pay!Statuses
  <2> HIDE DEF l
  <2>2. l.payment[1] = p /\ l.payment[2] = paid[p]
    BY <2>1
  <2> QED
    BY <1>1, <1>2, <2>1, <2>2
<1>3. CASE link.status # "active"
  BY <1>1, <1>3 DEF Pay!closedBy, Told
<1> QED
  BY <1>2, <1>3

LEMMA ToldInit == ASSUME Pay!LinksAssumption, Pay!Init PROVE Told
BY DEF Pay!Init, Told, Pay!LinksAssumption

LEMMA ToldStep ==
    ASSUME Pay!LinksAssumption, Told, [Pay!Next]_(Pay!vars)
    PROVE  /\ Told'
           /\ link # None /\ link.status # "active" => link' = link
           /\ link' = link \/ paid' = paid
<1>1. CASE Pay!Tick
  BY <1>1 DEF Pay!Tick, Told, Pay!LinksAssumption
<1>2. CASE Pay!createPaymentLink
  <2>1. PICK e \in Expiry \cup {None} :
          link' = [status |-> "active", expires_at |-> e, payment |-> Pay!Nothing]
    BY <1>2 DEF Pay!createPaymentLink
  <2>2. link' \in Pay!Links /\ link'.status = "active" /\ link'.payment = Pay!Nothing
    BY <2>1 DEF Pay!Links, Pay!Statuses
  <2> QED
    BY <1>2, <2>2 DEF Pay!createPaymentLink, Told
<1>3. CASE Pay!cancelPaymentLink
  <2>1. /\ link \in Pay!Links /\ link.status = "active" /\ UNCHANGED <<time, page, paid>>
        /\ link' = [link EXCEPT !.status = "cancelled"] /\ link.payment = Pay!Nothing
    BY <1>3 DEF Pay!cancelPaymentLink, Told
  <2>2. link' \in Pay!Links /\ link'.status = "cancelled" /\ link'.payment = Pay!Nothing
    BY <2>1 DEF Pay!Links, Pay!Statuses
  <2> QED
    BY <2>1, <2>2 DEF Told
<1>4. ASSUME NEW p \in Payers, Pay!fetchPaymentLink(p)
      PROVE  Told' /\ UNCHANGED link
  BY <1>4 DEF Pay!fetchPaymentLink, Told
<1>5. ASSUME NEW p \in Payers, Pay!handlePayWithWallet(p)
      PROVE  Told' /\ UNCHANGED link
  BY <1>5 DEF Pay!handlePayWithWallet, Told
<1>6. ASSUME NEW p \in Payers, Pay!send(p)
      PROVE  Told' /\ UNCHANGED link
  <2>1. /\ page[p] = "paying" /\ UNCHANGED <<link, time>> /\ paid[p] \in 0..MaxPaid
        /\ paid[p] < MaxPaid /\ MaxPaid \in Nat
    BY <1>6 DEF Pay!send, Told, Pay!LinksAssumption
  <2>2. /\ paid' \in {paid, [paid EXCEPT ![p] = paid[p] + 1]}
        /\ page' \in {[page EXCEPT ![p] = "telling"], [page EXCEPT ![p] = "open"]}
        /\ page'[p] = "telling" => paid' = [paid EXCEPT ![p] = paid[p] + 1]
    BY <1>6 DEF Pay!send, Told
  <2>3. /\ paid' \in [Payers -> 0..MaxPaid] /\ paid'[p] >= paid[p]
        /\ \A q \in Payers \ {p} : paid'[q] = paid[q]
        /\ page' \in [Payers -> {"closed", "open", "paying", "telling"}]
        /\ page'[p] \in {"telling", "open"}
        /\ \A q \in Payers \ {p} : page'[q] = page[q]
    BY <2>1, <2>2 DEF Told
  <2>4. page'[p] = "telling" => paid'[p] >= 1
    BY <2>1, <2>2 DEF Told
  <2>5. \A q \in Payers : \A n \in 1..paid[q] : n \in 1..paid'[q]
    BY <2>1, <2>3 DEF Told
  <2> QED
    BY <2>1, <2>3, <2>4, <2>5 DEF Told
<1>7. ASSUME NEW p \in Payers, Pay!markPaymentLinkAsPaid(p) \/ Pay!LoseMark(p)
      PROVE  Told' /\ UNCHANGED paid /\ (link.status # "active" => link' = link)
  <2>1. /\ page[p] = "telling" /\ UNCHANGED <<time, paid>>
        /\ page' \in {[page EXCEPT ![p] = "closed"], [page EXCEPT ![p] = "open"]}
        /\ link' \in {link, Pay!closedBy(link, p)}
    BY <1>7 DEF Pay!markPaymentLinkAsPaid, Pay!LoseMark
  <2>2. /\ link \in Pay!Links /\ link' \in Pay!Links
        /\ link'.status # "paid" => link'.payment = Pay!Nothing
        /\ link'.status = "paid" =>
             \E q \in Payers : link'.payment[1] = q /\ link'.payment[2] \in 1..paid[q]
        /\ link.status # "active" => link' = link
    BY <2>1, Closing DEF Told
  <2>3. /\ page' \in [Payers -> {"closed", "open", "paying", "telling"}]
        /\ page'[p] \in {"closed", "open"}
        /\ \A q \in Payers \ {p} : page'[q] = page[q]
    BY <2>1 DEF Told
  <2> QED
    BY <2>1, <2>2, <2>3 DEF Told
<1>8. CASE UNCHANGED Pay!vars
  BY <1>8 DEF Pay!vars, Told
<1> QED
  BY <1>1, <1>2, <1>3, <1>4, <1>5, <1>6, <1>7, <1>8
  DEF Pay!Next, Pay!Tick, Pay!createPaymentLink, Pay!cancelPaymentLink

THEOREM LinksHold == ASSUME Pay!LinksAssumption PROVE Pay!Spec => []Pay!TypeOK /\ Pay!SettledOnce
<1>1. Told => Pay!TypeOK
  BY DEF Told, Pay!TypeOK
<1>2. Told /\ Told' /\ [Pay!Next]_(Pay!vars) =>
        [/\ link # None /\ link.status # "active" => link' = link
         /\ link' # None /\ link'.status # "paid" => link'.payment = Pay!Nothing
         /\ link' # None /\ link'.status = "paid"
              => \E p \in Payers : link'.payment[1] = p
                /\ link'.payment[2] \in 1..paid[p]]_(Pay!vars)
  <2> SUFFICES ASSUME Told, Told', [Pay!Next]_(Pay!vars), link' # None, ~UNCHANGED Pay!vars
               PROVE  /\ link'.status # "paid" => link'.payment = Pay!Nothing
                      /\ link'.status = "paid" =>
                           \E p \in Payers : /\ link'.payment[1] = p
                                             /\ link'.payment[2] \in 1..paid[p]
    BY ToldStep
  <2>1. CASE link' = link
    BY <2>1 DEF Told
  <2>2. CASE paid' = paid
    BY <2>2 DEF Told
  <2> QED
    BY <2>1, <2>2, ToldStep
<1> QED
  BY <1>1, <1>2, ToldInit, ToldStep, PTL DEF Pay!Spec, Pay!SettledOnce

-----------------------------------------------------------------------------
(* StreamCreate.                                                           *)

Shaped ==
    /\ at = [s \in Streams |-> at[s]]
    /\ total = [s \in Streams |-> total[s]]
    /\ server \in [Streams -> {"idle", "escrow", "insert"}]
    /\ answer \in [Streams -> {None, "success", "error"}]
    /\ funded \in [Streams -> Nat]
    /\ rows = [s \in Streams |-> rows[s]]

\* An attempt moves money and has a handler only once it has begun; it keeps its total,
\* pays the total and the extra or nothing, and its handler runs, and writes the row,
\* only when that has been paid.
Attempt(s) ==
    /\ at[s] = "unborn" =>
         funded[s] = 0 /\ s \notin pending /\ server[s] = "idle"
           /\ rows[s] = None /\ answer[s] = None /\ total[s] = None
    /\ at[s] # "unborn" => total[s] \in Deposits /\ funded[s] \in {0, total[s] + DepositExtra}
    /\ server[s] # "idle" => funded[s] > 0
    /\ rows[s] # None => rows[s] = total[s] /\ funded[s] > 0
    /\ answer[s] = "success" => rows[s] # None

CreateInv == Shaped /\ \A s \in Streams : Attempt(s)

\* A step of one attempt.
LEMMA OneMoves ==
    ASSUME CreateInv, NEW s \in Streams, Shaped', Attempt(s)',
           \A q \in Streams \ {s} :
             /\ at'[q] = at[q] /\ total'[q] = total[q] /\ server'[q] = server[q]
             /\ answer'[q] = answer[q] /\ funded'[q] = funded[q] /\ rows'[q] = rows[q]
             /\ q \in pending' => q \in pending
    PROVE  CreateInv'
<1>1. ASSUME NEW q \in Streams, q # s PROVE Attempt(q)'
  <2>1. Attempt(q)
    BY DEF CreateInv
  <2> QED
    BY <1>1, <2>1 DEF Attempt
<1> QED
  BY <1>1 DEF CreateInv

LEMMA AttemptStep ==
    ASSUME Creation!CreateAssumption, CreateInv, [Creation!Next]_(Creation!vars)
    PROVE  CreateInv'
<1>0. Shaped /\ \A s \in Streams : Attempt(s)
  BY DEF CreateInv
<1>1. CASE UNCHANGED Creation!vars \/ Creation!refreshData
  BY <1>1 DEF Creation!vars, Creation!page, Creation!route, Creation!ledger,
     Creation!refreshData, CreateInv, Shaped, Attempt
<1>2. ASSUME NEW s \in Streams, NEW amount \in Deposits, Creation!handleCreateStream(s, amount)
      PROVE  CreateInv'
  <2>1. /\ at[s] = "unborn" /\ at' = [at EXCEPT ![s] = "source"]
        /\ total' = [total EXCEPT ![s] = amount]
        /\ UNCHANGED <<server, answer, rows, pending, funded>>
    BY <1>2 DEF Creation!handleCreateStream, Creation!Goto, Creation!route, Creation!ledger
  <2>2. /\ Shaped' /\ at'[s] = "source" /\ total'[s] = amount
        /\ \A q \in Streams \ {s} : at'[q] = at[q] /\ total'[q] = total[q]
    BY <1>0, <2>1 DEF Shaped
  <2>3. Attempt(s)'
    BY <1>0, <2>1, <2>2 DEF Attempt
  <2> QED
    BY <2>1, <2>2, <2>3, OneMoves
<1>3. ASSUME NEW s \in Streams,
             Creation!LoadSource(s) \/ Creation!Throw(s) \/ Creation!Created(s)
      PROVE  CreateInv'
  <2>1. PICK next \in {"destination", "ended"} :
          /\ at[s] # "unborn" /\ at' = [at EXCEPT ![s] = next]
          /\ UNCHANGED <<total, server, answer, rows, pending, funded>>
    BY <1>3 DEF Creation!LoadSource, Creation!Throw, Creation!Created, Creation!Goto,
       Creation!route, Creation!ledger
  <2>2. Shaped' /\ at'[s] = next /\ \A q \in Streams \ {s} : at'[q] = at[q]
    BY <1>0, <2>1 DEF Shaped
  <2>3. Attempt(s)'
    BY <1>0, <2>1, <2>2 DEF Attempt
  <2> QED
    BY <2>1, <2>2, <2>3, OneMoves
<1>4. ASSUME NEW s \in Streams, Creation!Submit(s) PROVE CreateInv'
  <2>1. /\ at[s] = "destination" /\ at' = [at EXCEPT ![s] = "result"]
        /\ pending' = pending \cup {p \in {s} : deposit[s] > account.number}
        /\ UNCHANGED <<total, server, answer, rows, funded>>
    BY <1>4 DEF Creation!Submit, Creation!Goto, Creation!route
  <2>2. Shaped' /\ at'[s] = "result" /\ \A q \in Streams \ {s} : at'[q] = at[q]
    BY <1>0, <2>1 DEF Shaped
  <2>3. Attempt(s)'
    BY <1>0, <2>1, <2>2 DEF Attempt
  <2> QED
    BY <2>1, <2>2, <2>3, OneMoves
<1>5. ASSUME NEW s \in Streams, Creation!Include(s) \/ Creation!Expire(s) PROVE CreateInv'
  <2>1. /\ s \in pending /\ pending' \subseteq pending
        /\ funded' = funded \/ funded' = [funded EXCEPT ![s] = total[s] + DepositExtra]
        /\ UNCHANGED <<at, total, server, answer, rows>>
    BY <1>5 DEF Creation!Include, Creation!Expire, Creation!Deposit, Creation!page,
       Creation!route
  <2>2. at[s] # "unborn" /\ total[s] \in Nat \ {0} /\ DepositExtra \in Nat
    BY <1>0, <2>1 DEF Attempt, Creation!CreateAssumption
  <2>3. /\ Shaped' /\ funded'[s] \in {funded[s], total[s] + DepositExtra}
        /\ \A q \in Streams \ {s} : funded'[q] = funded[q]
    BY <1>0, <2>1, <2>2 DEF Shaped
  <2>4. Attempt(s)'
    BY <1>0, <2>1, <2>2, <2>3 DEF Attempt
  <2> QED
    BY <2>1, <2>3, <2>4, OneMoves
<1>6. ASSUME NEW s \in Streams, Creation!RegisterStream(s) PROVE CreateInv'
  <2>1. /\ at[s] = "result" /\ funded[s] > 0 /\ at' = [at EXCEPT ![s] = "create"]
        /\ server' = [server EXCEPT ![s] = "escrow"]
        /\ UNCHANGED <<total, answer, rows, pending, funded>>
    BY <1>6 DEF Creation!RegisterStream, Creation!Goto, Creation!ledger
  <2>2. /\ Shaped' /\ at'[s] = "create"
        /\ \A q \in Streams \ {s} : at'[q] = at[q] /\ server'[q] = server[q]
    BY <1>0, <2>1 DEF Shaped
  <2>3. Attempt(s)'
    BY <1>0, <2>1, <2>2 DEF Attempt
  <2> QED
    BY <2>1, <2>2, <2>3, OneMoves
<1>7. ASSUME NEW s \in Streams,
             Creation!VerifyEscrow(s) \/ Creation!createStreamWithId(s) \/ Creation!RouteFails(s)
      PROVE  CreateInv'
  <2>1. /\ server[s] # "idle" /\ UNCHANGED <<at, total, pending, funded>>
        /\ \E next \in {"idle", "insert"} : server' = [server EXCEPT ![s] = next]
        /\ \/ rows' = [rows EXCEPT ![s] = total[s]]
              /\ \E a \in {"success", "error"} :
                   answer' = answer \/ answer' = [answer EXCEPT ![s] = a]
           \/ rows' = rows /\ (answer' = answer \/ answer' = [answer EXCEPT ![s] = "error"])
    BY <1>7 DEF Creation!VerifyEscrow, Creation!createStreamWithId, Creation!RouteFails,
       Creation!page, Creation!ledger
  <2>2. at[s] # "unborn" /\ funded[s] > 0 /\ total[s] # None
    BY <1>0, <2>1 DEF Attempt, Creation!CreateAssumption
  <2>3. /\ Shaped'
        /\ \A q \in Streams \ {s} :
             server'[q] = server[q] /\ answer'[q] = answer[q] /\ rows'[q] = rows[q]
        /\ \/ rows'[s] = total[s]
           \/ rows'[s] = rows[s] /\ answer'[s] \in {answer[s], "error"}
    BY <1>0, <2>1 DEF Shaped
  <2>4. Attempt(s)'
    BY <1>0, <2>1, <2>2, <2>3 DEF Attempt
  <2> QED
    BY <2>1, <2>3, <2>4, OneMoves
<1> QED
  BY <1>1, <1>2, <1>3, <1>4, <1>5, <1>6, <1>7 DEF Creation!Next

\* The page's balance and the account's are what is left of the first one, and what is
\* under way is an attempt.
Afforded ==
    /\ known \in 0..Balance
    /\ at \in [Streams -> {"unborn", "source", "destination", "result", "create", "ended"}]
    /\ account \in [balance : 0..Balance, number : Nat]
    /\ pending \subseteq Streams

LEMMA AffordedStep ==
    ASSUME Creation!CreateAssumption, CreateInv, Afforded, [Creation!Next]_(Creation!vars)
    PROVE  Afforded'
<1>0. /\ Shaped /\ \A s \in Streams : Attempt(s)
      /\ known \in 0..Balance /\ account \in [balance : 0..Balance, number : Nat]
      /\ pending \subseteq Streams
      /\ Balance \in Nat
  BY DEF CreateInv, Afforded, Creation!CreateAssumption
<1>1. at' \in [Streams -> {"unborn", "source", "destination", "result", "create", "ended"}]
  <2>1. at' = at \/ \E s \in Streams, next \in {"source", "destination", "result", "create",
                                                 "ended"} : at' = [at EXCEPT ![s] = next]
    BY DEF Creation!Next, Creation!vars, Creation!page, Creation!route, Creation!refreshData,
       Creation!handleCreateStream, Creation!LoadSource, Creation!Submit,
       Creation!Include, Creation!Expire, Creation!RegisterStream, Creation!Throw,
         Creation!VerifyEscrow, Creation!createStreamWithId, Creation!RouteFails,
       Creation!Created, Creation!Goto
  <2> QED
    BY <2>1 DEF Afforded
<1>2. pending' \subseteq Streams
  BY <1>0 DEF Creation!Next, Creation!vars, Creation!ledger, Creation!refreshData,
     Creation!handleCreateStream, Creation!LoadSource, Creation!Submit,
     Creation!Include, Creation!Expire, Creation!RegisterStream, Creation!Throw,
       Creation!VerifyEscrow, Creation!createStreamWithId, Creation!RouteFails,
     Creation!Created
<1>3. ASSUME NEW s \in Streams, Creation!Include(s)
      PROVE  account' \in [balance : 0..Balance, number : Nat]
  <2>1. s \in pending /\ deposit[s] = account.number + 1
    BY <1>3 DEF Creation!Include
  <2>2. total[s] \in Nat /\ DepositExtra \in Nat
    BY <1>0, <2>1 DEF Attempt, Creation!CreateAssumption
  <2>3. Creation!Deposit(s) \in Nat /\ deposit[s] \in Nat
    BY <1>0, <2>1, <2>2 DEF Creation!Deposit
  <2>4. CASE account.balance >= Creation!Deposit(s)
    <3>1. account' = [balance |-> account.balance - Creation!Deposit(s), number |-> deposit[s]]
      BY <1>3, <2>4 DEF Creation!Include
    <3>2. account.balance - Creation!Deposit(s) \in 0..Balance
      BY <1>0, <2>3, <2>4
    <3> QED
      BY <2>3, <3>1, <3>2
  <2>5. CASE ~(account.balance >= Creation!Deposit(s))
    BY <1>0, <1>3, <2>3, <2>5 DEF Creation!Include
  <2> QED
    BY <2>4, <2>5
<1>4. account' \in [balance : 0..Balance, number : Nat]
  <2>1. account' = account \/ \E s \in Streams : Creation!Include(s)
    BY DEF Creation!Next, Creation!vars, Creation!ledger, Creation!refreshData,
       Creation!handleCreateStream, Creation!LoadSource, Creation!Submit,
       Creation!Expire, Creation!RegisterStream, Creation!Throw, Creation!VerifyEscrow,
         Creation!createStreamWithId, Creation!RouteFails, Creation!Created
  <2> QED
    BY <1>0, <1>3, <2>1
<1>5. known' = known \/ (known' = account.balance)
  BY DEF Creation!Next, Creation!vars, Creation!page, Creation!refreshData,
     Creation!handleCreateStream, Creation!LoadSource, Creation!Submit, Creation!Include,
     Creation!Expire, Creation!RegisterStream, Creation!Throw, Creation!VerifyEscrow,
       Creation!createStreamWithId, Creation!RouteFails, Creation!Created
<1> QED
  BY <1>0, <1>1, <1>2, <1>4, <1>5 DEF Afforded

\* However many attempts compete for one balance and one sequence number, and whatever
\* fails, behind every row is a deposit of its own that covers the total and the extra.
THEOREM CreationHolds ==
    ASSUME Creation!CreateAssumption PROVE Creation!Spec => [](Creation!TypeOK
             /\ Creation!RowsBacked)
<1>1. Creation!Init => CreateInv /\ Afforded
  <2>1. Creation!Init => CreateInv
    BY DEF Creation!Init, CreateInv, Shaped, Attempt, Creation!CreateAssumption
  <2>2. Creation!Init => Afforded
    BY DEF Creation!Init, Afforded, Creation!CreateAssumption
  <2> QED
    BY <2>1, <2>2
<1>2. CreateInv /\ Afforded /\ [Creation!Next]_(Creation!vars) => (CreateInv /\ Afforded)'
  BY AttemptStep, AffordedStep
<1>3. CreateInv => Creation!RowsBacked
  BY DEF CreateInv, Shaped, Attempt, Creation!RowsBacked, Creation!CreateAssumption
<1>4. CreateInv /\ Afforded => Creation!TypeOK
  BY DEF CreateInv, Shaped, Attempt, Afforded, Creation!TypeOK, Creation!CreateAssumption
<1> QED
  BY <1>1, <1>2, <1>3, <1>4, PTL DEF Creation!Spec

-----------------------------------------------------------------------------
(* MpcWallet.                                                              *)

\* What the page waits for and what the browser has saved were asked for, and a saved
\* wallet was answered for.  A package lies in the account it is for, which is the
\* account that its number stands for in the request that made it; and a request that
\* has come to a share has stored all those before.
Backed ==
    /\ step \in {"intro", "provider1", "provider2", "provider3", "creating", "done"}
    /\ providers \in Seq(OAuthAccounts) /\ Len(providers) \in 0..3
    /\ awaited \in Wallets \cup {None} /\ saved \in Wallets \cup {None}
    /\ creation \in [Wallets -> Mpc!Creations \cup {None}]
    /\ stored \in [OAuthAccounts -> SUBSET Mpc!Packages]
    /\ step = "creating" => awaited \in Wallets /\ creation[awaited] # None
    /\ saved # None =>
         saved \in Wallets /\ creation[saved] # None /\ creation[saved].status = "success"
    /\ \A a \in OAuthAccounts : \A p \in stored[a] :
         /\ p.sub = a /\ creation[p.wallet] # None
         /\ creation[p.wallet].providers[p.index] = a
    /\ \A w \in Wallets : creation[w] # None =>
         /\ creation[w].status = "storing" => creation[w].next \in 1..3
         /\ creation[w].status = "success" => creation[w].next = 4
         /\ \A i \in 1..3 : i < creation[w].next => Mpc!Found(creation[w].providers[i], w) # {}

LEMMA BackedInit == ASSUME Mpc!MpcAssumption, Mpc!Init PROVE Backed
BY DEF Mpc!Init, Backed

\* The third sign-in.
LEMMA SharesCreated ==
    ASSUME Mpc!MpcAssumption, Backed, NEW a \in OAuthAccounts, Mpc!authenticateProvider(a),
           step = "provider3", Len(providers) = 2
    PROVE  Backed'
<1> DEFINE free == CHOOSE x \in Wallets : creation[x] = None
<1>a. PICK w : w = free
  OBVIOUS
<1>b. PICK new : new = [providers |-> Mpc!Added(a), next |-> 1, status |-> "storing"]
  OBVIOUS
<1>0. /\ \E x \in Wallets : creation[x] = None
      /\ step' = "creating" /\ awaited' = free
      /\ creation' = [creation EXCEPT ![awaited'] =
                        [providers |-> Mpc!Added(a), next |-> 1, status |-> "storing"]]
      /\ providers' = Mpc!Added(a) /\ UNCHANGED <<saved, stored>>
  BY Zenon DEF Mpc!authenticateProvider
<1>2. w \in Wallets /\ creation[w] = None
  BY <1>0, <1>a
<1> HIDE DEF free
<1>1. /\ providers' = Append(providers, a) /\ Mpc!Added(a) = Append(providers, a)
      /\ step' = "creating" /\ awaited' = w
      /\ creation' = [creation EXCEPT ![w] = new] /\ UNCHANGED <<saved, stored>>
  BY <1>0, <1>a, <1>b DEF Mpc!Added
<1>c. PICK list : list = Append(providers, a)
  OBVIOUS
<1>3. list \in Seq(OAuthAccounts) /\ Len(list) = 3 /\ list \in [1..3 -> OAuthAccounts]
  <2>1. providers \in Seq(OAuthAccounts) /\ Len(providers) = 2
    BY DEF Backed
  <2>2. /\ Append(providers, a) \in Seq(OAuthAccounts)
        /\ Len(Append(providers, a)) = Len(providers) + 1
    BY <2>1, SeqAppend
  <2>3. list \in Seq(OAuthAccounts) /\ Len(list) = 3
    BY <1>c, <2>1, <2>2
  <2>4. list \in [1..3 -> OAuthAccounts]
    BY <2>3, SeqFunction
  <2> QED
    BY <2>3, <2>4
<1>4. new \in Mpc!Creations /\ new # None /\ new.status = "storing" /\ new.next = 1
  <2>1. new = [providers |-> list, next |-> 1, status |-> "storing"]
    BY <1>1, <1>b, <1>c
  <2> QED
    BY <1>3, <2>1 DEF Mpc!Creations, Mpc!MpcAssumption
<1>5. /\ creation' \in [Wallets -> Mpc!Creations \cup {None}] /\ creation'[w] = new
      /\ \A x \in Wallets \ {w} : creation'[x] = creation[x]
  BY <1>1, <1>2, <1>4 DEF Backed
<1>6. \A b \in OAuthAccounts : \A p \in stored[b] : p.wallet # w /\ p.wallet \in Wallets
  BY <1>2 DEF Backed, Mpc!Packages
<1>7. \A b, x : Mpc!Found(b, x)' = Mpc!Found(b, x)
  BY <1>1 DEF Mpc!Found
<1>8. \A x \in Wallets : creation'[x] # None =>
         /\ creation'[x].status = "storing" => creation'[x].next \in 1..3
         /\ creation'[x].status = "success" => creation'[x].next = 4
         /\ \A i \in 1..3 : i < creation'[x].next => Mpc!Found(creation'[x].providers[i], x) # {}
  <2>1. \A i \in 1..3 : ~(i < 1)
    OBVIOUS
  <2> QED
    BY <1>4, <1>5, <2>1 DEF Backed, Mpc!Found
<1>9. (\A x \in Wallets : creation[x] # None =>
         /\ creation[x].status = "storing" => creation[x].next \in 1..3
         /\ creation[x].status = "success" => creation[x].next = 4
         /\ \A i \in 1..3 : i < creation[x].next => Mpc!Found(creation[x].providers[i], x) # {})'
  BY <1>1, <1>8 DEF Mpc!Found
<1>10. (\A b \in OAuthAccounts : \A p \in stored[b] :
         /\ p.sub = b /\ creation[p.wallet] # None
         /\ creation[p.wallet].providers[p.index] = b)'
  BY <1>1, <1>5, <1>6 DEF Backed
<1>11. saved # None =>
         saved \in Wallets /\ creation'[saved] # None /\ creation'[saved].status = "success"
  BY <1>2, <1>5 DEF Backed
<1> QED
  BY <1>1, <1>2, <1>3, <1>c, <1>4, <1>5, <1>9, <1>10, <1>11 DEF Backed

\* A share is stored, or not, and the request goes on or ends.
LEMMA SharesStored == ASSUME Mpc!MpcAssumption, Backed, NEW w \in Wallets, Mpc!Store(w)
        PROVE Backed'
<1>a. PICK c : c = creation[w]
  OBVIOUS
<1>1. /\ c \in Mpc!Creations /\ c # None /\ c.status = "storing" /\ c.next \in 1..3
      /\ UNCHANGED <<step, providers, awaited, saved>>
  BY <1>a DEF Backed, Mpc!Store, Mpc!pageVars
<1>b. PICK i, a : i = c.next /\ a = c.providers[i]
  OBVIOUS
<1>c. PICK p : p = [wallet |-> w, index |-> i, sub |-> a]
  OBVIOUS
<1>d. PICK on, err : /\ on = [c EXCEPT !.next = i + 1,
                                       !.status = IF i = 3 THEN "success" ELSE "storing"]
                     /\ err = [c EXCEPT !.status = "error"]
  OBVIOUS
<1>2. /\ i \in 1..3 /\ a \in OAuthAccounts /\ p \in Mpc!Packages
      /\ p.wallet = w /\ p.index = i /\ p.sub = a
  BY <1>1, <1>b, <1>c DEF Mpc!Creations, Mpc!Packages
<1>3. /\ on \in Mpc!Creations /\ on.next = i + 1 /\ on.providers = c.providers
      /\ on.status \in {"storing", "success"}
      /\ on.status = "storing" => i < 3
      /\ on.status = "success" => i = 3
      /\ err \in Mpc!Creations /\ err.next = i /\ err.providers = c.providers
      /\ err.status = "error"
  <2>1. c.status \in {"storing", "success", "error"} /\ c.next \in 1..4
    BY <1>1 DEF Mpc!Creations
  <2>2. i + 1 \in 1..4 /\ i = c.next
    BY <1>2, <1>b
  <2>3. on = [c EXCEPT !.next = i + 1, !.status = IF i = 3 THEN "success" ELSE "storing"]
    BY <1>d
  <2>4. err = [c EXCEPT !.status = "error"]
    BY <1>d
  <2>5. /\ on \in Mpc!Creations /\ on.next = i + 1 /\ on.providers = c.providers
        /\ on.status = IF i = 3 THEN "success" ELSE "storing"
    BY <1>1, <2>2, <2>3 DEF Mpc!Creations
  <2>6. /\ err \in Mpc!Creations /\ err.next = i /\ err.providers = c.providers
        /\ err.status = "error"
    BY <1>1, <2>2, <2>4 DEF Mpc!Creations
  <2> QED
    BY <1>2, <2>5, <2>6
<1>4. /\ \/ stored' = [stored EXCEPT ![a] = stored[a] \cup {p}]
            /\ creation' \in {[creation EXCEPT ![w] = on], [creation EXCEPT ![w] = err]}
         \/ UNCHANGED stored /\ creation' = [creation EXCEPT ![w] = err]
  <2>1. Mpc!Kept(w) = [stored EXCEPT ![a] = stored[a] \cup {p}]
    BY <1>a, <1>b, <1>c DEF Mpc!Kept
  <2>2. Mpc!GoOn(w) => creation' = [creation EXCEPT ![w] = on]
    BY <1>1, <1>a, <1>b, <1>d DEF Mpc!GoOn, Backed
  <2>3. [creation EXCEPT ![w].status = "error"] = [creation EXCEPT ![w] = err]
    BY <1>a, <1>d DEF Backed
  <2> QED
    BY <2>1, <2>2, <2>3 DEF Mpc!Store, Mpc!UploadFails
<1>5. PICK next \in {on, err} :
        /\ creation' = [creation EXCEPT ![w] = next]
        /\ next = on => stored' = [stored EXCEPT ![a] = stored[a] \cup {p}]
  BY <1>3, <1>4
<1>6. /\ next \in Mpc!Creations /\ next # None /\ next.providers = c.providers
      /\ next.status = "storing" => next.next \in 1..3
      /\ next.status = "success" => next.next = 4
      /\ next.next = i \/ (next = on /\ next.next = i + 1)
  BY <1>2, <1>3 DEF Mpc!MpcAssumption
<1>7. /\ creation' \in [Wallets -> Mpc!Creations \cup {None}] /\ creation'[w] = next
      /\ \A x \in Wallets \ {w} : creation'[x] = creation[x]
  BY <1>5, <1>6 DEF Backed
<1>8. /\ stored' \in [OAuthAccounts -> SUBSET Mpc!Packages]
      /\ \A b \in OAuthAccounts : stored[b] \subseteq stored'[b]
      /\ \A b \in OAuthAccounts : \A q \in stored'[b] : q \in stored[b] \/ (b = a /\ q = p)
      /\ next = on => p \in stored'[a]
  BY <1>2, <1>4, <1>5 DEF Backed
<1>9. (\A b \in OAuthAccounts : \A q \in stored[b] :
         /\ q.sub = b /\ creation[q.wallet] # None
         /\ creation[q.wallet].providers[q.index] = b)'
  <2> SUFFICES ASSUME NEW b \in OAuthAccounts, NEW q \in stored'[b]
               PROVE  /\ q.sub = b /\ creation'[q.wallet] # None
                      /\ creation'[q.wallet].providers[q.index] = b
    OBVIOUS
  <2>1. CASE q \in stored[b]
    <3>1. /\ q.wallet \in Wallets /\ q.sub = b /\ creation[q.wallet] # None
          /\ creation[q.wallet].providers[q.index] = b
      BY <2>1 DEF Backed, Mpc!Packages
    <3> QED
      BY <1>6, <1>7, <1>a, <3>1
  <2>2. CASE b = a /\ q = p
    BY <1>2, <1>6, <1>7, <1>b, <2>2
  <2> QED
    BY <1>8, <2>1, <2>2
<1>10. ASSUME NEW x \in Wallets, creation'[x] # None
       PROVE  /\ creation'[x].status = "storing" => creation'[x].next \in 1..3
              /\ creation'[x].status = "success" => creation'[x].next = 4
              /\ \A j \in 1..3 : j < creation'[x].next
                   => \E q \in stored'[creation'[x].providers[j]] : q.wallet = x
  <2>1. CASE x = w
    <3>1. ASSUME NEW j \in 1..3, j < next.next
          PROVE  \E q \in stored'[c.providers[j]] : q.wallet = w
      <4>1. CASE j < i
        <5>1. Mpc!Found(c.providers[j], w) # {} /\ c.providers[j] \in OAuthAccounts
          BY <1>1, <1>a, <1>b, <4>1 DEF Backed, Mpc!Creations
        <5> QED
          BY <1>8, <5>1 DEF Mpc!Found
      <4>2. CASE j = i
        <5>1. next = on
          BY <1>2, <1>6, <3>1, <4>2
        <5> QED
          BY <1>2, <1>8, <1>b, <4>2, <5>1
      <4>3. j < i \/ j = i
        BY <1>2, <1>6, <3>1
      <4> QED
        BY <4>1, <4>2, <4>3
    <3> QED
      BY <1>6, <1>7, <2>1, <3>1
  <2>2. CASE x # w
    <3>1. creation'[x] = creation[x] /\ creation[x] \in Mpc!Creations
      BY <1>7, <1>10, <2>2 DEF Backed
    <3>2. ASSUME NEW j \in 1..3, j < creation[x].next
          PROVE  \E q \in stored'[creation[x].providers[j]] : q.wallet = x
      <4>1. Mpc!Found(creation[x].providers[j], x) # {}
              /\ creation[x].providers[j] \in OAuthAccounts
        BY <1>10, <3>1, <3>2 DEF Backed, Mpc!Creations
      <4> QED
        BY <1>8, <4>1 DEF Mpc!Found
    <3>3. /\ creation[x].status = "storing" => creation[x].next \in 1..3
          /\ creation[x].status = "success" => creation[x].next = 4
      BY <1>10, <3>1 DEF Backed
    <3> QED
      BY <3>1, <3>2, <3>3
  <2> QED
    BY <2>1, <2>2
<1>11. (\A x \in Wallets : creation[x] # None =>
         /\ creation[x].status = "storing" => creation[x].next \in 1..3
         /\ creation[x].status = "success" => creation[x].next = 4
         /\ \A j \in 1..3 : j < creation[x].next => Mpc!Found(creation[x].providers[j], x) # {})'
  BY <1>10 DEF Mpc!Found
<1>12. /\ step = "creating" => awaited \in Wallets /\ creation'[awaited] # None
       /\ saved # None => saved \in Wallets /\ creation'[saved] # None
                            /\ creation'[saved].status = "success"
  BY <1>1, <1>6, <1>7, <1>a DEF Backed
<1> QED
  BY <1>1, <1>7, <1>8, <1>9, <1>11, <1>12 DEF Backed

LEMMA BackedStep == ASSUME Mpc!MpcAssumption, Backed, [Mpc!Next]_(Mpc!vars) PROVE Backed'
<1>0. UNCHANGED <<creation, stored>> =>
        \A b, x : Mpc!Found(b, x)' = Mpc!Found(b, x)
  BY DEF Mpc!Found
<1>1. CASE Mpc!Begin
  BY <1>0, <1>1 DEF Mpc!Begin, Backed, Mpc!Found
<1>2. CASE Mpc!Reload
  BY <1>0, <1>2 DEF Mpc!Reload, Backed, Mpc!Found
<1>3. ASSUME NEW a \in OAuthAccounts, Mpc!authenticateProvider(a) PROVE Backed'
  <2>1. CASE step = "provider3" /\ Len(providers) = 2
    BY <1>3, <2>1, SharesCreated
  <2>2. CASE ~(step = "provider3" /\ Len(providers) = 2)
    <3>1. /\ step' \in {"provider1", "provider2", "provider3"} /\ providers' = Mpc!Added(a)
          /\ UNCHANGED <<awaited, saved, creation, stored>>
      BY <1>3, <2>2 DEF Mpc!authenticateProvider, Mpc!Steps
    <3>2. providers' \in Seq(OAuthAccounts) /\ Len(providers') \in 0..3
      BY <3>1 DEF Mpc!Added, Backed
    <3> QED
      BY <3>1, <3>2 DEF Backed, Mpc!Found
  <2> QED
    BY <2>1, <2>2
<1>4. ASSUME NEW lost \in BOOLEAN, Mpc!Answered(lost) PROVE Backed'
  <2>1. /\ step' \in {"done", "provider1"} /\ awaited' = None
        /\ UNCHANGED <<providers, creation, stored>>
        /\ saved' = saved \/ (saved' = awaited /\ creation[awaited].status = "success")
        /\ awaited \in Wallets /\ creation[awaited] # None
    BY <1>4 DEF Mpc!Answered, Backed
  <2> QED
    BY <2>1 DEF Backed, Mpc!Found
<1>5. CASE UNCHANGED Mpc!vars
  BY <1>5 DEF Mpc!vars, Backed, Mpc!Found
<1> QED
  BY <1>1, <1>2, <1>3, <1>4, <1>5, SharesStored DEF Mpc!Next

THEOREM MpcHolds == ASSUME Mpc!MpcAssumption PROVE Mpc!Spec => [](Mpc!TypeOK /\ Mpc!AnyTwoRecover)
<1>1. Backed => Mpc!TypeOK
  <2>1. Backed => providers \in [1..Len(providers) -> OAuthAccounts] /\ Len(providers) \in 0..3
    BY DEF Backed
  <2> QED
    BY <2>1 DEF Backed, Mpc!TypeOK
<1>2. Backed => Mpc!AnyTwoRecover
  <2> SUFFICES ASSUME Backed PROVE Mpc!AnyTwoRecover
    OBVIOUS
  <2>1. ASSUME NEW w \in Wallets, NEW a \in OAuthAccounts, NEW b \in OAuthAccounts, a # b,
               Mpc!Found(a, w) # {}, Mpc!Found(b, w) # {}
        PROVE  Mpc!GiveKeyBack(a, b, w)
    <3>1. \A x \in OAuthAccounts : \A p \in Mpc!Found(x, w) :
            /\ p.sub = x /\ p.index \in 1..3 /\ creation[w].providers[p.index] = x
      BY DEF Mpc!Found, Backed, Mpc!Packages
    <3> QED
      BY <2>1, <3>1 DEF Mpc!GiveKeyBack
  <2>2. ASSUME saved # None, NEW i \in 1..3, NEW j \in 1..3,
               creation[saved].providers[i] # creation[saved].providers[j]
        PROVE  Mpc!GiveKeyBack(creation[saved].providers[i], creation[saved].providers[j], saved)
    <3>1. /\ saved \in Wallets /\ creation[saved] \in Mpc!Creations /\ creation[saved].next = 4
          /\ \A k \in 1..3 : Mpc!Found(creation[saved].providers[k], saved) # {}
      BY <2>2 DEF Backed
    <3>2. \A k \in 1..3 : creation[saved].providers[k] \in OAuthAccounts
      BY <3>1 DEF Mpc!Creations
    <3> QED
      BY <2>1, <2>2, <3>1, <3>2
  <2>3. ASSUME NEW w \in Wallets, NEW a \in OAuthAccounts, NEW b \in OAuthAccounts, a # b,
               Mpc!verifyRecovery(<<a, b>>, w)
        PROVE  Mpc!GiveKeyBack(a, b, w)
    <3> DEFINE has == {x \in OAuthAccounts : Mpc!Found(x, w) # {}}
    <3>1. Len(Filtered(<<a, b>>, has)) >= 2
      BY <2>3, SameListsHere DEF Mpc!verifyRecovery, Mpc!listShares
    <3> HIDE DEF has
    <3>2. a \in has /\ b \in has
      BY <2>3, <3>1, FilteredPair
    <3> QED
      BY <2>1, <2>3, <3>2 DEF has
  <2> QED
    BY <2>2, <2>3 DEF Mpc!AnyTwoRecover
<1> QED
  BY <1>1, <1>2, BackedInit, BackedStep, PTL DEF Mpc!Spec

-----------------------------------------------------------------------------
(* StreamEscrow, twice.                                                    *)

SerialProofs == INSTANCE StreamEscrow_proofs WITH
    Requests <- StreamRequests, Routes <- SerialRoutes, Faults <- SerialFaults,
    refunded <- returned, tx <- txs

ReliableProofs == INSTANCE StreamEscrow_proofs WITH
    Requests <- StreamRequests, Routes <- ReliableRoutes, Faults <- {},
    refunded <- returned, tx <- txs

LEMMA SerialAssumed ==
    /\ SerialProofs!RouteAssumption /\ SerialProofs!FaultAssumption
    /\ SerialProofs!AmountAssumption /\ SerialProofs!CurveAssumption
    /\ SerialProofs!HashAssumption
BY ServicesAssumption
DEF SerialProofs!RouteAssumption, SerialProofs!FaultAssumption, SerialProofs!AmountAssumption,
    SerialProofs!CurveAssumption, SerialProofs!HashAssumption, SerialProofs!RouteKinds,
    SerialProofs!FaultKinds, Serial!RouteKinds, Serial!FaultKinds

LEMMA ReliableAssumed ==
    /\ ReliableProofs!RouteAssumption /\ ReliableProofs!FaultAssumption
    /\ ReliableProofs!AmountAssumption /\ ReliableProofs!CurveAssumption
    /\ ReliableProofs!HashAssumption /\ ReliableProofs!FaultFree
<1>1. \A S : ReliableProofs!Cardinality(S) = Cardinality(S)
             /\ ReliableProofs!IsFiniteSet(S) = IsFiniteSet(S)
  BY DEF Cardinality, IsFiniteSet, ReliableProofs!Cardinality, ReliableProofs!IsFiniteSet
<1> QED
  BY <1>1, ServicesAssumption
  DEF ReliableProofs!RouteAssumption, ReliableProofs!FaultAssumption,
      ReliableProofs!AmountAssumption, ReliableProofs!CurveAssumption,
      ReliableProofs!HashAssumption, ReliableProofs!FaultFree, ReliableProofs!RouteKinds,
      ReliableProofs!FaultKinds, Serial!RouteKinds

\* The same for the definitions of StreamEscrow, whose theorems are about an instance of
\* that module's proofs: what begins, what steps and what is stated is the same formula.
LEMMA SerialSame ==
    /\ SerialProofs!Init <=> Serial!Init
    /\ SerialProofs!Next <=> Serial!Next
    /\ UNCHANGED streamVars <=> UNCHANGED SerialProofs!vars
<1>1. SerialProofs!Init <=> Serial!Init
  BY DEF SerialProofs!NewRow, Serial!NewRow, SerialProofs!NoRow, Serial!NoRow,
   SerialProofs!Blank, Serial!Blank, SerialProofs!NoTx, Serial!NoTx, SerialProofs!Init,
   Serial!Init
<1>2. SerialProofs!Next <=> Serial!Next
  BY DEF SerialProofs!RouteKinds, Serial!RouteKinds, SerialProofs!vars, Serial!vars,
   SerialProofs!NewRow, Serial!NewRow, SerialProofs!Blank, Serial!Blank,
   SerialProofs!Streamed, Serial!Streamed, SerialProofs!Withdrawable, Serial!Withdrawable,
   SerialProofs!Refused, Serial!Refused,
   SerialProofs!InFlight, Serial!InFlight, SerialProofs!Finish, Serial!Finish,
   SerialProofs!Goto, Serial!Goto, SerialProofs!Tick, Serial!Tick, SerialProofs!Deposit,
   Serial!Deposit, SerialProofs!FundEscrow, Serial!FundEscrow, SerialProofs!CreateStream,
   Serial!CreateStream, SerialProofs!Begin, Serial!Begin, SerialProofs!ReadRow,
   Serial!ReadRow, SerialProofs!RefreshedStatus, Serial!RefreshedStatus,
   SerialProofs!RefreshUpdates, Serial!RefreshUpdates, SerialProofs!RefreshStatus,
   Serial!RefreshStatus, SerialProofs!Checking, Serial!Checking, SerialProofs!AnswerGet,
   Serial!AnswerGet, SerialProofs!CheckWithdraw, Serial!CheckWithdraw,
   SerialProofs!CheckReport, Serial!CheckReport, SerialProofs!Refund, Serial!Refund,
   SerialProofs!CheckCancel, Serial!CheckCancel, SerialProofs!CheckDelete,
   Serial!CheckDelete, SerialProofs!Recipient, Serial!Recipient,
   SerialProofs!NextAfterPayment, Serial!NextAfterPayment, SerialProofs!PaymentMade,
   Serial!PaymentMade, SerialProofs!PaymentFailed, Serial!PaymentFailed,
   SerialProofs!SubmitPayment, Serial!SubmitPayment, SerialProofs!Covered, Serial!Covered,
   SerialProofs!ApplyTx, Serial!ApplyTx, SerialProofs!RejectTx, Serial!RejectTx,
   SerialProofs!DropTx, Serial!DropTx, SerialProofs!PaymentAnswer, Serial!PaymentAnswer,
   SerialProofs!PaymentTimeout, Serial!PaymentTimeout, SerialProofs!WithdrawableStatuses,
   Serial!WithdrawableStatuses, SerialProofs!CancellableStatuses,
   Serial!CancellableStatuses, SerialProofs!RecordWithdrawal, Serial!RecordWithdrawal,
   SerialProofs!CancelStream, Serial!CancelStream, SerialProofs!Crash, Serial!Crash,
   SerialProofs!Handler, Serial!Handler, SerialProofs!Network, Serial!Network,
   SerialProofs!Next, Serial!Next
<1> QED
  BY <1>1, <1>2 DEF SerialProofs!vars, streamVars

LEMMA ReliableSame ==
    /\ ReliableProofs!Init <=> Reliable!Init
    /\ ReliableProofs!Next <=> Reliable!Next
    /\ UNCHANGED streamVars <=> UNCHANGED ReliableProofs!vars
<1>1. ReliableProofs!Init <=> Reliable!Init
  BY DEF ReliableProofs!NewRow, Reliable!NewRow, ReliableProofs!NoRow, Reliable!NoRow,
   ReliableProofs!Blank, Reliable!Blank, ReliableProofs!NoTx, Reliable!NoTx,
   ReliableProofs!Init, Reliable!Init
<1>2. ReliableProofs!Next <=> Reliable!Next
  BY DEF ReliableProofs!RouteKinds, Reliable!RouteKinds, ReliableProofs!vars, Reliable!vars,
   ReliableProofs!NewRow, Reliable!NewRow, ReliableProofs!Blank, Reliable!Blank,
   ReliableProofs!Streamed, Reliable!Streamed, ReliableProofs!Withdrawable,
   Reliable!Withdrawable, ReliableProofs!Refused, Reliable!Refused, ReliableProofs!InFlight, Reliable!InFlight, ReliableProofs!Finish,
   Reliable!Finish, ReliableProofs!Goto, Reliable!Goto, ReliableProofs!Tick, Reliable!Tick,
   ReliableProofs!Deposit, Reliable!Deposit, ReliableProofs!FundEscrow, Reliable!FundEscrow,
   ReliableProofs!CreateStream, Reliable!CreateStream, ReliableProofs!Begin, Reliable!Begin,
   ReliableProofs!ReadRow, Reliable!ReadRow, ReliableProofs!RefreshedStatus,
   Reliable!RefreshedStatus, ReliableProofs!RefreshUpdates, Reliable!RefreshUpdates,
   ReliableProofs!RefreshStatus, Reliable!RefreshStatus, ReliableProofs!Checking,
   Reliable!Checking, ReliableProofs!AnswerGet, Reliable!AnswerGet,
   ReliableProofs!CheckWithdraw, Reliable!CheckWithdraw, ReliableProofs!CheckReport,
   Reliable!CheckReport, ReliableProofs!Refund, Reliable!Refund, ReliableProofs!CheckCancel,
   Reliable!CheckCancel, ReliableProofs!CheckDelete, Reliable!CheckDelete,
   ReliableProofs!Recipient, Reliable!Recipient, ReliableProofs!NextAfterPayment,
   Reliable!NextAfterPayment, ReliableProofs!PaymentMade, Reliable!PaymentMade,
   ReliableProofs!PaymentFailed, Reliable!PaymentFailed, ReliableProofs!SubmitPayment,
   Reliable!SubmitPayment, ReliableProofs!Covered, Reliable!Covered, ReliableProofs!ApplyTx,
   Reliable!ApplyTx, ReliableProofs!RejectTx, Reliable!RejectTx, ReliableProofs!DropTx,
   Reliable!DropTx, ReliableProofs!PaymentAnswer, Reliable!PaymentAnswer,
   ReliableProofs!PaymentTimeout, Reliable!PaymentTimeout,
   ReliableProofs!WithdrawableStatuses, Reliable!WithdrawableStatuses,
   ReliableProofs!CancellableStatuses, Reliable!CancellableStatuses,
   ReliableProofs!RecordWithdrawal, Reliable!RecordWithdrawal, ReliableProofs!CancelStream,
   Reliable!CancelStream, ReliableProofs!Crash, Reliable!Crash, ReliableProofs!Handler,
   Reliable!Handler, ReliableProofs!Network, Reliable!Network, ReliableProofs!Next,
   Reliable!Next
<1> QED
  BY <1>1, <1>2 DEF ReliableProofs!vars, streamVars

\* A stream whose requests do not overlap.
LEMMA SerialHolds == Serial!Init /\ [][Serial!Next]_streamVars => []Serial!RecordedWithinStreamed
<1>1. SerialProofs!Spec => []SerialProofs!RecordedWithinStreamed
  <2>1. "overlap" \notin SerialFaults
    BY ServicesAssumption
  <2> QED
    BY <2>1, SerialAssumed, SerialProofs!SerialBooksHold
<1>2. SerialProofs!RecordedWithinStreamed <=> Serial!RecordedWithinStreamed
  BY DEF SerialProofs!RecordedWithinStreamed, Serial!RecordedWithinStreamed,
     SerialProofs!Streamed, Serial!Streamed
<1>3. /\ Serial!Init <=> SerialProofs!Init
      /\ [Serial!Next]_streamVars <=> [SerialProofs!Next]_(SerialProofs!vars)
  BY SerialSame
<1> QED
  BY <1>1, <1>2, <1>3, PTL DEF SerialProofs!Spec

\* A stream without faults.
LEMMA ReliableHolds ==
    Reliable!Init /\ [][Reliable!Next]_streamVars
      => /\ [](Reliable!WithdrawalsCovered /\ Reliable!BooksAgree /\ Reliable!FairShares)
         /\ Reliable!Promise!Init /\ [][Reliable!Promise!Next]_(Reliable!Promise!vars)
<1>1. /\ ReliableProofs!Spec
           => [](ReliableProofs!BooksAgree /\ ReliableProofs!WithdrawalsCovered)
      /\ ReliableProofs!Spec => []ReliableProofs!FairShares
      /\ ReliableProofs!Spec => ReliableProofs!PromiseKept
  BY ReliableAssumed, ReliableProofs!BooksAgreeHolds, ReliableProofs!FairSharesHold,
     ReliableProofs!PromiseKeptHolds
<1>2. /\ ReliableProofs!BooksAgree <=> Reliable!BooksAgree
      /\ ReliableProofs!WithdrawalsCovered <=> Reliable!WithdrawalsCovered
  BY DEF ReliableProofs!BooksAgree, Reliable!BooksAgree, ReliableProofs!WithdrawalsCovered,
     Reliable!WithdrawalsCovered, ReliableProofs!InFlight, Reliable!InFlight
<1>3. ReliableProofs!Phase = Reliable!Phase /\ ReliableProofs!Owed = Reliable!Owed
  BY DEF ReliableProofs!Phase, Reliable!Phase, ReliableProofs!Owed, Reliable!Owed,
     ReliableProofs!Asked, Reliable!Asked
<1>4. \A t, s : ReliableProofs!Streamed(t, s) = Reliable!Streamed(t, s)
  BY DEF ReliableProofs!Streamed, Reliable!Streamed
<1>5. ReliableProofs!FairShares <=> Reliable!FairShares
  BY <1>3, <1>4 DEF ReliableProofs!FairShares, Reliable!FairShares,
     ReliableProofs!Promise!FairShares, Reliable!Promise!FairShares
<1>6. ReliableProofs!Promise!Init <=> Reliable!Promise!Init
  BY <1>3 DEF ReliableProofs!Promise!Init, Reliable!Promise!Init
<1>7. [ReliableProofs!Promise!Next]_(ReliableProofs!Promise!vars)
        <=> [Reliable!Promise!Next]_(Reliable!Promise!vars)
  <2>1. ReliableProofs!Phase' = Reliable!Phase' /\ ReliableProofs!Owed' = Reliable!Owed'
    BY DEF ReliableProofs!Phase, Reliable!Phase, ReliableProofs!Owed, Reliable!Owed,
       ReliableProofs!Asked, Reliable!Asked
  <2> QED
    BY <1>3, <1>4, <2>1
    DEF ReliableProofs!Promise!Next, Reliable!Promise!Next, ReliableProofs!Promise!vars,
        Reliable!Promise!vars, ReliableProofs!Promise!Pass, Reliable!Promise!Pass,
        ReliableProofs!Promise!Open, Reliable!Promise!Open, ReliableProofs!Promise!Withdraw,
        Reliable!Promise!Withdraw, ReliableProofs!Promise!Ask, Reliable!Promise!Ask,
        ReliableProofs!Promise!Close, Reliable!Promise!Close
<1>8. /\ Reliable!Init <=> ReliableProofs!Init
      /\ [Reliable!Next]_streamVars <=> [ReliableProofs!Next]_(ReliableProofs!vars)
  BY ReliableSame
<1> QED
  BY <1>1, <1>2, <1>5, <1>6, <1>7, <1>8, PTL
  DEF ReliableProofs!Spec, ReliableProofs!PromiseKept, ReliableProofs!Promise!Spec

-----------------------------------------------------------------------------
(* The services: each part's share of a step of them is a step of that     *)
(* part, or none.                                                          *)

everything ==
    <<used, curveVars, questVars, payVars, vars, streamVars, createVars, mpcVars>>

LEMMA OnePartSteps ==
    ASSUME [ServicesNext]_everything
    PROVE  /\ UNCHANGED used
           /\ [Shape!Next]_curveVars /\ [Quest!Next]_questVars /\ [Pay!Next]_payVars
           /\ [Next]_vars /\ [Creation!Next]_createVars /\ [Mpc!Next]_mpcVars
           /\ used = "serial" => [Serial!Next]_streamVars
           /\ used = "reliable" => [Reliable!Next]_streamVars
BY DEF ServicesNext, everything

\* The invariants of the parts that do not depend on which of them is used.
LEMMA PartsOfServicesHold ==
    ServicesSpec
      => /\ [](Shape!TypeOK /\ Shape!CliffOnlyDelays
               /\ Shape!RoundingBounded /\ Shape!SharesFitDeposit)
         /\ Shape!NeverShrinks
         /\ [](Quest!TypeOK /\ Quest!NeverOverpaid /\ Quest!ReferralsCovered)
         /\ []Pay!TypeOK /\ Pay!SettledOnce
         /\ []TypeOK /\ []SessionOfOneLogin /\ []RegisteredWhole
         /\ [](Creation!TypeOK /\ Creation!RowsBacked)
         /\ [](Mpc!TypeOK /\ Mpc!AnyTwoRecover)
<1>1. ServicesInit => /\ Shape!Init /\ Quest!Init /\ Pay!Init /\ Init /\ Creation!Init
                      /\ Mpc!Init
  BY DEF ServicesInit
<1>2. [ServicesNext]_everything
        => /\ [Shape!Next]_curveVars /\ [Quest!Next]_questVars /\ [Pay!Next]_payVars
           /\ [Next]_vars /\ [Creation!Next]_createVars /\ [Mpc!Next]_mpcVars
  BY OnePartSteps
<1>3. /\ [Shape!Next]_curveVars => [Shape!Next]_(Shape!vars)
      /\ [Quest!Next]_questVars => [Quest!Next]_(Quest!vars)
      /\ [Pay!Next]_payVars => [Pay!Next]_(Pay!vars)
      /\ [Mpc!Next]_mpcVars => [Mpc!Next]_(Mpc!vars)
  BY DEF curveVars, Shape!vars, questVars, Quest!vars, payVars, Pay!vars, mpcVars, Mpc!vars
<1>4. [Creation!Next]_createVars => [Creation!Next]_(Creation!vars)
  BY DEF createVars, Creation!vars, Creation!page, Creation!route, Creation!ledger
<1>5. ServicesSpec => Shape!Spec /\ Quest!Spec /\ Pay!Spec /\ Spec /\ Creation!Spec /\ Mpc!Spec
  BY <1>1, <1>2, <1>3, <1>4, PTL
  DEF ServicesSpec, everything, Shape!Spec, Quest!Spec, Pay!Spec, Spec, Creation!Spec, Mpc!Spec
<1> QED
  BY <1>5, CurveHolds, QuestsHold, LinksHold, LoginTypeCorrect, SessionOfOneLoginHolds,
     RegisteredWholeHolds, CreationHolds, MpcHolds, ServicesAssumption, PTL

\* Every part's state stays in its domain: withdrawals within the total, numbers of links
\* and wallets that exist, a login's flag that is up exactly while it waits.
THEOREM ServicesTypeCorrect == ServicesSpec => []ServicesTypeOK
BY PartsOfServicesHold, PTL DEF ServicesTypeOK

\* For every total, duration, cliff and curve, what has streamed never shrinks.
THEOREM NeverShrinksHolds == ServicesSpec => NeverShrinks
BY PartsOfServicesHold, PTL DEF NeverShrinks

\* For every total, duration and curve and any number of payments: a cliff only delays,
\* the rounding of the payments does not add up, and withdrawals and refund fit the
\* deposit to one stroop.
THEOREM CurvesFitDepositHolds == ServicesSpec => []CurvesFitDeposit
BY PartsOfServicesHold, PTL DEF CurvesFitDeposit

\* However many requests sign up, refer and complete tasks at once, nobody has more points
\* than the row records reasons for, and a referral that a row names has been counted.
THEOREM PointsEarnedHolds == ServicesSpec => []PointsEarned
BY PartsOfServicesHold, PTL DEF PointsEarned

\* However many logins begin, fail or go on after a logout, no session and no registration
\* mixes the parts of two logins, and a session with its id is the one registered.
THEOREM LoginsHold == ServicesSpec => [](SessionOfOneLogin /\ RegisteredWhole)
BY PartsOfServicesHold, PTL

\* However many payers pay, a link is closed once, by a payment the ledger has applied.
THEOREM SettledOnceHolds == ServicesSpec => SettledOnce
BY PartsOfServicesHold, PTL DEF SettledOnce

\* However many attempts compete for one balance, every row has a deposit of its own.
THEOREM RowsBackedHolds == ServicesSpec => []RowsBacked
BY PartsOfServicesHold, PTL DEF RowsBacked

\* A wallet that was made, or that the check answers for, can be had back from any two
\* different accounts, whatever was made and checked before.
THEOREM AnyTwoRecoverHolds == ServicesSpec => []AnyTwoRecover
BY PartsOfServicesHold, PTL DEF AnyTwoRecover

\* Without overlap a stream's row never shows more than has streamed, for any number of
\* requests, whatever times out, is dropped or is killed.
THEOREM RecordedWithinStreamedHolds == ServicesSpec => []RecordedWithinStreamed
<1>1. used = "serial" /\ ServicesInit => Serial!Init
  BY DEF ServicesInit
<1>2. [ServicesNext]_everything
        => ((used = "serial")' <=> used = "serial")
           /\ (used = "serial" => [Serial!Next]_streamVars)
  BY OnePartSteps
<1> QED
  BY <1>1, <1>2, SerialHolds, PTL DEF ServicesSpec, everything, RecordedWithinStreamed

\* Without faults no withdrawal fails for want of money in the escrow, the books agree
\* with the ledger, and both shares are fair, for any number of requests that the deposit
\* has fees for.
THEOREM BooksAgreeHolds == ServicesSpec => []BooksAgree
<1>1. used = "reliable" /\ ServicesInit => Reliable!Init
  BY DEF ServicesInit, Serial!Init, Reliable!Init, Serial!NoRow, Reliable!NoRow,
     Serial!NewRow, Reliable!NewRow, Serial!Blank, Reliable!Blank, Serial!NoTx, Reliable!NoTx
<1>2. [ServicesNext]_everything
        => ((used = "reliable")' <=> used = "reliable")
           /\ (used = "reliable" => [Reliable!Next]_streamVars)
  BY OnePartSteps
<1> QED
  BY <1>1, <1>2, ReliableHolds, PTL DEF ServicesSpec, everything, BooksAgree

\* Without faults a stream keeps StreamLedger's promise: every step of its requests is a
\* step of the promise, or none.
THEOREM PromiseKeptHolds == ServicesSpec => PromiseKept
<1>1. used = "reliable" /\ ServicesInit => Reliable!Init
  BY DEF ServicesInit, Serial!Init, Reliable!Init, Serial!NoRow, Reliable!NoRow,
     Serial!NewRow, Reliable!NewRow, Serial!Blank, Reliable!Blank, Serial!NoTx, Reliable!NoTx
<1>2. [ServicesNext]_everything
        => ((used = "reliable")' <=> used = "reliable")
           /\ (used = "reliable" => [Reliable!Next]_streamVars)
  BY OnePartSteps
<1>3. [Reliable!Promise!Next]_(Reliable!Promise!vars)
        => [used = "reliable" => [Reliable!Promise!Next]_(Reliable!Promise!vars)]_streamVars
  OBVIOUS
<1>4. used # "reliable"
        => [used = "reliable" => [Reliable!Promise!Next]_(Reliable!Promise!vars)]_streamVars
  OBVIOUS
<1> QED
  BY <1>1, <1>2, <1>3, <1>4, ReliableHolds, PTL DEF ServicesSpec, everything, PromiseKept
=============================================================================
