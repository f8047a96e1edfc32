----------------------------- MODULE LightsProofs -----------------------------
(***************************************************************************)
(* Theorems about Lights, for any number and length of strips, any         *)
(* brightness, palette and speed.                                          *)
(***************************************************************************)
EXTENDS Lights, FiniteSetTheorems, WellFoundedInduction, TLAPS

-----------------------------------------------------------------------------
(* Division.  The provers know a quotient and a remainder only by what     *)
(* they add up to.                                                         *)
LEMMA Divides ==
    ASSUME NEW x \in Nat, NEW d \in Nat \ {0}
    PROVE  x \div d \in Nat /\ x % d \in 0 .. d - 1 /\ x = d * (x \div d) + (x % d)
<1> DEFINE q == x \div d
           r == x % d
<1>1. q \in Int /\ r \in 0 .. d - 1 /\ x = d * q + r
  OBVIOUS
<1> HIDE DEF q, r
<1>2. q >= 0
  <2> SUFFICES ASSUME q <= -1 PROVE FALSE
    BY <1>1
  <2>1. d * q <= d * (-1)
    BY <1>1
  <2> QED
    BY <2>1, <1>1
<1>3. q \in Nat
  BY <1>1, <1>2
<1> QED
  BY <1>1, <1>3 DEF q, r

LEMMA DivisionIsUnique ==
    ASSUME NEW x \in Nat, NEW d \in Nat \ {0}, NEW q \in Nat, NEW r \in 0 .. d - 1,
           x = d * q + r
    PROVE  x \div d = q /\ x % d = r
<1> DEFINE p == x \div d
           t == x % d
<1>1. p \in Nat /\ t \in 0 .. d - 1 /\ x = d * p + t
  BY Divides
<1> HIDE DEF p, t
<1>2. p <= q
  <2> SUFFICES ASSUME p >= q + 1 PROVE FALSE
    BY <1>1
  <2>1. d * p >= d * (q + 1) /\ d * (q + 1) = d * q + d /\ d * p \in Nat /\ d * q \in Nat
    BY <1>1
  <2> QED
    BY <2>1, <1>1
<1>3. q <= p
  <2> SUFFICES ASSUME q >= p + 1 PROVE FALSE
    BY <1>1
  <2>1. d * q >= d * (p + 1) /\ d * (p + 1) = d * p + d /\ d * p \in Nat /\ d * q \in Nat
    BY <1>1
  <2> QED
    BY <2>1, <1>1
<1>4. p = q
  BY <1>1, <1>2, <1>3
<1>5. d * q \in Nat
  OBVIOUS
<1>6. t = r
  BY <1>1, <1>4, <1>5
<1> QED
  BY <1>4, <1>6 DEF p, t

(* One period later the quotient is one more, ... *)
LEMMA NextQuotient ==
    ASSUME NEW x \in Nat, NEW d \in Nat \ {0}
    PROVE  (x + d) \div d = (x \div d) + 1 /\ (x + d) % d = x % d
<1> DEFINE q == x \div d
           r == x % d
<1>1. q \in Nat /\ r \in 0 .. d - 1 /\ x = d * q + r
  BY Divides
<1> HIDE DEF q, r
<1>2. d * (q + 1) = d * q + d /\ d * q \in Nat
  BY <1>1
<1>3. x + d = d * (q + 1) + r /\ x + d \in Nat /\ q + 1 \in Nat
  BY <1>1, <1>2
<1>4. (x + d) \div d = q + 1 /\ (x + d) % d = r
  BY <1>1, <1>3, DivisionIsUnique
<1> QED
  BY <1>4 DEF q, r

(* ... and the place in a cycle is the next one. *)
LEMMA NextRemainder ==
    ASSUME NEW q \in Nat, NEW m \in Nat \ {0}
    PROVE  (q + 1) % m = IF q % m = m - 1 THEN 0 ELSE (q % m) + 1
<1> DEFINE a == q \div m
           r == q % m
<1>1. a \in Nat /\ r \in 0 .. m - 1 /\ q = m * a + r
  BY Divides
<1> HIDE DEF a, r
<1>2. m * (a + 1) = m * a + m /\ m * a \in Nat
  BY <1>1
<1>3. CASE r = m - 1
  <2>1. q + 1 = m * (a + 1) + 0 /\ 0 \in 0 .. m - 1 /\ a + 1 \in Nat
    BY <1>1, <1>2, <1>3
  <2>2. (q + 1) % m = 0
    BY <2>1, DivisionIsUnique
  <2> QED
    BY <2>2, <1>3 DEF r
<1>4. CASE r # m - 1
  <2>1. q + 1 = m * a + (r + 1) /\ r + 1 \in 0 .. m - 1
    BY <1>1, <1>2, <1>4
  <2>2. (q + 1) % m = r + 1
    BY <1>1, <2>1, DivisionIsUnique
  <2> QED
    BY <2>2, <1>4 DEF r
<1> QED
  BY <1>3, <1>4

(* A cycle of m periods of d: the place in it and the time in the period. *)
LEMMA Cycle ==
    ASSUME NEW x \in Nat, NEW d \in Nat \ {0}, NEW m \in Nat \ {0}
    PROVE  x % (d * m) = d * ((x \div d) % m) + (x % d)
<1> DEFINE q == x \div d
           r == x % d
           a == q \div m
           p == q % m
<1>1. q \in Nat /\ r \in 0 .. d - 1 /\ x = d * q + r
  BY Divides
<1>2. a \in Nat /\ p \in 0 .. m - 1 /\ q = m * a + p
  BY <1>1, Divides
<1> HIDE DEF q, r, a, p
<1>3. /\ d * q = (d * m) * a + d * p
      /\ d * m \in Nat \ {0} /\ d * p \in Nat /\ (d * m) * a \in Nat
  BY <1>1, <1>2
<1>4. d * p <= d * (m - 1) /\ d * (m - 1) = d * m - d
  BY <1>2
<1>5. d * p + r \in 0 .. d * m - 1
  BY <1>1, <1>3, <1>4
<1>6. x = (d * m) * a + (d * p + r)
  BY <1>1, <1>3
<1>7. x % (d * m) = d * p + r
  BY <1>2, <1>3, <1>5, <1>6, DivisionIsUnique
<1> QED
  BY <1>7 DEF p, q, r

-----------------------------------------------------------------------------
(* A set of numbers has a least one. *)
LEMMA LeastOf ==
    ASSUME NEW S \in SUBSET Nat, S # {}
    PROVE  \E x \in S : \A y \in S : x <= y
<1> DEFINE R == OpToRel(<, Nat)
<1>1. IsWellFoundedOn(R, Nat)
  BY NatLessThanWellFounded
<1>2. \A x, y \in Nat : x < y => <<x, y>> \in R
  BY DEF OpToRel
<1> HIDE DEF R
<1>3. PICK x \in S : \A y \in S : <<y, x>> \notin R
  BY <1>1, WFMin, Zenon
<1>4. \A y \in S : ~(y < x)
  BY <1>2, <1>3, Zenon
<1> QED
  BY <1>4

(* Induction from a number up to a bound, for a set of numbers. *)
LEMMA FromTo ==
    ASSUME NEW l \in Nat, NEW m \in Nat, NEW T, l \in T,
           \A i \in l .. m - 1 : i \in T => i + 1 \in T
    PROVE  \A i \in l .. m : i \in T
<1> DEFINE S == {i \in l .. m : i \notin T}
<1> SUFFICES ASSUME S # {} PROVE FALSE
  OBVIOUS
<1>1. PICK x \in S : \A y \in S : x <= y
  <2>1. S \in SUBSET Nat
    OBVIOUS
  <2> HIDE DEF S
  <2> QED
    BY <2>1, LeastOf
<1>2. x # l /\ x - 1 \in l .. m - 1 /\ x - 1 \notin S
  BY <1>1
<1> QED
  BY <1>1, <1>2

(* Where the strips are on the flattened index. *)
LEMMA CountsIs == /\ StripCount \in Nat \ {0}
                  /\ \A s \in Strip : Counts[s] \in Nat \ {0}
<1>1. Counts \in Seq(Nat \ {0}) /\ Counts # <<>>
  BY LightsAssumption
<1>2. Len(Counts) \in Nat /\ Len(Counts) # 0
  BY <1>1
<1>3. \A s \in 1 .. Len(Counts) : Counts[s] \in Nat \ {0}
  BY <1>1
<1> QED
  BY <1>2, <1>3 DEF StripCount, Strip

Sum(g, s) == IF s = 0 THEN 0 ELSE g[s - 1] + Counts[s]

(* The sum that totalPixelCount() runs through exists, step by step. *)
LEMMA OffsetStep == \A s \in 0 .. StripCount : Offset[s] = Sum(Offset, s)
<1> USE CountsIs
<1> DEFINE T == {m \in 0 .. StripCount : \E g : g = [s \in 0 .. m |-> Sum(g, s)]}
<1>1. 0 \in T
  <2> DEFINE g == [s \in 0 .. 0 |-> 0]
  <2>1. g = [s \in 0 .. 0 |-> Sum(g, s)]
    BY DEF Sum
  <2> HIDE DEF g
  <2> QED
    BY <2>1
<1>2. ASSUME NEW m \in 0 .. StripCount - 1, m \in T PROVE m + 1 \in T
  <2>1. PICK g : g = [s \in 0 .. m |-> Sum(g, s)]
    BY <1>2
  <2> DEFINE h == [s \in 0 .. m + 1 |-> IF s = m + 1 THEN Sum(g, m + 1) ELSE g[s]]
  <2>2. \A s \in 0 .. m + 1 : h[s] = Sum(h, s)
    <3> SUFFICES ASSUME NEW s \in 0 .. m + 1 PROVE h[s] = Sum(h, s)
      OBVIOUS
    <3>1. s # 0 => h[s - 1] = g[s - 1]
      OBVIOUS
    <3>2. Sum(h, s) = Sum(g, s)
      BY <3>1 DEF Sum
    <3>3. s \in 0 .. m => h[s] = g[s] /\ g[s] = Sum(g, s)
      BY <2>1
    <3> QED
      BY <3>2, <3>3
  <2>3. h = [s \in 0 .. m + 1 |-> Sum(h, s)]
    BY <2>2
  <2> HIDE DEF h
  <2> QED
    BY <2>3
<1>3. StripCount \in T
  <2> HIDE DEF T
  <2> QED
    BY <1>1, <1>2, FromTo
<1>4. Offset = [s \in 0 .. StripCount |-> Sum(Offset, s)]
  BY <1>3 DEF Offset, Sum
<1> QED
  BY <1>4

LEMMA OffsetIs ==
    /\ Offset[0] = 0
    /\ \A s \in 0 .. StripCount : Offset[s] \in Nat
    /\ \A s \in Strip : Offset[s] = Offset[s - 1] + Counts[s]
<1>1. Offset[0] = 0 /\ \A s \in Strip : Offset[s] = Offset[s - 1] + Counts[s]
  BY OffsetStep, CountsIs DEF Sum, Strip
<1> DEFINE T == {s \in 0 .. StripCount : Offset[s] \in Nat}
<1>2. 0 \in T
  BY <1>1, CountsIs
<1>3. ASSUME NEW i \in 0 .. StripCount - 1, i \in T PROVE i + 1 \in T
  <2>1. i + 1 \in Strip /\ (i + 1) - 1 = i /\ i + 1 \in 0 .. StripCount
    BY CountsIs DEF Strip
  <2>2. Offset[i + 1] = Offset[i] + Counts[i + 1] /\ Counts[i + 1] \in Nat
    BY <2>1, <1>1, CountsIs
  <2> QED
    BY <2>1, <2>2, <1>3
<1>4. \A s \in 0 .. StripCount : s \in T
  <2> HIDE DEF T
  <2> QED
    BY <1>2, <1>3, FromTo, CountsIs
<1> QED
  BY <1>1, <1>4

LEMMA OffsetGrows ==
    ASSUME NEW s \in 0 .. StripCount, NEW t \in s .. StripCount
    PROVE  Offset[s] <= Offset[t]
<1> DEFINE T == {i \in s .. StripCount : Offset[s] <= Offset[i]}
<1>1. s \in T
  BY OffsetIs, CountsIs
<1>2. ASSUME NEW i \in s .. StripCount - 1, i \in T PROVE i + 1 \in T
  <2>1. i + 1 \in Strip /\ (i + 1) - 1 = i /\ i + 1 \in s .. StripCount
        /\ i \in 0 .. StripCount
    BY CountsIs DEF Strip
  <2>2. Offset[i + 1] = Offset[i] + Counts[i + 1] /\ Counts[i + 1] \in Nat
        /\ Offset[i] \in Nat /\ Offset[s] \in Nat
    BY <2>1, OffsetIs, CountsIs
  <2> QED
    BY <2>1, <2>2, <1>2
<1>3. \A i \in s .. StripCount : i \in T
  <2>1. s \in Nat /\ StripCount \in Nat
    BY CountsIs
  <2> HIDE DEF T
  <2> QED
    BY <2>1, <1>1, <1>2, FromTo
<1> QED
  BY <1>3

(* All the pixels fit into what a frame can have. *)
LEMMA nIs == n = Total /\ n = Offset[StripCount] /\ n \in Nat \ {0}
<1>1. Total = Offset[StripCount] /\ StripCount \in Strip /\ StripCount \in 0 .. StripCount
      /\ 0 \in 0 .. StripCount /\ StripCount - 1 \in 0 .. StripCount
  BY CountsIs DEF Total, Strip
<1>2. Offset[StripCount] = Offset[StripCount - 1] + Counts[StripCount]
      /\ Offset[StripCount - 1] \in Nat /\ Counts[StripCount] \in Nat \ {0}
  BY <1>1, OffsetIs, CountsIs
<1>3. Total \in Nat \ {0}
  BY <1>1, <1>2
<1>4. n = Total
  <2>1. Total <= kMaxPixels /\ kMaxPixels \in Nat
    BY LightsAssumption
  <2> QED
    BY <1>3, <2>1 DEF n
<1> QED
  BY <1>1, <1>3, <1>4

(* Pixel k of strip s, on the flattened index and back. *)
At(s, k) == Offset[s - 1] + k - 1

LEMMA AtIs ==
    ASSUME NEW s \in Strip, NEW k \in 1 .. Counts[s]
    PROVE  At(s, k) \in Index /\ resolveGlobalIndex(At(s, k)) = <<s, k - 1>>
<1>1. /\ s \in 0 .. StripCount /\ s - 1 \in 0 .. StripCount /\ StripCount \in s .. StripCount
      /\ s \in Nat /\ StripCount \in Nat /\ Counts[s] \in Nat
  BY CountsIs DEF Strip
<1>2. /\ Offset[s] = Offset[s - 1] + Counts[s] /\ Offset[s - 1] \in Nat
      /\ Offset[s] <= Offset[StripCount]
  BY <1>1, OffsetIs, OffsetGrows
<1>3. At(s, k) \in Index
  BY <1>1, <1>2, nIs DEF At, Index
<1> DEFINE i == At(s, k)
           Fits(t) == i - Offset[t - 1] < Counts[t]
           First(t) == Fits(t) /\ \A u \in 1 .. t - 1 : ~Fits(u)
           first == CHOOSE t \in Strip : First(t)
<1>4. Fits(s)
  BY <1>1, <1>2 DEF At
<1>5. ASSUME NEW u \in 1 .. s - 1 PROVE ~Fits(u)
  <2>1. u \in Strip /\ u \in 0 .. StripCount /\ u - 1 \in 0 .. StripCount
        /\ s - 1 \in u .. StripCount
    BY <1>1 DEF Strip
  <2>2. Offset[u] = Offset[u - 1] + Counts[u] /\ Offset[u - 1] \in Nat /\ Counts[u] \in Nat
        /\ Offset[u] <= Offset[s - 1]
    BY <2>1, OffsetIs, OffsetGrows, CountsIs
  <2> QED
    BY <2>2, <1>2 DEF At
<1>6. i - Offset[s - 1] = k - 1
  BY <1>2, <1>1 DEF At
<1> HIDE DEF i
<1>7. First(s)
  BY <1>4, <1>5
<1>8. ASSUME NEW t \in Strip, First(t) PROVE t = s
  <2>1. ~(t \in 1 .. s - 1)
    BY <1>5, <1>8
  <2>2. ~(s \in 1 .. t - 1)
    BY <1>4, <1>8
  <2> QED
    BY <2>1, <2>2, <1>1 DEF Strip
<1>9. resolveGlobalIndex(i) = IF \E t \in Strip : Fits(t) THEN <<first, i - Offset[first - 1]>>
                              ELSE <<>>
  BY DEF resolveGlobalIndex
<1> HIDE DEF Fits
<1>10. first = s
  BY <1>7, <1>8
<1> HIDE DEF first
<1> QED
  BY <1>3, <1>4, <1>6, <1>9, <1>10 DEF i

LEMMA AtOnly ==
    ASSUME NEW s \in Strip, NEW k \in 1 .. Counts[s], NEW i \in Index,
           resolveGlobalIndex(i) = <<s, k - 1>>
    PROVE  i = At(s, k)
<1> DEFINE Fits(t) == i - Offset[t - 1] < Counts[t]
           first == CHOOSE t \in Strip : Fits(t) /\ \A u \in 1 .. t - 1 : ~Fits(u)
<1>1. resolveGlobalIndex(i) = IF \E t \in Strip : Fits(t) THEN <<first, i - Offset[first - 1]>>
                              ELSE <<>>
  BY DEF resolveGlobalIndex
<1> HIDE DEF Fits, first
<1>2. <<s, k - 1>> # <<>>
  OBVIOUS
<1>3. <<first, i - Offset[first - 1]>> = <<s, k - 1>>
  BY <1>1, <1>2
<1>4. first = s /\ i - Offset[s - 1] = k - 1
  BY <1>3
<1>5. Offset[s - 1] \in Nat /\ Counts[s] \in Nat
  BY OffsetIs, CountsIs DEF Strip
<1> QED
  BY <1>4, <1>5, nIs DEF At, Index

-----------------------------------------------------------------------------
(* What a pattern lights. *)
LEMMA ParametersAre ==
    /\ kMaxPixels \in Nat \ {0} /\ Full \in Nat \ {0} /\ kSpark \in Nat \ {0}
    /\ Wrap \in Nat \ {0} /\ MaxTurn \in Nat \ {0} /\ kChase \in Nat \ {0}
    /\ kTheater \in Nat \ {0} /\ kWipe \in Nat \ {0} /\ kStrobe \in Nat \ {0}
    /\ Boot \in 1 .. Full
BY LightsAssumption

LEMMA LitIs ==
    ASSUME NEW e, NEW t
    PROVE  LET name == kEffectNames[e + 1]
           IN  /\ name \in {"Chase", "Chasing Rainbow"} => Lit(e, t) = {(t \div kChase) % n}
               /\ name = "Theater Chase" =>
                    Lit(e, t) = {i \in Index : i % 3 = (t \div kTheater) % 3}
               /\ name = "Bounce" => Lit(e, t) = {BouncePos(t)}
               /\ name = "Color Wipe" => Lit(e, t) = Wiped(t)
               /\ name = "Strobe" => Lit(e, t) \in {Index, {}}
               /\ name \in {"Solid", "Solid Rainbow", "Rainbow Cycle", "Fire", "Breathe"}
                    => Lit(e, t) = Index
<1> DEFINE name == kEffectNames[e + 1]
<1>1. Lit(e, t) = CASE name \in {"Chase", "Chasing Rainbow"} -> {(t \div kChase) % n}
                    [] name = "Theater Chase" -> {i \in Index : i % 3 = (t \div kTheater) % 3}
                    [] name = "Bounce"        -> {BouncePos(t)}
                    [] name = "Color Wipe"    -> Wiped(t)
                    [] name = "Strobe"        -> IF (t \div kStrobe) % 2 = 0 THEN Index ELSE {}
                    [] OTHER -> Index
  BY DEF Lit
<1> HIDE DEF name
<1>2. CASE name \in {"Chase", "Chasing Rainbow"}
  BY <1>1, <1>2 DEF name
<1>3. CASE name = "Theater Chase"
  BY <1>1, <1>3 DEF name
<1>4. CASE name = "Bounce"
  BY <1>1, <1>4 DEF name
<1>5. CASE name = "Color Wipe"
  BY <1>1, <1>5 DEF name
<1>6. CASE name = "Strobe"
  BY <1>1, <1>6 DEF name
<1>7. CASE name \notin {"Chase", "Chasing Rainbow", "Theater Chase", "Bounce", "Color Wipe",
                        "Strobe"}
  BY <1>1, <1>7 DEF name
<1> QED
  BY <1>2, <1>3, <1>4, <1>5, <1>6, <1>7

(* runChase(), runChasingRainbow(): a place, and the one after it. *)
LEMMA ChaseIs ==
    ASSUME NEW t \in Nat
    PROVE  LET q == t \div kChase
           IN  /\ q \in Nat /\ q % n \in Index
               /\ t < kChase => q = 0
               /\ (t + kChase) \div kChase = q + 1
<1> DEFINE q == t \div kChase
<1>1. q \in Nat
  BY Divides, ParametersAre
<1>2. t < kChase => q = 0
  <2> SUFFICES ASSUME t < kChase PROVE q = 0
    OBVIOUS
  <2>1. kChase * 0 = 0 /\ t \in 0 .. kChase - 1 /\ t = kChase * 0 + t
    BY ParametersAre
  <2> QED
    BY <2>1, DivisionIsUnique, ParametersAre
<1>3. (t + kChase) \div kChase = q + 1
  BY NextQuotient, ParametersAre
<1> HIDE DEF q
<1>4. q % n \in Index
  BY <1>1, Divides, nIs DEF Index
<1> QED
  BY <1>1, <1>2, <1>3, <1>4 DEF q

(* runBounce(): from a place on the way there and back to a pixel. *)
Back(p) == IF p < n THEN p ELSE 2 * (n - 1) - p

LEMMA BounceIs ==
    ASSUME NEW t \in Nat, n > 1
    PROVE  LET p == (t \div kChase) % (2 * (n - 1))
           IN  p \in 0 .. 2 * (n - 1) - 1 /\ BouncePos(t) = Back(p)
<1> DEFINE q == t \div kChase
           m == 2 * (n - 1)
<1>1. q \in Nat /\ m \in Nat \ {0}
  BY ChaseIs, nIs
<1>2. BouncePos(t) = Back(q % m)
  <2>1. n # 1
    OBVIOUS
  <2> QED
    BY <2>1 DEF BouncePos, Back
<1> HIDE DEF q, m
<1>3. q % m \in 0 .. m - 1
  BY <1>1, Divides
<1> QED
  BY <1>2, <1>3 DEF q, m

LEMMA BounceIn ==
    ASSUME NEW t \in Nat
    PROVE  BouncePos(t) \in Index
<1>1. CASE n = 1
  BY <1>1 DEF BouncePos, Index
<1>2. CASE n # 1
  <2> DEFINE p == (t \div kChase) % (2 * (n - 1))
  <2>1. n > 1
    BY <1>2, nIs
  <2>2. p \in 0 .. 2 * (n - 1) - 1 /\ BouncePos(t) = Back(p)
    BY <2>1, BounceIs
  <2> HIDE DEF p
  <2> QED
    BY <2>1, <2>2, nIs DEF Back, Index
<1> QED
  BY <1>1, <1>2

(* runColorWipe(): there are 2 * n periods; in the first n of them the     *)
(* pixels come on, in the others they go off.                              *)
Wipe(p) == IF p < n THEN 0 .. p ELSE p - n + 1 .. n - 1

LEMMA WipedIs ==
    ASSUME NEW t \in Nat
    PROVE  LET p == (t \div kWipe) % (2 * n)
           IN  p \in 0 .. 2 * n - 1 /\ Wiped(t) = Wipe(p)
<1> DEFINE q == t \div kWipe
           r == t % kWipe
           p == q % (2 * n)
           within == t % (kWipe * n * 2)
           wipingIn == within < kWipe * n
           progress == IF wipingIn THEN within \div kWipe ELSE (within - kWipe * n) \div kWipe
<1> USE nIs, ParametersAre
<1>1. q \in Nat /\ r \in 0 .. kWipe - 1
  BY Divides
<1>2. 2 * n \in Nat \ {0} /\ kWipe * n * 2 = kWipe * (2 * n)
  OBVIOUS
<1>3. p \in 0 .. 2 * n - 1
  BY <1>1, <1>2, Divides
<1>4. within = kWipe * p + r
  <2>1. t % (kWipe * (2 * n)) = kWipe * p + r
    BY <1>2, Cycle
  <2> QED
    BY <1>2, <2>1
<1>5. Wiped(t) = {i \in Index : IF wipingIn THEN i <= progress ELSE i > progress}
  BY DEF Wiped
<1> HIDE DEF q, r, p, within
<1>6. kWipe * p \in Nat /\ kWipe * n \in Nat
  BY <1>3
<1>7. CASE p < n
  <2>1. kWipe * p <= kWipe * (n - 1) /\ kWipe * (n - 1) = kWipe * n - kWipe
    BY <1>3, <1>7
  <2>2. wipingIn
    BY <2>1, <1>1, <1>4, <1>6
  <2>3. within \in Nat /\ p \in Nat
    BY <1>1, <1>3, <1>4, <1>6
  <2>4. within \div kWipe = p
    BY <1>1, <1>4, <2>3, DivisionIsUnique
  <2>5. progress = p
    BY <2>2, <2>4
  <2> HIDE DEF wipingIn, progress
  <2>6. Wiped(t) = {i \in Index : i <= p}
    BY <1>5, <2>2, <2>5
  <2>7. {i \in Index : i <= p} = 0 .. p
    BY <1>3, <1>7 DEF Index
  <2> QED
    BY <1>3, <1>7, <2>6, <2>7 DEF Wipe, p, q
<1>8. CASE ~(p < n)
  <2>1. kWipe * p >= kWipe * n /\ kWipe * (p - n) = kWipe * p - kWipe * n /\ p - n \in Nat
    BY <1>3, <1>8
  <2>2. ~wipingIn
    BY <2>1, <1>1, <1>4, <1>6
  <2>3. within - kWipe * n = kWipe * (p - n) + r /\ within - kWipe * n \in Nat
    BY <2>1, <1>1, <1>4, <1>6
  <2>4. (within - kWipe * n) \div kWipe = p - n
    BY <1>1, <2>1, <2>3, DivisionIsUnique
  <2>5. progress = p - n
    BY <2>2, <2>4
  <2> HIDE DEF wipingIn, progress
  <2>6. Wiped(t) = {i \in Index : i > p - n}
    BY <1>5, <2>2, <2>5
  <2>7. {i \in Index : i > p - n} = p - n + 1 .. n - 1
    BY <1>3, <1>8 DEF Index
  <2> QED
    BY <1>3, <1>8, <2>6, <2>7 DEF Wipe, p, q
<1> QED
  BY <1>7, <1>8

(* Chase comes round. *)
LEMMA ChaseMoves ==
    ASSUME NEW t \in Nat
    PROVE  /\ t < kChase => {(t \div kChase) % n} = {0}
           /\ {((t + kChase) \div kChase) % n} = {(i + 1) % n : i \in {(t \div kChase) % n}}
<1> DEFINE q == t \div kChase
<1>1. q \in Nat /\ (t < kChase => q = 0) /\ (t + kChase) \div kChase = q + 1
  BY ChaseIs
<1> HIDE DEF q
<1>2. 0 % n = 0
  BY nIs
<1>3. q % n \in 0 .. n - 1 /\ (q + 1) % n = IF q % n = n - 1 THEN 0 ELSE (q % n) + 1
  BY <1>1, nIs, Divides, NextRemainder
<1> DEFINE r == q % n
<1>4. (r + 1) % n = (q + 1) % n
  <2> HIDE DEF r
  <2>1. r \in 0 .. n - 1 /\ (q + 1) % n = IF r = n - 1 THEN 0 ELSE r + 1
    BY <1>3 DEF r
  <2>2. r \in Nat /\ r = n * 0 + r
    BY <2>1, nIs
  <2>3. r % n = r
    BY <2>1, <2>2, nIs, DivisionIsUnique
  <2>4. (r + 1) % n = IF r % n = n - 1 THEN 0 ELSE (r % n) + 1
    BY <2>2, nIs, NextRemainder
  <2> QED
    BY <2>1, <2>3, <2>4
<1>5. t < kChase => {(t \div kChase) % n} = {0}
  BY <1>1, <1>2 DEF q
<1>6. {((t + kChase) \div kChase) % n} = {(i + 1) % n : i \in {r}}
  BY <1>1, <1>4
<1> QED
  BY <1>5, <1>6 DEF q

(* Bounce turns without standing still. *)
LEMMA BounceMoves ==
    ASSUME NEW t \in Nat
    PROVE  /\ t < kChase => BouncePos(t) = 0
           /\ n > 1 => \/ BouncePos(t + kChase) = BouncePos(t) + 1
                       \/ BouncePos(t) = BouncePos(t + kChase) + 1
<1> USE nIs
<1>1. CASE n = 1
  BY <1>1 DEF BouncePos
<1>2. CASE n # 1
  <2> DEFINE m == 2 * (n - 1)
             q == t \div kChase
             p == q % m
  <2>1. n > 1 /\ m \in Nat \ {0} /\ t + kChase \in Nat
    BY <1>2, ParametersAre
  <2>2. q \in Nat /\ (t < kChase => q = 0) /\ (t + kChase) \div kChase = q + 1
    BY ChaseIs
  <2>3. p \in 0 .. m - 1 /\ BouncePos(t) = Back(p)
    BY <2>1, BounceIs
  <2>4. BouncePos(t + kChase) = Back((q + 1) % m)
    BY <2>1, <2>2, BounceIs
  <2> HIDE DEF q
  <2>5. (q + 1) % m = IF p = m - 1 THEN 0 ELSE p + 1
    BY <2>1, <2>2, NextRemainder
  <2>6. t < kChase => p = 0
    BY <2>1, <2>2
  <2> HIDE DEF p
  <2>7. t < kChase => BouncePos(t) = 0
    BY <2>1, <2>3, <2>6 DEF Back
  <2>8. CASE p = m - 1
    <3>1. BouncePos(t + kChase) = Back(0)
      BY <2>4, <2>5, <2>8
    <3>2. Back(0) = 0
      BY DEF Back
    <3>3. Back(p) = 1
      <4>1. CASE n = 2
        BY <4>1, <2>8 DEF Back
      <4>2. CASE n # 2
        BY <4>2, <2>1, <2>8 DEF Back
      <4> QED
        BY <4>1, <4>2
    <3>4. BouncePos(t) = 1 /\ BouncePos(t + kChase) = 0
      BY <2>3, <3>1, <3>2, <3>3
    <3>5. BouncePos(t) = BouncePos(t + kChase) + 1
      BY <3>4
    <3> QED
      BY <2>7, <3>5
  <2>9. CASE p # m - 1
    <3>1. BouncePos(t + kChase) = Back(p + 1)
      BY <2>4, <2>5, <2>9
    <3>2. CASE p < n - 1
      <4>1. Back(p + 1) = Back(p) + 1
        BY <2>3, <3>2 DEF Back
      <4> QED
        BY <2>3, <2>7, <3>1, <4>1
    <3>3. CASE ~(p < n - 1)
      <4>1. Back(p) = 2 * (n - 1) - p /\ Back(p + 1) = 2 * (n - 1) - (p + 1)
        <5>1. p \in Nat /\ ~(p + 1 < n)
          BY <2>3, <3>3
        <5>2. Back(p + 1) = 2 * (n - 1) - (p + 1)
          BY <5>1 DEF Back
        <5>3. p < n => p = n - 1
          BY <5>1
        <5>4. p = n - 1 => p = 2 * (n - 1) - p
          OBVIOUS
        <5>5. Back(p) = 2 * (n - 1) - p
          BY <5>3, <5>4 DEF Back
        <5> QED
          BY <5>2, <5>5
      <4>2. Back(p) = Back(p + 1) + 1
        BY <2>3, <4>1
      <4> QED
        BY <2>3, <2>7, <3>1, <4>2
    <3> QED
      BY <3>2, <3>3
  <2> QED
    BY <2>8, <2>9
<1> QED
  BY <1>1, <1>2

(* Color Wipe changes one pixel. *)
LEMMA WipeMoves ==
    ASSUME NEW t \in Nat
    PROVE  /\ t < kWipe => Wiped(t) = {0}
           /\ \E i \in Index : SymDiff(Wiped(t), Wiped(t + kWipe)) = {i}
<1> DEFINE m == 2 * n
           q == t \div kWipe
           p == q % m
<1> USE nIs
<1>1. m \in Nat \ {0} /\ t + kWipe \in Nat /\ kWipe \in Nat \ {0}
  BY ParametersAre
<1>2. q \in Nat /\ (t + kWipe) \div kWipe = q + 1
  BY <1>1, Divides, NextQuotient
<1>3. t < kWipe => q = 0
  <2> SUFFICES ASSUME t < kWipe PROVE q = 0
    OBVIOUS
  <2>1. kWipe * 0 = 0 /\ t \in 0 .. kWipe - 1 /\ t = kWipe * 0 + t
    BY <1>1
  <2> QED
    BY <2>1, <1>1, DivisionIsUnique
<1>4. p \in 0 .. m - 1 /\ Wiped(t) = Wipe(p)
  BY WipedIs
<1>5. Wiped(t + kWipe) = Wipe((q + 1) % m)
  BY <1>1, <1>2, WipedIs
<1> HIDE DEF q
<1>6. (q + 1) % m = IF p = m - 1 THEN 0 ELSE p + 1
  BY <1>1, <1>2, NextRemainder
<1>7. t < kWipe => p = 0
  BY <1>1, <1>3
<1> HIDE DEF p
<1>8. t < kWipe => Wiped(t) = {0}
  BY <1>4, <1>7 DEF Wipe
<1>9. CASE p < n - 1
  <2>1. Wiped(t) = 0 .. p /\ Wiped(t + kWipe) = 0 .. p + 1
    BY <1>4, <1>5, <1>6, <1>9 DEF Wipe
  <2>2. SymDiff(0 .. p, 0 .. p + 1) = {p + 1} /\ p + 1 \in Index
    BY <1>4, <1>9 DEF SymDiff, Index
  <2> QED
    BY <1>8, <2>1, <2>2
<1>10. CASE p = n - 1
  <2>1. Wiped(t) = 0 .. n - 1 /\ Wiped(t + kWipe) = 1 .. n - 1
    <3>1. (q + 1) % m = n
      BY <1>6, <1>10
    <3>2. n - n + 1 = 1 /\ ~(n < n) /\ n - 1 < n
      OBVIOUS
    <3> QED
      BY <1>4, <1>5, <1>10, <3>1, <3>2 DEF Wipe
  <2>2. SymDiff(0 .. n - 1, 1 .. n - 1) = {0} /\ 0 \in Index
    BY DEF SymDiff, Index
  <2> QED
    BY <1>8, <2>1, <2>2
<1>11. CASE p >= n /\ p < m - 1
  <2>1. Wiped(t) = p - n + 1 .. n - 1 /\ Wiped(t + kWipe) = p + 1 - n + 1 .. n - 1
    BY <1>4, <1>5, <1>6, <1>11 DEF Wipe
  <2>2. SymDiff(p - n + 1 .. n - 1, p + 1 - n + 1 .. n - 1) = {p - n + 1}
        /\ p - n + 1 \in Index
    BY <1>4, <1>11 DEF SymDiff, Index
  <2> QED
    BY <1>8, <2>1, <2>2
<1>12. CASE p = m - 1
  <2>1. Wiped(t) = {} /\ Wiped(t + kWipe) = {0}
    <3>1. (q + 1) % m = 0 /\ ~(p < n) /\ p - n + 1 = n
      BY <1>6, <1>12
    <3>2. n .. n - 1 = {} /\ 0 .. 0 = {0}
      OBVIOUS
    <3>3. Wipe(p) = {}
      BY <3>1, <3>2 DEF Wipe
    <3>4. Wipe(0) = {0}
      BY <3>2, <1>1 DEF Wipe
    <3> QED
      BY <1>4, <1>5, <3>1, <3>3, <3>4
  <2>2. SymDiff({}, {0}) = {0} /\ 0 \in Index
    BY DEF SymDiff, Index
  <2> QED
    BY <1>8, <2>1, <2>2
<1> QED
  BY <1>4, <1>9, <1>10, <1>11, <1>12

LEMMA MovesByOneIs ==
    ASSUME elapsed \in Nat
    PROVE  MovesByOne
<1> DEFINE name == kEffectNames[sEffect + 1]
           period == IF name = "Color Wipe" THEN kWipe ELSE kChase
           now  == Lit(sEffect, elapsed)
           next == Lit(sEffect, elapsed + period)
           Moves == /\ name \in {"Chase", "Bounce", "Color Wipe"} /\ elapsed < period => now = {0}
                    /\ name = "Chase" => next = {(i + 1) % n : i \in now}
                    /\ name = "Bounce" /\ n > 1 =>
                         \A i \in now, j \in next : j = i + 1 \/ i = j + 1
                    /\ name = "Color Wipe" => Cardinality(SymDiff(now, next)) = 1
<1>1. SUFFICES Moves
  BY DEF MovesByOne
<1>2. CASE name = "Chase"
  <2>1. period = kChase /\ now = {(elapsed \div kChase) % n}
        /\ next = {((elapsed + kChase) \div kChase) % n}
    BY <1>2, LitIs
  <2> HIDE DEF name, period, now, next
  <2> QED
    BY <1>2, <2>1, ChaseMoves
<1>3. CASE name = "Bounce"
  <2>1. period = kChase /\ now = {BouncePos(elapsed)} /\ next = {BouncePos(elapsed + kChase)}
    BY <1>3, LitIs
  <2> HIDE DEF name, period, now, next
  <2> QED
    BY <1>3, <2>1, BounceMoves
<1>4. CASE name = "Color Wipe"
  <2>1. period = kWipe /\ now = Wiped(elapsed) /\ next = Wiped(elapsed + kWipe)
    BY <1>4, LitIs
  <2> HIDE DEF name, period, now, next
  <2>2. PICK i \in Index : SymDiff(now, next) = {i}
    BY <2>1, WipeMoves
  <2>3. Cardinality(SymDiff(now, next)) = 1
    BY <2>2, FS_Singleton
  <2>4. elapsed < period => now = {0}
    BY <2>1, WipeMoves
  <2> QED
    BY <1>4, <2>3, <2>4
<1>5. CASE name \notin {"Chase", "Bounce", "Color Wipe"}
  <2> HIDE DEF name
  <2> QED
    BY <1>5
<1> QED
  BY <1>2, <1>3, <1>4, <1>5

-----------------------------------------------------------------------------
(* What holds at every place of loop(). *)
PlaceOK == /\ pc \in {"web", "upload", "pad", "admin", "eyes", "paint", "wait"}
           /\ stick \in {"away", "centre"} \cup Hues

(* A pattern without sparks finds none. *)
PatternOK == /\ sEffect \in 0 .. kCount - 1
             /\ elapsed \in 0 .. Wrap - 1
             /\ sScratch \in [0 .. kMaxPixels - 1 -> 0 .. kSpark]
             /\ ~Sparkles => sScratch = NoSparks

AccentOK == /\ sAccent \in Colour /\ sDefaultAccent \in Colour
            /\ sPaletteIndex \in 0 .. kPaletteSize - 1

StripOK(x, s) == x \in [level : Level, pixels : [1 .. Counts[s] -> Pixel]]
Box(x) == x = [s \in Strip |-> x[s]] /\ \A s \in Strip : StripOK(x[s], s)

(* Every strip has the brightness its multipliers give. *)
LevelsOK == /\ sGlobalBrightness \in Level /\ sBlinkLevel \in Level
            /\ sStripDim \in [Strip -> Level]
            /\ Box(strips)
            /\ \A s \in Strip :
                 strips[s].level = Effective(sGlobalBrightness, sStripDim[s], sBlinkLevel)

IInv == PlaceOK /\ PatternOK /\ AccentOK /\ LevelsOK /\ ShownRight

LEMMA IInvType == IInv => TypeOK
<1> SUFFICES ASSUME IInv PROVE TypeOK
  OBVIOUS
<1>1. \A s \in Strip : strips[s] \in [level : Level, pixels : Seq(Pixel)]
  <2> SUFFICES ASSUME NEW s \in Strip PROVE strips[s] \in [level : Level, pixels : Seq(Pixel)]
    OBVIOUS
  <2>1. strips[s] \in [level : Level, pixels : [1 .. Counts[s] -> Pixel]]
    BY DEF IInv, LevelsOK, Box, StripOK
  <2>2. Counts[s] \in Nat /\ strips[s].pixels \in [1 .. Counts[s] -> Pixel]
    BY <2>1, CountsIs
  <2>3. strips[s].pixels \in Seq(Pixel)
    BY <2>2
  <2> QED
    BY <2>1, <2>3
<1>2. strips \in [Strip -> [level : Level, pixels : Seq(Pixel)]]
  BY <1>1 DEF IInv, LevelsOK, Box
<1> QED
  BY <1>2 DEF IInv, PlaceOK, PatternOK, AccentOK, LevelsOK, TypeOK

(* applyStripBrightness(): the product of three levels is one. *)
LEMMA EffectiveIn ==
    ASSUME NEW b \in Level, NEW d \in Level, NEW l \in Level
    PROVE  Effective(b, d, l) \in Level
<1> DEFINE x == b * d * l
           D == Full * Full
           q == x \div D
           r == x % D
<1>1. Full \in Nat \ {0} /\ D \in Nat \ {0}
  BY ParametersAre
<1>2. x \in Nat /\ x <= D * Full
  <2>1. b \in Nat /\ d \in Nat /\ l \in Nat /\ b <= Full /\ d <= Full /\ l <= Full
    BY <1>1 DEF Level
  <2>2. b * d \in Nat /\ b * d <= Full * d /\ Full * d <= Full * Full
    BY <2>1, <1>1
  <2>3. b * d <= D
    BY <2>1, <2>2, <1>1
  <2> DEFINE y == b * d
  <2>4. y \in Nat /\ y <= D
    BY <2>2, <2>3
  <2> HIDE DEF y, D
  <2>5. y * l \in Nat /\ y * l <= D * l /\ D * l <= D * Full
    BY <2>1, <2>4, <1>1
  <2>6. x = y * l
    BY DEF y
  <2> QED
    BY <2>1, <2>4, <2>5, <2>6, <1>1
<1> HIDE DEF x, D
<1>3. q \in Nat /\ r \in 0 .. D - 1 /\ x = D * q + r
  BY <1>1, <1>2, Divides
<1>4. Effective(b, d, l) = q
  BY DEF Effective, x, D
<1> HIDE DEF q, r
<1>5. q <= Full
  <2> SUFFICES ASSUME q >= Full + 1 PROVE FALSE
    BY <1>1, <1>3
  <2>1. D * q >= D * (Full + 1) /\ D * (Full + 1) = D * Full + D /\ D * q \in Nat
        /\ D * Full \in Nat
    BY <1>1, <1>3
  <2> QED
    BY <2>1, <1>1, <1>2, <1>3
<1> QED
  BY <1>1, <1>3, <1>4, <1>5 DEF Level

(* One multiplier at 0 puts the strip out. *)
LEMMA EffectiveZero ==
    ASSUME NEW d \in Level, NEW l \in Level
    PROVE  Effective(0, d, l) = 0 /\ 0 \in Level
<1>1. Full \in Nat \ {0} /\ d \in Nat /\ l \in Nat
  BY ParametersAre DEF Level
<1> DEFINE D == Full * Full
<1>2. 0 * d * l = 0 /\ D \in Nat \ {0}
  BY <1>1
<1> HIDE DEF D
<1>3. 0 \div D = 0
  <2>1. 0 = D * 0 + 0 /\ 0 \in 0 .. D - 1
    BY <1>2
  <2> QED
    BY <2>1, <1>2, DivisionIsUnique
<1> QED
  BY <1>1, <1>2, <1>3 DEF Effective, D, Level

(* Adafruit_NeoPixel::setBrightness() *)
LEMMA RescaledIs ==
    ASSUME NEW s \in Strip, NEW x, StripOK(x, s), NEW l \in Level
    PROVE  StripOK(Rescaled(x, l), s) /\ Rescaled(x, l).level = l
<1>1. x.level \in Level /\ x.pixels \in [1 .. Counts[s] -> Pixel]
  BY DEF StripOK
<1>2. CASE l = x.level
  BY <1>2 DEF Rescaled
<1>3. CASE l # x.level
  <2> DEFINE p == [k \in DOMAIN x.pixels |->
                     IF x.pixels[k] = "black" \/ 0 \in {x.level, l} THEN "black" ELSE "rough"]
  <2>1. Rescaled(x, l) = [level |-> l, pixels |-> p]
    BY <1>3 DEF Rescaled
  <2>2. p \in [1 .. Counts[s] -> Pixel]
    BY <1>1 DEF Pixel
  <2> HIDE DEF p
  <2> QED
    BY <2>1, <2>2 DEF StripOK
<1> QED
  BY <1>2, <1>3

LEMMA ApplyIs ==
    ASSUME Box(strips), NEW b \in Level, NEW dim \in [Strip -> Level], NEW l \in Level
    PROVE  /\ Box(Apply(b, dim, l))
           /\ \A s \in Strip : Apply(b, dim, l)[s].level = Effective(b, dim[s], l)
<1> DEFINE x == Apply(b, dim, l)
<1>1. ASSUME NEW s \in Strip
      PROVE  StripOK(x[s], s) /\ x[s].level = Effective(b, dim[s], l)
  <2>1. x[s] = Rescaled(strips[s], Effective(b, dim[s], l))
    BY DEF Apply
  <2>2. Effective(b, dim[s], l) \in Level /\ StripOK(strips[s], s)
    BY EffectiveIn DEF Box
  <2> QED
    BY <2>1, <2>2, RescaledIs
<1>2. x = [s \in Strip |-> x[s]]
  BY DEF Apply
<1> HIDE DEF x
<1>3. Box(x)
  BY <1>1, <1>2 DEF Box
<1> QED
  BY <1>1, <1>3 DEF x

(* Strips that were cleared, at any brightness. *)
LEMMA DarkIs ==
    ASSUME NEW f \in [Strip -> Level]
    PROVE  LET x == [s \in Strip |-> [level |-> f[s], pixels |-> Dark(s)]]
           IN  Box(x) /\ \A s \in Strip : x[s].level = f[s]
<1> DEFINE x == [s \in Strip |-> [level |-> f[s], pixels |-> Dark(s)]]
<1>1. ASSUME NEW s \in Strip
      PROVE  StripOK(x[s], s) /\ x[s].level = f[s]
  <2>1. Dark(s) \in [1 .. Counts[s] -> Pixel]
    BY DEF Dark, Pixel
  <2> QED
    BY <2>1 DEF StripOK
<1>2. x = [s \in Strip |-> x[s]]
  OBVIOUS
<1> HIDE DEF x
<1>3. Box(x)
  BY <1>1, <1>2 DEF Box
<1> QED
  BY <1>1, <1>3 DEF x

-----------------------------------------------------------------------------
(* Every index of the flattened strip is a pixel of some strip. *)
LEMMA AtAll ==
    ASSUME NEW i \in Index
    PROVE  \E s \in Strip : \E k \in 1 .. Counts[s] : i = At(s, k)
<1> DEFINE S == {s \in Strip : i < Offset[s]}
<1>1. i \in Nat /\ i < Offset[StripCount] /\ StripCount \in Strip /\ StripCount \in Nat
  BY nIs, CountsIs DEF Index, Strip
<1>2. S \in SUBSET Nat /\ S # {}
  BY <1>1 DEF Strip
<1>3. PICK s \in S : \A t \in S : s <= t
  <2> HIDE DEF S
  <2> QED
    BY <1>2, LeastOf
<1>4. /\ s \in Strip /\ i < Offset[s] /\ s \in 1 .. StripCount
      /\ Offset[s] = Offset[s - 1] + Counts[s] /\ Offset[s - 1] \in Nat /\ Counts[s] \in Nat
  BY <1>1, <1>3, OffsetIs, CountsIs DEF Strip
<1>5. Offset[s - 1] <= i
  <2>1. CASE s = 1
    BY <2>1, <1>1, OffsetIs
  <2>2. CASE s # 1
    <3>1. s - 1 \in Strip /\ s - 1 \notin S
      BY <2>2, <1>3, <1>4, <1>1 DEF Strip
    <3> QED
      BY <3>1, <1>1, <1>4
  <2> QED
    BY <2>1, <2>2
<1> DEFINE k == i - Offset[s - 1] + 1
<1>6. k \in 1 .. Counts[s] /\ i = At(s, k)
  BY <1>1, <1>4, <1>5 DEF At
<1> QED
  BY <1>4, <1>6

(* A frame reaches every pixel once: setPixelGlobal() on 0 .. n - 1.       *)
LEMMA WriteIs ==
    ASSUME Box(strips), NEW frame, NEW s \in Strip
    PROVE  Write(frame)[s] = [level  |-> strips[s].level,
                              pixels |-> [k \in 1 .. Counts[s] |->
                                IF strips[s].level = 0 THEN "black" ELSE frame[At(s, k)]]]
<1> DEFINE P(k) == \E i \in Index : resolveGlobalIndex(i) = <<s, k - 1>>
           c(k) == CHOOSE i \in Index : resolveGlobalIndex(i) = <<s, k - 1>>
           old == strips[s].pixels
           new == [k \in 1 .. Counts[s] |->
                     IF P(k) THEN IF strips[s].level = 0 THEN "black" ELSE frame[c(k)]
                     ELSE old[k]]
<1>1. Write(frame)[s] = [strips[s] EXCEPT !.pixels = new]
  BY DEF Write
<1>2. ASSUME NEW k \in 1 .. Counts[s] PROVE P(k) /\ c(k) = At(s, k)
  <2>1. At(s, k) \in Index /\ resolveGlobalIndex(At(s, k)) = <<s, k - 1>>
    BY AtIs
  <2>2. \A i \in Index : resolveGlobalIndex(i) = <<s, k - 1>> => i = At(s, k)
    BY AtOnly
  <2> QED
    BY <2>1, <2>2
<1> HIDE DEF P, c
<1>3. new = [k \in 1 .. Counts[s] |->
               IF strips[s].level = 0 THEN "black" ELSE frame[At(s, k)]]
  BY <1>2
<1> HIDE DEF new
<1>4. strips[s] \in [level : Level, pixels : [1 .. Counts[s] -> Pixel]]
  BY DEF Box, StripOK
<1>5. [strips[s] EXCEPT !.pixels = new] = [level |-> strips[s].level, pixels |-> new]
  BY <1>4
<1> QED
  BY <1>1, <1>3, <1>5

(* What a frame of one colour, or of the rainbow, leaves on the strips.    *)
Frame(V, C) == [i \in Index |-> IF i \notin V THEN "black" ELSE C]

LEMMA WriteFrame ==
    ASSUME Box(strips), NEW V, NEW C \in Pixel, strips' = Write(Frame(V, C))
    PROVE  /\ Box(strips')
           /\ \A s \in Strip : /\ strips'[s].level = strips[s].level
                               /\ Range(strips'[s].pixels) \subseteq {"black", C}
                               /\ strips'[s].level = 0 => strips'[s].pixels = Dark(s)
           /\ C # "black" /\ (\A s \in Strip : strips'[s].level > 0) => Glow' = V \cap Index
<1> DEFINE frame == Frame(V, C)
           row(s) == [k \in 1 .. Counts[s] |->
                        IF strips[s].level = 0 THEN "black" ELSE frame[At(s, k)]]
<1>1. \A s \in Strip : strips'[s] = [level |-> strips[s].level, pixels |-> row(s)]
  BY WriteIs
<1>2. \A i \in Index : frame[i] = IF i \notin V THEN "black" ELSE C
  BY DEF Frame
<1>3. strips' = [s \in Strip |-> strips'[s]]
  <2>1. strips' = Write(frame)
    OBVIOUS
  <2> HIDE DEF frame
  <2> QED
    BY <2>1 DEF Write
<1> HIDE DEF frame
<1>4. ASSUME NEW s \in Strip
      PROVE  /\ StripOK(strips'[s], s)
             /\ strips'[s].level = strips[s].level
             /\ Range(strips'[s].pixels) \subseteq {"black", C}
             /\ strips'[s].level = 0 => strips'[s].pixels = Dark(s)
  <2>1. \A k \in 1 .. Counts[s] : At(s, k) \in Index
    BY AtIs
  <2>2. \A k \in 1 .. Counts[s] : row(s)[k] \in {"black", C}
    BY <1>2, <2>1
  <2>3. row(s) \in [1 .. Counts[s] -> {"black", C}] /\ "black" \in Pixel
    BY <2>2 DEF Pixel
  <2>4. strips[s].level = 0 => row(s) = Dark(s)
    BY DEF Dark
  <2> DEFINE p == row(s)
  <2>5. strips'[s] = [level |-> strips[s].level, pixels |-> p]
    BY <1>1
  <2>6. strips[s].level \in Level
    BY DEF Box, StripOK
  <2> HIDE DEF row
  <2>7. StripOK(strips'[s], s)
    BY <2>3, <2>5, <2>6 DEF StripOK
  <2>8. Range(strips'[s].pixels) \subseteq {"black", C}
    <3>1. strips'[s].pixels \in [1 .. Counts[s] -> {"black", C}]
      BY <2>3, <2>5
    <3> QED
      BY <3>1 DEF Range
  <2> QED
    BY <2>4, <2>5, <2>7, <2>8
<1>5. Box(strips')
  BY <1>3, <1>4 DEF Box
<1>6. ASSUME C # "black", \A s \in Strip : strips'[s].level > 0 PROVE Glow' = V \cap Index
  <2>1. ASSUME NEW s \in Strip, NEW k \in 1 .. Counts[s]
        PROVE  At(s, k) \in Index /\ strips'[s].pixels[k] = frame[At(s, k)]
    <3>1. strips'[s].pixels = row(s) /\ strips'[s].level = strips[s].level
          /\ strips'[s].level > 0 /\ strips[s].level \in Level
      <4>1. strips'[s].pixels = row(s)
        <5> DEFINE p == row(s)
        <5>1. strips'[s] = [level |-> strips[s].level, pixels |-> p]
          BY <1>1
        <5> HIDE DEF p
        <5>2. strips'[s].pixels = p
          BY <5>1
        <5> QED
          BY <5>2 DEF p
      <4>2. strips[s].level \in Level
        BY DEF Box, StripOK
      <4> QED
        BY <1>4, <1>6, <4>1, <4>2
    <3>2. strips[s].level # 0
      BY <3>1 DEF Level
    <3> QED
      BY <3>1, <3>2, AtIs
  <2>2. \A i \in Index : frame[i] # "black" <=> i \in V
    BY <1>2, <1>6
  <2>3. Glow' = {i \in Index : \E s \in Strip : \E k \in 1 .. Counts[s] :
                   i = At(s, k) /\ strips'[s].pixels[k] # "black"}
    BY DEF Glow, At
  <2>4. ASSUME NEW i \in Glow' PROVE i \in V \cap Index
    BY <2>1, <2>2, <2>3, <2>4
  <2>5. ASSUME NEW i \in V \cap Index PROVE i \in Glow'
    <3>1. PICK s \in Strip : \E k \in 1 .. Counts[s] : i = At(s, k)
      BY AtAll
    <3>2. PICK k \in 1 .. Counts[s] : i = At(s, k)
      BY <3>1
    <3> QED
      BY <2>1, <2>2, <2>3, <3>2
  <2> QED
    BY <2>4, <2>5
<1> QED
  BY <1>4, <1>5, <1>6

-----------------------------------------------------------------------------
(* The pixels a pattern lights make its picture. *)
LEMMA VisibleIs ==
    ASSUME NEW trough \in BOOLEAN, ~Sparkles
    PROVE  Visible(trough) = IF kEffectNames[sEffect + 1] = "Breathe" /\ trough THEN {}
                             ELSE Lit(sEffect, elapsed)
BY DEF Visible

LEMMA PictureIs ==
    ASSUME NEW trough \in BOOLEAN, elapsed \in Nat, sEffect' = sEffect,
           Glow' = Visible(trough) \cap Index
    PROVE  Picture'
<1> DEFINE name == kEffectNames[sEffect + 1]
           t == elapsed
           G == Glow'
<1>1. SUFFICES /\ name \in {"Solid", "Solid Rainbow", "Rainbow Cycle", "Fire"} => G = Index
               /\ name \in {"Breathe", "Strobe"} => G \in {Index, {}}
               /\ name \in {"Chase", "Chasing Rainbow", "Bounce"} => Cardinality(G) = 1
               /\ name = "Theater Chase" => \E r \in 0 .. 2 : G = {i \in Index : i % 3 = r}
               /\ name = "Color Wipe" => \E i \in 0 .. n : G \in {0 .. i - 1, i .. n - 1}
  <2>1. kEffectNames[sEffect' + 1] = name
    OBVIOUS
  <2> HIDE DEF name
  <2> QED
    BY <2>1 DEF Picture
<1>2. ASSUME name \notin {"Confetti", "Twinkle"}
      PROVE  G = (IF name = "Breathe" /\ trough THEN {} ELSE Lit(sEffect, t)) \cap Index
  <2>1. ~Sparkles
    BY <1>2 DEF Sparkles
  <2> QED
    BY <2>1, VisibleIs
<1> HIDE DEF G
<1>3. CASE name \in {"Solid", "Solid Rainbow", "Rainbow Cycle", "Fire"}
  <2>1. Lit(sEffect, t) = Index
    BY <1>3, LitIs
  <2> HIDE DEF name
  <2>2. G = Index
    BY <1>2, <1>3, <2>1
  <2> QED
    BY <1>3, <2>2
<1>4. CASE name \in {"Breathe", "Strobe"}
  <2>1. Lit(sEffect, t) \in {Index, {}}
    BY <1>4, LitIs
  <2> HIDE DEF name
  <2>2. G \in {Index, {}}
    BY <1>2, <1>4, <2>1
  <2> QED
    BY <1>4, <2>2
<1>5. CASE name \in {"Chase", "Chasing Rainbow"}
  <2>1. Lit(sEffect, t) = {(t \div kChase) % n} /\ (t \div kChase) % n \in Index
    BY <1>5, LitIs, ChaseIs
  <2> HIDE DEF name
  <2>2. G = {(t \div kChase) % n}
    BY <1>2, <1>5, <2>1
  <2>3. Cardinality(G) = 1
    BY <2>2, FS_Singleton
  <2> QED
    BY <1>5, <2>3
<1>6. CASE name = "Bounce"
  <2>1. Lit(sEffect, t) = {BouncePos(t)} /\ BouncePos(t) \in Index
    BY <1>6, LitIs, BounceIn
  <2> HIDE DEF name
  <2>2. G = {BouncePos(t)}
    BY <1>2, <1>6, <2>1
  <2>3. Cardinality(G) = 1
    BY <2>2, FS_Singleton
  <2> QED
    BY <1>6, <2>3
<1>7. CASE name = "Theater Chase"
  <2> DEFINE q == t \div kTheater
             r == q % 3
  <2>1. Lit(sEffect, t) = {i \in Index : i % 3 = r}
    BY <1>7, LitIs
  <2>2. q \in Nat
    BY Divides, ParametersAre
  <2> HIDE DEF q
  <2>3. r \in 0 .. 2
    BY <2>2
  <2> HIDE DEF name, r
  <2>4. G = {i \in Index : i % 3 = r}
    BY <1>2, <1>7, <2>1
  <2> QED
    BY <1>7, <2>3, <2>4
<1>8. CASE name = "Color Wipe"
  <2> DEFINE p == (t \div kWipe) % (2 * n)
  <2>1. Lit(sEffect, t) = Wipe(p) /\ p \in 0 .. 2 * n - 1
    BY <1>8, LitIs, WipedIs
  <2> HIDE DEF name, p
  <2>2. Wipe(p) \subseteq Index
    BY <2>1, nIs DEF Wipe, Index
  <2>3. G = Wipe(p)
    BY <1>2, <1>8, <2>1, <2>2
  <2>4. CASE p < n
    <3>1. Wipe(p) = 0 .. (p + 1) - 1 /\ p + 1 \in 0 .. n
      <4>1. p \in Nat /\ (p + 1) - 1 = p /\ p + 1 \in 0 .. n
        BY <2>1, <2>4, nIs
      <4> QED
        BY <4>1, <2>4 DEF Wipe
    <3> QED
      BY <1>8, <2>3, <3>1
  <2>5. CASE ~(p < n)
    <3>1. Wipe(p) = p - n + 1 .. n - 1 /\ p - n + 1 \in 0 .. n
      <4>1. p - n + 1 \in 0 .. n
        BY <2>1, <2>5, nIs
      <4> QED
        BY <4>1, <2>5 DEF Wipe
    <3> QED
      BY <1>8, <2>3, <3>1
  <2> QED
    BY <2>4, <2>5
<1>9. CASE name \notin {"Solid", "Solid Rainbow", "Rainbow Cycle", "Fire", "Breathe", "Strobe",
                        "Chase", "Chasing Rainbow", "Bounce", "Theater Chase", "Color Wipe"}
  <2> HIDE DEF name
  <2> QED
    BY <1>9
<1> QED
  BY <1>3, <1>4, <1>5, <1>6, <1>7, <1>8, <1>9

(* updateAccentFromGamepad() leaves a colour that can be seen. *)
LEMMA AccentIn ==
    ASSUME PlaceOK, AccentOK
    PROVE  StickAccent \in Colour
<1>1. CASE stick = "away"
  BY <1>1 DEF StickAccent, AccentOK
<1>2. CASE stick = "centre"
  BY <1>2 DEF StickAccent, AccentOK
<1>3. CASE stick \notin {"away", "centre"}
  BY <1>3 DEF StickAccent, PlaceOK, Colour
<1> QED
  BY <1>1, <1>2, <1>3

LEMMA ColourSeen == "black" \notin Colour /\ Colour \subseteq Pixel /\ "rainbow" \in Pixel
BY LightsAssumption DEF Pixel

(* runConfetti(), runTwinkle() *)
LEMMA SparkKeeps ==
    ASSUME PatternOK, Spark, UNCHANGED <<sEffect, elapsed>>
    PROVE  PatternOK'
<1>1. Sparkles' <=> Sparkles
  BY DEF Sparkles
<1>2. CASE ~Sparkles
  <2>1. sScratch' = sScratch
    BY <1>2 DEF Spark
  <2> QED
    BY <1>1, <1>2, <2>1 DEF PatternOK, NoSparks
<1>3. CASE Sparkles
  <2>1. Faded \in [0 .. kMaxPixels - 1 -> 0 .. kSpark]
    BY ParametersAre DEF Faded, PatternOK
  <2>2. sScratch' \in {Faded} \cup {[Faded EXCEPT ![i] = kSpark] : i \in Index}
    BY <1>3 DEF Spark
  <2> HIDE DEF Faded
  <2>3. sScratch' \in [0 .. kMaxPixels - 1 -> 0 .. kSpark]
    BY <2>1, <2>2, ParametersAre
  <2> QED
    BY <1>1, <1>3, <2>3 DEF PatternOK
<1> QED
  BY <1>2, <1>3

LEMMA PaintKeeps ==
    ASSUME IInv, Paint
    PROVE  IInv'
<1>1. PICK trough \in BOOLEAN :
        /\ pc = "paint" /\ pc' = "wait"
        /\ sAccent' = StickAccent
        /\ strips' = Write([i \in Index |-> IF i \notin Visible(trough) THEN "black"
                                            ELSE IF Rainbow THEN "rainbow" ELSE sAccent'])
        /\ Spark
        /\ UNCHANGED <<stick, sEffect, elapsed, sDefaultAccent, sPaletteIndex,
                       sGlobalBrightness, sStripDim, sBlinkLevel>>
  BY DEF Paint, Goto
<1> DEFINE C == IF Rainbow THEN "rainbow" ELSE sAccent'
           V == Visible(trough)
<1>2. sAccent' \in Colour
  BY <1>1, AccentIn DEF IInv
<1>3. C \in Pixel /\ (C # "black")
  <2>1. CASE Rainbow
    BY <2>1, ColourSeen
  <2>2. CASE ~Rainbow
    BY <2>2, <1>2, ColourSeen
  <2> QED
    BY <2>1, <2>2
<1>4. C = IF Rainbow' THEN "rainbow" ELSE sAccent'
  <2>1. Rainbow' <=> Rainbow
    BY <1>1 DEF Rainbow
  <2> QED
    BY <2>1
<1>5. strips' = Write(Frame(V, C))
  BY <1>1 DEF Frame
<1> HIDE DEF C, V
<1>6. Box(strips)
  BY DEF IInv, LevelsOK
<1>7. /\ Box(strips')
      /\ \A s \in Strip : /\ strips'[s].level = strips[s].level
                          /\ Range(strips'[s].pixels) \subseteq {"black", C}
                          /\ strips'[s].level = 0 => strips'[s].pixels = Dark(s)
      /\ (\A s \in Strip : strips'[s].level > 0) => Glow' = V \cap Index
  BY <1>3, <1>5, <1>6, WriteFrame
<1>8. PlaceOK' /\ AccentOK'
  BY <1>1, <1>2 DEF IInv, PlaceOK, AccentOK
<1>9. PatternOK'
  BY <1>1, SparkKeeps DEF IInv
<1>10. LevelsOK'
  <2>1. \A s \in Strip :
          strips'[s].level = Effective(sGlobalBrightness', sStripDim'[s], sBlinkLevel')
    BY <1>1, <1>7 DEF IInv, LevelsOK
  <2> QED
    BY <1>1, <1>7, <2>1 DEF IInv, LevelsOK
<1>11. (\A s \in Strip : strips'[s].level > 0) => Picture'
  <2> SUFFICES ASSUME \A s \in Strip : strips'[s].level > 0 PROVE Picture'
    OBVIOUS
  <2>1. Glow' = Visible(trough) \cap Index
    BY <1>7 DEF V
  <2>2. elapsed \in Nat /\ sEffect' = sEffect
    BY <1>1, ParametersAre DEF IInv, PatternOK
  <2> QED
    BY <2>1, <2>2, PictureIs
<1>12. ShownRight'
  <2>1. \A s \in Strip :
          /\ strips'[s].level = Effective(sGlobalBrightness', sStripDim'[s], sBlinkLevel')
          /\ strips'[s].level = 0 => strips'[s].pixels = Dark(s)
          /\ Range(strips'[s].pixels)
               \subseteq {"black", IF Rainbow' THEN "rainbow" ELSE sAccent'}
    BY <1>4, <1>7, <1>10 DEF LevelsOK
  <2>2. ~Sparkles' => sScratch' = NoSparks
    BY <1>9 DEF PatternOK, NoSparks
  <2> QED
    BY <1>11, <2>1, <2>2 DEF ShownRight, NoSparks, Dark, Effective
<1> QED
  BY <1>8, <1>9, <1>10, <1>12 DEF IInv

-----------------------------------------------------------------------------
(* The other steps of loop(), each by what it writes. *)
LEMMA NamesAre == kCount \in Nat \ {0}
BY DEF kCount, kEffectNames

LEMMA PaletteIs ==
    /\ kPaletteSize \in Nat \ {0} /\ kDefaultPaletteIndex \in 0 .. kPaletteSize - 1
    /\ \A i \in 0 .. kPaletteSize - 1 : kRainbowPalette[i + 1] \in Colour
<1>1. kRainbowPalette \in Seq(Range(kRainbowPalette)) /\ kPaletteSize = Len(kRainbowPalette)
      /\ kDefaultPaletteIndex \in 0 .. Len(kRainbowPalette) - 1
  BY LightsAssumption DEF kPaletteSize
<1> DEFINE R == Range(kRainbowPalette)
<1>2. R \subseteq Colour
  BY DEF Colour
<1> HIDE DEF R
<1>3. kRainbowPalette \in Seq(R)
  BY <1>1 DEF R
<1>4. kPaletteSize \in Nat /\ \A i \in 0 .. kPaletteSize - 1 : kRainbowPalette[i + 1] \in R
  BY <1>1, <1>3
<1> QED
  BY <1>1, <1>2, <1>4

(* A new pattern starts without sparks. *)
LEMMA SetEffectKeeps ==
    ASSUME NEW e \in 0 .. kCount - 1, SetEffect(e)
    PROVE  PatternOK'
<1>1. NoSparks \in [0 .. kMaxPixels - 1 -> 0 .. kSpark] /\ 0 \in 0 .. Wrap - 1
  BY ParametersAre DEF NoSparks
<1>2. sScratch' = NoSparks /\ sEffect' = e /\ elapsed' = 0
  BY DEF SetEffect
<1> QED
  BY <1>1, <1>2 DEF PatternOK, NoSparks

LEMMA PatternStays == PatternOK /\ UNCHANGED pattern => PatternOK'
BY DEF PatternOK, pattern, NoSparks, Sparkles

LEMMA AccentStays == AccentOK /\ UNCHANGED accent => AccentOK'
BY DEF AccentOK, accent

LEMMA LevelsStay == LevelsOK /\ UNCHANGED levels => LevelsOK'
BY DEF LevelsOK, levels, Box, StripOK, Effective

(* The multipliers are written and every strip is given their product. *)
LEMMA ApplyKeeps ==
    ASSUME LevelsOK, sGlobalBrightness' \in Level, sBlinkLevel' \in Level,
           sStripDim' \in [Strip -> Level],
           strips' = Apply(sGlobalBrightness', sStripDim', sBlinkLevel')
    PROVE  LevelsOK'
<1> DEFINE b == sGlobalBrightness'
           dim == sStripDim'
           l == sBlinkLevel'
<1>1. Box(strips)
  BY DEF LevelsOK
<1> HIDE DEF b, dim, l
<1>2. b \in Level /\ dim \in [Strip -> Level] /\ l \in Level /\ strips' = Apply(b, dim, l)
  BY DEF b, dim, l
<1>3. Box(strips') /\ \A s \in Strip : strips'[s].level = Effective(b, dim[s], l)
  BY <1>1, <1>2, ApplyIs
<1> QED
  BY <1>2, <1>3 DEF LevelsOK, b, dim, l

(* Every strip is cleared. *)
LEMMA DarkKeeps ==
    ASSUME sGlobalBrightness' \in Level, sBlinkLevel' \in Level,
           sStripDim' \in [Strip -> Level],
           strips' = [s \in Strip |->
             [level  |-> Effective(sGlobalBrightness', sStripDim'[s], sBlinkLevel'),
              pixels |-> Dark(s)]]
    PROVE  LevelsOK'
<1> DEFINE f == [s \in Strip |-> Effective(sGlobalBrightness', sStripDim'[s], sBlinkLevel')]
<1>1. f \in [Strip -> Level]
  BY EffectiveIn
<1>2. strips' = [s \in Strip |-> [level |-> f[s], pixels |-> Dark(s)]]
  OBVIOUS
<1>3. \A s \in Strip : f[s] = Effective(sGlobalBrightness', sStripDim'[s], sBlinkLevel')
  OBVIOUS
<1> HIDE DEF f
<1>4. Box(strips') /\ \A s \in Strip : strips'[s].level = f[s]
  BY <1>1, <1>2, DarkIs
<1> QED
  BY <1>3, <1>4 DEF LevelsOK

(* Nothing is claimed of the picture before the frame is painted. *)
LEMMA NotYet == pc' # "wait" => ShownRight'
BY DEF ShownRight

LEMMA InitHolds == Init => IInv
<1> SUFFICES ASSUME Init PROVE IInv
  OBVIOUS
<1>1. PlaceOK
  BY DEF Init, PlaceOK
<1>2. PatternOK
  <2>1. NoSparks \in [0 .. kMaxPixels - 1 -> 0 .. kSpark] /\ 0 \in 0 .. Wrap - 1
    BY ParametersAre DEF NoSparks
  <2> QED
    BY <2>1, NamesAre DEF Init, PatternOK
<1>3. AccentOK
  BY PaletteIs DEF Init, AccentOK
<1>4. LevelsOK
  <2>1. Boot \in Level /\ Full \in Level
    BY ParametersAre DEF Level
  <2>2. sGlobalBrightness = Boot /\ sBlinkLevel = Full /\ sStripDim = [s \in Strip |-> Full]
        /\ strips = [s \in Strip |-> [level |-> Effective(Boot, Full, Full), pixels |-> Dark(s)]]
    BY DEF Init
  <2> DEFINE f == [s \in Strip |-> Effective(Boot, Full, Full)]
  <2>3. f \in [Strip -> Level] /\ \A s \in Strip : f[s] = Effective(Boot, sStripDim[s], Full)
    BY <2>1, <2>2, EffectiveIn
  <2>4. strips = [s \in Strip |-> [level |-> f[s], pixels |-> Dark(s)]]
    BY <2>2
  <2> HIDE DEF f
  <2>5. Box(strips) /\ \A s \in Strip : strips[s].level = f[s]
    BY <2>3, <2>4, DarkIs
  <2>6. sStripDim \in [Strip -> Level]
    BY <2>1, <2>2
  <2> QED
    BY <2>1, <2>2, <2>3, <2>5, <2>6 DEF LevelsOK
<1>5. ShownRight
  BY DEF Init, ShownRight
<1> QED
  BY <1>1, <1>2, <1>3, <1>4, <1>5 DEF IInv

(* The web page and the upload service. *)
LEMMA WebKeeps ==
    ASSUME IInv,
           \/ \E e \in 0 .. kCount - 1 : SelectEffect(e)
           \/ \E c \in Picks : SetColor(c)
           \/ \E v \in Level : WebBrightness(v)
           \/ NoRequest \/ NoUpload
    PROVE  IInv'
<1> USE DEF IInv
<1>1. ASSUME NEW e \in 0 .. kCount - 1, SelectEffect(e) PROVE IInv'
  <2>1. pc' = "upload" /\ stick' = stick /\ SetEffect(e) /\ UNCHANGED <<accent, levels>>
    BY <1>1 DEF SelectEffect, Goto
  <2> QED
    BY <2>1, SetEffectKeeps, AccentStays, LevelsStay, NotYet DEF PlaceOK
<1>2. ASSUME NEW c \in Picks, SetColor(c) PROVE IInv'
  <2>1. pc' = "upload" /\ stick' = stick /\ UNCHANGED <<pattern, levels>>
    BY <1>2 DEF SetColor, Goto
  <2>2. AccentOK'
    BY <1>2 DEF SetColor, AccentOK, Colour
  <2> QED
    BY <2>1, <2>2, PatternStays, LevelsStay, NotYet DEF PlaceOK
<1>3. ASSUME NEW v \in Level, WebBrightness(v) PROVE IInv'
  <2>1. pc' = "upload" /\ stick' = stick /\ UNCHANGED <<pattern, accent>>
    BY <1>3 DEF WebBrightness, Goto
  <2>2. LevelsOK'
    <3>1. /\ sGlobalBrightness' = v /\ sStripDim' = sStripDim /\ sBlinkLevel' = sBlinkLevel
          /\ strips' = Apply(v, sStripDim, sBlinkLevel)
      BY <1>3 DEF WebBrightness, setBrightness
    <3>2. /\ sGlobalBrightness' \in Level /\ sBlinkLevel' \in Level
          /\ sStripDim' \in [Strip -> Level]
      BY <3>1 DEF LevelsOK
    <3>3. strips' = Apply(sGlobalBrightness', sStripDim', sBlinkLevel')
      BY <3>1
    <3> QED
      BY <3>2, <3>3, ApplyKeeps
  <2> QED
    BY <2>1, <2>2, PatternStays, AccentStays, NotYet DEF PlaceOK
<1>4. CASE NoRequest \/ NoUpload
  <2>1. pc' \in {"upload", "pad"} /\ stick' = stick /\ UNCHANGED <<pattern, accent, levels>>
    BY <1>4 DEF NoRequest, NoUpload, Goto
  <2> QED
    BY <2>1, PatternStays, AccentStays, LevelsStay, NotYet DEF PlaceOK
<1> QED
  BY <1>1, <1>2, <1>3, <1>4

LEMMA UploadKeeps ==
    ASSUME IInv, UploadFails
    PROVE  IInv'
<1> USE DEF IInv
<1>1. pc' = "pad" /\ stick' = stick /\ UNCHANGED <<pattern, accent>>
  BY DEF UploadFails, Goto
<1>2. /\ sGlobalBrightness' = 0 /\ sStripDim' = sStripDim /\ sBlinkLevel' = sBlinkLevel
      /\ strips' = [s \in Strip |-> [level |-> 0, pixels |-> Dark(s)]]
  BY DEF UploadFails
<1>3. sStripDim \in [Strip -> Level] /\ sBlinkLevel \in Level
  BY DEF LevelsOK
<1>4. \A s \in Strip : Effective(0, sStripDim[s], sBlinkLevel) = 0
  BY <1>3, EffectiveZero
<1>5. 0 \in Level
  BY ParametersAre DEF Level
<1>6. strips' = [s \in Strip |->
             [level  |-> Effective(sGlobalBrightness', sStripDim'[s], sBlinkLevel'),
              pixels |-> Dark(s)]]
  BY <1>2, <1>4
<1>7. LevelsOK'
  BY <1>2, <1>3, <1>5, <1>6, DarkKeeps
<1> QED
  BY <1>1, <1>7, PatternStays, AccentStays, NotYet DEF PlaceOK

(* The gamepad. *)
LEMMA YKeeps ==
    ASSUME AccentOK, Y
    PROVE  AccentOK'
<1>1. CASE UNCHANGED accent
  BY <1>1, AccentStays
<1>2. CASE /\ sPaletteIndex' = (sPaletteIndex + 1) % kPaletteSize
           /\ sDefaultAccent' = kRainbowPalette[sPaletteIndex' + 1]
           /\ sAccent' = sDefaultAccent'
  <2>1. sPaletteIndex + 1 \in Nat /\ kPaletteSize \in Nat \ {0}
    BY PaletteIs DEF AccentOK
  <2>2. sPaletteIndex' \in 0 .. kPaletteSize - 1
    BY <1>2, <2>1, Divides
  <2> QED
    BY <1>2, <2>2, PaletteIs DEF AccentOK
<1>3. CASE sDefaultAccent' = sAccent /\ UNCHANGED <<sAccent, sPaletteIndex>>
  BY <1>3 DEF AccentOK
<1> QED
  BY <1>1, <1>2, <1>3 DEF Y

LEMMA BumpersKeep ==
    ASSUME PatternOK, Bumpers
    PROVE  PatternOK'
<1>1. CASE UNCHANGED pattern
  BY <1>1, PatternStays
<1>2. sEffect \in 0 .. kCount - 1 /\ sEffect + 1 \in Nat /\ sEffect + kCount - 1 \in Nat
      /\ kCount \in Nat \ {0}
  BY NamesAre DEF PatternOK
<1>3. (sEffect + 1) % kCount \in 0 .. kCount - 1
      /\ (sEffect + kCount - 1) % kCount \in 0 .. kCount - 1
  BY <1>2, Divides
<1>4. CASE SetEffect(sEffect)
  BY <1>2, <1>4, SetEffectKeeps
<1>5. CASE SetEffect((sEffect + 1) % kCount)
  BY <1>3, <1>5, SetEffectKeeps
<1>6. CASE SetEffect((sEffect + kCount - 1) % kCount)
  BY <1>3, <1>6, SetEffectKeeps
<1> QED
  BY <1>1, <1>4, <1>5, <1>6 DEF Bumpers

LEMMA TriggersIn ==
    ASSUME LevelsOK, NEW dim \in [{1, 2} -> Level], Triggers(dim)
    PROVE  sStripDim' \in [Strip -> Level]
<1>1. \A s \in Strip : s <= 2 => s \in {1, 2}
  BY CountsIs DEF Strip
<1> QED
  BY <1>1 DEF Triggers, LevelsOK

LEMMA PadKeeps ==
    ASSUME IInv, PadConnected \/ PadAway
    PROVE  IInv'
<1> USE DEF IInv
<1>1. CASE PadConnected
  <2>1. PICK axisX \in {"centre"} \cup Hues, dim \in [{1, 2} -> Level], v \in Level :
          /\ Goto("pad", "admin")
          /\ stick' = axisX
          /\ Bumpers /\ Y /\ Triggers(dim)
          /\ sGlobalBrightness' = v
          /\ strips' = Apply(v, sStripDim', sBlinkLevel)
          /\ UNCHANGED sBlinkLevel
    BY <1>1 DEF PadConnected
  <2>2. PlaceOK' /\ pc' # "wait"
    BY <2>1 DEF PlaceOK, Goto
  <2>3. PatternOK' /\ AccentOK'
    BY <2>1, BumpersKeep, YKeeps
  <2>4. sStripDim' \in [Strip -> Level] /\ sGlobalBrightness' \in Level /\ sBlinkLevel' \in Level
    BY <2>1, TriggersIn DEF LevelsOK
  <2>5. strips' = Apply(sGlobalBrightness', sStripDim', sBlinkLevel')
    BY <2>1
  <2>6. LevelsOK'
    BY <2>4, <2>5, ApplyKeeps
  <2> QED
    BY <2>2, <2>3, <2>6, NotYet
<1>2. CASE PadAway
  <2>1. /\ Goto("pad", "admin") /\ stick' = "away"
        /\ Triggers([s \in {1, 2} |-> Full])
        /\ strips' = Apply(sGlobalBrightness, sStripDim', sBlinkLevel)
        /\ UNCHANGED <<pattern, accent>>
        /\ sGlobalBrightness' = sGlobalBrightness /\ sBlinkLevel' = sBlinkLevel
    BY <1>2 DEF PadAway
  <2>2. PlaceOK' /\ pc' # "wait"
    BY <2>1 DEF PlaceOK, Goto
  <2> DEFINE dim == [s \in {1, 2} |-> Full]
  <2>3. dim \in [{1, 2} -> Level] /\ Triggers(dim)
    BY <2>1, ParametersAre DEF Level
  <2> HIDE DEF dim
  <2>4. sStripDim' \in [Strip -> Level] /\ sGlobalBrightness' \in Level /\ sBlinkLevel' \in Level
    BY <2>1, <2>3, TriggersIn DEF LevelsOK
  <2>5. strips' = Apply(sGlobalBrightness', sStripDim', sBlinkLevel')
    BY <2>1
  <2>6. LevelsOK'
    BY <2>4, <2>5, ApplyKeeps
  <2> QED
    BY <2>1, <2>2, <2>6, PatternStays, AccentStays, NotYet
<1> QED
  BY <1>1, <1>2

(* The admin flash and the blink of the eyes. *)
LEMMA AdminKeeps ==
    ASSUME IInv, AdminAck \/ NoAdmin
    PROVE  IInv'
<1> USE DEF IInv
<1>1. pc' = "eyes" /\ stick' = stick /\ UNCHANGED <<pattern, accent>>
  BY DEF AdminAck, NoAdmin, Goto
<1>2. CASE AdminAck
  <2>1. /\ sBlinkLevel' = Full
        /\ sGlobalBrightness' = sGlobalBrightness /\ sStripDim' = sStripDim
        /\ strips' = [s \in Strip |->
             [level |-> Effective(sGlobalBrightness, sStripDim[s], Full), pixels |-> Dark(s)]]
    BY <1>2 DEF AdminAck
  <2>2. sStripDim' \in [Strip -> Level] /\ sGlobalBrightness' \in Level /\ sBlinkLevel' \in Level
    BY <2>1, ParametersAre DEF LevelsOK, Level
  <2>3. strips' = [s \in Strip |->
             [level  |-> Effective(sGlobalBrightness', sStripDim'[s], sBlinkLevel'),
              pixels |-> Dark(s)]]
    BY <2>1
  <2>4. LevelsOK'
    BY <2>2, <2>3, DarkKeeps
  <2> QED
    BY <1>1, <2>4, PatternStays, AccentStays, NotYet DEF PlaceOK
<1>3. CASE NoAdmin
  <2>1. UNCHANGED levels
    BY <1>3 DEF NoAdmin
  <2> QED
    BY <1>1, <2>1, PatternStays, AccentStays, LevelsStay, NotYet DEF PlaceOK
<1> QED
  BY <1>2, <1>3

LEMMA EyesKeep ==
    ASSUME IInv, NEW v \in Level, Eyes(v)
    PROVE  IInv'
<1> USE DEF IInv
<1>1. pc' = "paint" /\ stick' = stick /\ UNCHANGED <<pattern, accent>> /\ setBlinkLevel(v)
  BY DEF Eyes, Goto
<1>2. LevelsOK'
  <2>1. CASE v = sBlinkLevel
    BY <1>1, <2>1, LevelsStay DEF setBlinkLevel
  <2>2. CASE v # sBlinkLevel
    <3>1. /\ sBlinkLevel' = v /\ sGlobalBrightness' = sGlobalBrightness /\ sStripDim' = sStripDim
          /\ strips' = Apply(sGlobalBrightness, sStripDim, v)
      BY <1>1, <2>2 DEF setBlinkLevel
    <3>2. /\ sStripDim' \in [Strip -> Level] /\ sGlobalBrightness' \in Level
          /\ sBlinkLevel' \in Level
      BY <3>1 DEF LevelsOK
    <3>3. strips' = Apply(sGlobalBrightness', sStripDim', sBlinkLevel')
      BY <3>1
    <3> QED
      BY <3>2, <3>3, ApplyKeeps
  <2> QED
    BY <2>1, <2>2
<1> QED
  BY <1>1, <1>2, PatternStays, AccentStays, NotYet DEF PlaceOK

LEMMA WaitKeeps ==
    ASSUME IInv, NEW d \in 1 .. MaxTurn, Wait(d)
    PROVE  IInv'
<1> USE DEF IInv
<1>1. /\ pc' = "web" /\ stick' = stick /\ UNCHANGED <<accent, levels>>
      /\ elapsed' = (elapsed + d) % Wrap /\ sEffect' = sEffect /\ sScratch' = sScratch
  BY DEF Wait, Goto
<1>2. elapsed' \in 0 .. Wrap - 1
  <2>1. elapsed + d \in Nat /\ Wrap \in Nat \ {0}
    BY ParametersAre DEF PatternOK
  <2> QED
    BY <1>1, <2>1, Divides
<1>3. PatternOK'
  BY <1>1, <1>2 DEF PatternOK, Sparkles, NoSparks
<1> QED
  BY <1>1, <1>3, AccentStays, LevelsStay, NotYet DEF PlaceOK

LEMMA Stutter == IInv /\ UNCHANGED vars => IInv'
<1> SUFFICES ASSUME IInv, UNCHANGED vars PROVE IInv'
  OBVIOUS
<1> USE DEF IInv
<1>1. UNCHANGED <<pattern, accent, levels>>
  BY DEF vars, pattern, accent, levels
<1>2. PatternOK' /\ AccentOK' /\ LevelsOK'
  BY <1>1, PatternStays, AccentStays, LevelsStay
<1>3. PlaceOK'
  BY DEF PlaceOK, vars
<1>4. ShownRight'
  <2>1. /\ pc' = pc /\ strips' = strips /\ sScratch' = sScratch /\ sAccent' = sAccent
        /\ sGlobalBrightness' = sGlobalBrightness /\ sStripDim' = sStripDim
        /\ sBlinkLevel' = sBlinkLevel /\ sEffect' = sEffect
    BY DEF vars
  <2>2. Glow' = Glow
    BY <2>1 DEF Glow
  <2>3. Picture' <=> Picture
    BY <2>1, <2>2 DEF Picture
  <2>4. (Rainbow' <=> Rainbow) /\ (Sparkles' <=> Sparkles)
    BY <2>1 DEF Rainbow, Sparkles
  <2> SUFFICES ASSUME pc' = "wait" PROVE ShownRight'
    BY DEF ShownRight
  <2>5. pc = "wait"
    BY <2>1
  <2>6. /\ \A s \in Strip :
             /\ strips[s].level = Effective(sGlobalBrightness, sStripDim[s], sBlinkLevel)
             /\ strips[s].level = 0 => strips[s].pixels = Dark(s)
             /\ Range(strips[s].pixels) \subseteq {"black", IF Rainbow THEN "rainbow" ELSE sAccent}
        /\ ~Sparkles => sScratch = NoSparks
        /\ (\A s \in Strip : strips[s].level > 0) => Picture
    BY <2>5 DEF ShownRight
  <2>7. \A s \in Strip :
             /\ strips'[s].level = Effective(sGlobalBrightness', sStripDim'[s], sBlinkLevel')
             /\ strips'[s].level = 0 => strips'[s].pixels = Dark(s)
             /\ Range(strips'[s].pixels)
                  \subseteq {"black", IF Rainbow' THEN "rainbow" ELSE sAccent'}
    BY <2>1, <2>4, <2>6
  <2>8. ~Sparkles' => sScratch' = NoSparks
    BY <2>1, <2>4, <2>6
  <2>9. (\A s \in Strip : strips'[s].level > 0) => Picture'
    BY <2>1, <2>3, <2>6
  <2> QED
    BY <2>7, <2>8, <2>9 DEF ShownRight, NoSparks, Dark, Effective
<1> QED
  BY <1>2, <1>3, <1>4

LEMMA NextKeeps == IInv /\ [Next]_vars => IInv'
<1> SUFFICES ASSUME IInv, [Next]_vars PROVE IInv'
  OBVIOUS
<1>1. CASE \/ \E e \in 0 .. kCount - 1 : SelectEffect(e)
           \/ \E c \in Picks : SetColor(c)
           \/ \E v \in Level : WebBrightness(v)
           \/ NoRequest \/ NoUpload
  BY <1>1, WebKeeps
<1>2. CASE UploadFails
  BY <1>2, UploadKeeps
<1>3. CASE PadConnected \/ PadAway
  BY <1>3, PadKeeps
<1>4. CASE AdminAck \/ NoAdmin
  BY <1>4, AdminKeeps
<1>5. ASSUME NEW v \in Level, Eyes(v) PROVE IInv'
  BY <1>5, EyesKeep
<1>6. CASE Paint
  BY <1>6, PaintKeeps
<1>7. ASSUME NEW d \in 1 .. MaxTurn, Wait(d) PROVE IInv'
  BY <1>7, WaitKeeps
<1>8. CASE UNCHANGED vars
  BY <1>8, Stutter
<1> QED
  BY <1>1, <1>2, <1>3, <1>4, <1>5, <1>6, <1>7, <1>8 DEF Next

LEMMA Invariance == Spec => []IInv
BY InitHolds, NextKeeps, PTL DEF Spec

-----------------------------------------------------------------------------
(* The pattern, the colours, the levels and the strips keep their types    *)
(* (light_effects.cpp, led_controller.cpp).                                *)
THEOREM TypeCorrect == Spec => []TypeOK
BY Invariance, IInvType, PTL

(* After every turn of loop() the strips show the picture of the pattern,  *)
(* in its colour and at the brightness of the three multipliers, on any    *)
(* number of strips of any length (LightEffects::update(),                 *)
(* resolveGlobalIndex(), applyStripBrightness()).                          *)
THEOREM ShownRightAlways == Spec => []ShownRight
<1>1. IInv => ShownRight
  BY DEF IInv
<1> QED
  BY <1>1, Invariance, PTL

(* Chase, Bounce and Color Wipe move by one pixel each period, wherever    *)
(* they are (runChase(), runBounce(), runColorWipe()).                     *)
THEOREM MovesByOneAlways == Spec => []MovesByOne
<1>1. IInv => MovesByOne
  BY MovesByOneIs, ParametersAre DEF IInv, PatternOK
<1> QED
  BY <1>1, Invariance, PTL
=============================================================================
