---------------------------- MODULE WindowProofs ----------------------------
(***************************************************************************)
(* What Since and Total of CoreService compute, for all points: the first  *)
(* lemmas unfold the recursive functions that define them, one point at a  *)
(* time; the others follow by induction over the sequence of points.       *)
(***************************************************************************)
EXTENDS CoreService, Induction

-----------------------------------------------------------------------------
(* The recursive functions.                                                 *)

KeepOne(kept, p, from) == IF p.ts >= from THEN Append(kept, p) ELSE kept

Keeps(kept, points, from) ==
    kept = [i \in 0 .. Len(points) |->
              IF i = 0 THEN <<>> ELSE KeepOne(kept[i - 1], points[i], from)]

Sums(sum, points, field) ==
    sum = [i \in 0 .. Len(points) |->
             IF i = 0 THEN 0 ELSE sum[i - 1] + points[i][field]]

LEMMA KeptExists ==
    ASSUME NEW points \in Seq(Point), NEW from \in Int
    PROVE  \E kept \in [0 .. Len(points) -> Seq(Point)] : Keeps(kept, points, from)
<1> DEFINE N == Len(points)
           G == [i \in 1 .. N |-> [k \in Seq(Point) |-> KeepOne(k, points[i], from)]]
<1>1. \A i \in 1 .. N : \A k \in Seq(Point) : KeepOne(k, points[i], from) \in Seq(Point)
    BY DEF KeepOne
<1>2. N \in Nat /\ <<>> \in Seq(Point) /\ G \in Steps(N, Seq(Point))
    BY <1>1 DEF Steps
<1>3. PICK kept \in [0 .. N -> Seq(Point)] : RunOf(kept, N, <<>>, G)
    <2> HIDE DEF G
    <2> QED
        BY <1>2, RecursionExists
<1>4. ASSUME NEW i \in 0 .. N
      PROVE  kept[i] = IF i = 0 THEN <<>> ELSE KeepOne(kept[i - 1], points[i], from)
    <2>1. CASE i = 0
        BY <1>3, <2>1 DEF RunOf
    <2>2. CASE i # 0
        <3>1. i \in 1 .. N /\ kept[i - 1] \in Seq(Point)
            BY <2>2
        <3> QED
            BY <1>3, <3>1 DEF RunOf
    <2> QED
        BY <2>1, <2>2
<1> QED
    BY <1>4 DEF Keeps

LEMMA SumsExists ==
    ASSUME NEW points \in Seq(Point), NEW field \in {"bets", "liability"}
    PROVE  \E sum \in [0 .. Len(points) -> Int] : Sums(sum, points, field)
<1> DEFINE N == Len(points)
           G == [i \in 1 .. N |-> [k \in Int |-> k + points[i][field]]]
<1>1. \A p \in Point : p[field] \in Int
    BY DEF Point
<1>2. \A i \in 1 .. N : points[i][field] \in Int
    BY <1>1
<1>3. N \in Nat /\ 0 \in Int /\ G \in Steps(N, Int)
    BY <1>2 DEF Steps
<1>4. PICK sum \in [0 .. N -> Int] : RunOf(sum, N, 0, G)
    <2> HIDE DEF G
    <2> QED
        BY <1>3, RecursionExists
<1>5. ASSUME NEW i \in 0 .. N
      PROVE  sum[i] = IF i = 0 THEN 0 ELSE sum[i - 1] + points[i][field]
    <2>1. CASE i = 0
        BY <1>4, <2>1 DEF RunOf
    <2>2. CASE i # 0
        <3>1. i \in 1 .. N /\ sum[i - 1] \in Int
            BY <2>2
        <3> QED
            BY <1>4, <3>1 DEF RunOf
    <2> QED
        BY <2>1, <2>2
<1> QED
    BY <1>5 DEF Sums

LEMMA KeepsGoOn ==
    ASSUME NEW points \in Seq(Point), NEW from, NEW k, Keeps(k, points, from)
    PROVE  /\ k[0] = <<>>
           /\ \A i \in 1 .. Len(points) : k[i] = KeepOne(k[i - 1], points[i], from)
<1>1. k[0] = <<>>
    BY DEF Keeps
<1>2. \A i \in 1 .. Len(points) : k[i] = KeepOne(k[i - 1], points[i], from)
    BY DEF Keeps
<1> QED
    BY <1>1, <1>2

LEMMA SumsGoOn ==
    ASSUME NEW points \in Seq(Point), NEW field, NEW k, Sums(k, points, field)
    PROVE  /\ k[0] = 0
           /\ \A i \in 1 .. Len(points) : k[i] = k[i - 1] + points[i][field]
<1>1. k[0] = 0
    BY DEF Sums
<1>2. \A i \in 1 .. Len(points) : k[i] = k[i - 1] + points[i][field]
    BY DEF Sums
<1> QED
    BY <1>1, <1>2

(* The functions that Since and Total choose are the only ones, and so are  *)
(* of the right kind.                                                       *)
LEMMA KeptUnique ==
    ASSUME NEW points \in Seq(Point), NEW from, NEW k, NEW l,
           Keeps(k, points, from), Keeps(l, points, from)
    PROVE  k = l
<1>1. k[0] = l[0] /\ Len(points) \in Nat
    BY KeepsGoOn
<1>2. /\ \A i \in 1 .. Len(points) : k[i] = KeepOne(k[i - 1], points[i], from)
      /\ \A i \in 1 .. Len(points) : l[i] = KeepOne(l[i - 1], points[i], from)
    BY KeepsGoOn
<1>3. GoAlike(k, l, Len(points))
    BY <1>1, <1>2 DEF GoAlike
<1>4. \A i \in 0 .. Len(points) : k[i] = l[i]
    BY <1>1, <1>3, RecursionUnique
<1>5. k = [i \in 0 .. Len(points) |-> k[i]] /\ l = [i \in 0 .. Len(points) |-> l[i]]
    BY DEF Keeps
<1> QED
    BY <1>4, <1>5

LEMMA SumsUnique ==
    ASSUME NEW points \in Seq(Point), NEW field, NEW k, NEW l,
           Sums(k, points, field), Sums(l, points, field)
    PROVE  k = l
<1>1. k[0] = l[0] /\ Len(points) \in Nat
    BY SumsGoOn
<1>2. /\ \A i \in 1 .. Len(points) : k[i] = k[i - 1] + points[i][field]
      /\ \A i \in 1 .. Len(points) : l[i] = l[i - 1] + points[i][field]
    BY SumsGoOn
<1>3. GoAlike(k, l, Len(points))
    BY <1>1, <1>2 DEF GoAlike
<1>4. \A i \in 0 .. Len(points) : k[i] = l[i]
    BY <1>1, <1>3, RecursionUnique
<1>5. k = [i \in 0 .. Len(points) |-> k[i]] /\ l = [i \in 0 .. Len(points) |-> l[i]]
    BY DEF Sums
<1> QED
    BY <1>4, <1>5

LEMMA SinceKept ==
    ASSUME NEW points \in Seq(Point), NEW from \in Int
    PROVE  \E kept \in [0 .. Len(points) -> Seq(Point)] :
              Keeps(kept, points, from) /\ Since(points, from) = kept[Len(points)]
<1> DEFINE chosen == CHOOSE kept : Keeps(kept, points, from)
<1>1. Since(points, from) = chosen[Len(points)]
    BY DEF Since, Keeps, KeepOne
<1>2. Keeps(chosen, points, from)
    BY KeptExists
<1> HIDE DEF chosen
<1>3. PICK kept \in [0 .. Len(points) -> Seq(Point)] : Keeps(kept, points, from)
    BY KeptExists
<1>4. chosen = kept
    BY <1>2, <1>3, KeptUnique
<1> QED
    BY <1>1, <1>3, <1>4

LEMMA TotalSums ==
    ASSUME NEW points \in Seq(Point), NEW field \in {"bets", "liability"}
    PROVE  \E sum \in [0 .. Len(points) -> Int] :
              Sums(sum, points, field) /\ Total(points, field) = sum[Len(points)]
<1> DEFINE chosen == CHOOSE sum : Sums(sum, points, field)
<1>1. Total(points, field) = chosen[Len(points)]
    BY DEF Total, Sums
<1>2. Sums(chosen, points, field)
    BY SumsExists
<1> HIDE DEF chosen
<1>3. PICK sum \in [0 .. Len(points) -> Int] : Sums(sum, points, field)
    BY SumsExists
<1>4. chosen = sum
    BY <1>2, <1>3, SumsUnique
<1> QED
    BY <1>1, <1>3, <1>4

-----------------------------------------------------------------------------
(* Their values, point by point.                                            *)

LEMMA SinceEmpty == \A from \in Int : Since(<<>>, from) = <<>>
<1> SUFFICES ASSUME NEW from \in Int PROVE Since(<<>>, from) = <<>>
    OBVIOUS
<1>1. <<>> \in Seq(Point) /\ Len(<<>>) = 0
    OBVIOUS
<1>2. PICK kept : Keeps(kept, <<>>, from) /\ Since(<<>>, from) = kept[0]
    BY <1>1, SinceKept
<1> QED
    BY <1>1, <1>2 DEF Keeps

LEMMA SinceType ==
    ASSUME NEW points \in Seq(Point), NEW from \in Int
    PROVE  Since(points, from) \in Seq(Point)
BY SinceKept

LEMMA SinceAppend ==
    ASSUME NEW points \in Seq(Point), NEW p \in Point, NEW from \in Int
    PROVE  Since(Append(points, p), from) = KeepOne(Since(points, from), p, from)
<1> DEFINE n   == Len(points)
           new == Append(points, p)
<1>0. n \in Nat
    OBVIOUS
<1>1. /\ n \in Nat /\ new \in Seq(Point) /\ Len(new) = n + 1 /\ new[n + 1] = p
      /\ \A i \in 1 .. n : new[i] = points[i]
    OBVIOUS
<1> HIDE DEF n, new
<1>2. PICK k : Keeps(k, points, from) /\ Since(points, from) = k[n]
    BY SinceKept DEF n
<1>3. PICK l : Keeps(l, new, from) /\ Since(new, from) = l[n + 1]
    BY <1>1, SinceKept
<1>4. k[0] = l[0]
    BY <1>1, <1>2, <1>3, KeepsGoOn
<1>5. \A i \in 1 .. n : k[i] = KeepOne(k[i - 1], points[i], from)
    BY <1>2, KeepsGoOn DEF n
<1>6. \A i \in 1 .. Len(new) : l[i] = KeepOne(l[i - 1], new[i], from)
    BY <1>1, <1>3, KeepsGoOn
<1>7. k[n] = l[n]
    <2>1. GoAlike(k, l, n)
        BY <1>1, <1>4, <1>5, <1>6 DEF GoAlike
    <2>2. \A i \in 0 .. n : k[i] = l[i]
        BY <1>0, <2>1, RecursionUnique
    <2> QED
        BY <1>1, <2>2
<1>8. l[n + 1] = KeepOne(l[n], p, from)
    <2>1. n + 1 \in 1 .. Len(new) /\ n + 1 - 1 = n
        BY <1>1
    <2> QED
        BY <1>1, <1>6, <2>1
<1> QED
    BY <1>2, <1>3, <1>7, <1>8 DEF new

LEMMA TotalEmpty == \A field \in {"bets", "liability"} : Total(<<>>, field) = 0
<1> SUFFICES ASSUME NEW field \in {"bets", "liability"} PROVE Total(<<>>, field) = 0
    OBVIOUS
<1>1. <<>> \in Seq(Point) /\ Len(<<>>) = 0
    OBVIOUS
<1>2. PICK sum : Sums(sum, <<>>, field) /\ Total(<<>>, field) = sum[0]
    BY <1>1, TotalSums
<1> QED
    BY <1>1, <1>2 DEF Sums

LEMMA TotalType ==
    ASSUME NEW points \in Seq(Point), NEW field \in {"bets", "liability"}
    PROVE  Total(points, field) \in Int
BY TotalSums

LEMMA TotalAppend ==
    ASSUME NEW points \in Seq(Point), NEW p \in Point, NEW field \in {"bets", "liability"}
    PROVE  Total(Append(points, p), field) = Total(points, field) + p[field]
<1> DEFINE n   == Len(points)
           new == Append(points, p)
<1>0. n \in Nat
    OBVIOUS
<1>1. /\ n \in Nat /\ new \in Seq(Point) /\ Len(new) = n + 1 /\ new[n + 1] = p
      /\ \A i \in 1 .. n : new[i] = points[i]
    OBVIOUS
<1> HIDE DEF n, new
<1>2. PICK k : Sums(k, points, field) /\ Total(points, field) = k[n]
    BY TotalSums DEF n
<1>3. PICK l : Sums(l, new, field) /\ Total(new, field) = l[n + 1]
    BY <1>1, TotalSums
<1>4. k[0] = l[0]
    BY <1>1, <1>2, <1>3, SumsGoOn
<1>5. \A i \in 1 .. n : k[i] = k[i - 1] + points[i][field]
    BY <1>2, SumsGoOn DEF n
<1>6. \A i \in 1 .. Len(new) : l[i] = l[i - 1] + new[i][field]
    BY <1>1, <1>3, SumsGoOn
<1>7. k[n] = l[n]
    <2>0. \A i \in 1 .. n : l[i] = l[i - 1] + points[i][field]
        <3>1. \A i \in 1 .. n : i \in 1 .. Len(new)
            BY <1>1
        <3> QED
            BY <1>1, <1>6, <3>1, Zenon
    <2>1. GoAlike(k, l, n)
        BY <1>4, <1>5, <2>0, Zenon DEF GoAlike
    <2>2. \A i \in 0 .. n : k[i] = l[i]
        BY <1>0, <2>1, RecursionUnique
    <2> QED
        BY <1>1, <2>2
<1>8. l[n + 1] = l[n] + p[field]
    <2>1. n + 1 \in 1 .. Len(new) /\ n + 1 - 1 = n
        BY <1>1
    <2> QED
        BY <1>1, <1>6, <2>1
<1> QED
    BY <1>2, <1>3, <1>7, <1>8 DEF new

LEMMA MetricsType == \A points \in Seq(Point) : Metrics(points) \in WindowMetrics
BY TotalType DEF Metrics, WindowMetrics

-----------------------------------------------------------------------------
(* By induction over the points.                                            *)

(* To keep what is after a and then what is after b >= a is to keep what is *)
(* after b: this is why an early pruning does no harm.                      *)
LEMMA SinceTwice ==
    ASSUME NEW a \in Int, NEW b \in Int, a <= b
    PROVE  \A points \in Seq(Point) : Since(Since(points, a), b) = Since(points, b)
<1> DEFINE Good == {s \in Seq(Point) : Since(Since(s, a), b) = Since(s, b)}
<1>1. <<>> \in Good
    BY SinceEmpty
<1>2. ASSUME NEW s \in Seq(Point), NEW p \in Point, s \in Good
      PROVE  Append(s, p) \in Good
    <2> SUFFICES Since(Since(Append(s, p), a), b) = Since(Append(s, p), b)
        OBVIOUS
    <2> DEFINE t == Since(s, a)
    <2>1. t \in Seq(Point) /\ Since(t, b) = Since(s, b)
        BY <1>2, SinceType
    <2> HIDE DEF t
    <2>2. Since(Append(s, p), b) = KeepOne(Since(s, b), p, b)
        BY SinceAppend
    <2>3. Since(Append(s, p), a) = KeepOne(t, p, a)
        BY SinceAppend DEF t
    <2>4. p.ts \in Int
        BY DEF Point
    <2>5. CASE p.ts >= a
        <3>1. Since(Append(s, p), a) = Append(t, p)
            BY <2>3, <2>5 DEF KeepOne
        <3>2. Since(Append(t, p), b) = KeepOne(Since(t, b), p, b)
            BY <2>1, SinceAppend
        <3> QED
            BY <2>1, <2>2, <3>1, <3>2
    <2>6. CASE ~(p.ts >= a)
        <3>1. Since(Append(s, p), a) = t
            BY <2>3, <2>6 DEF KeepOne
        <3>2. Since(Append(s, p), b) = Since(s, b)
            BY <2>2, <2>4, <2>6 DEF KeepOne
        <3> QED
            BY <2>1, <3>1, <3>2
    <2> QED
        BY <2>5, <2>6
<1>3. \A s \in Seq(Point) : s \in Good
    <2> HIDE DEF Good
    <2> QED
        BY <1>1, <1>2, AppendInduction
<1> QED
    BY <1>3

(* Every point of k is one of s. *)
Among(k, s) == \A i \in DOMAIN k : \E j \in DOMAIN s : k[i] = s[j]

LEMMA AmongAppend ==
    ASSUME NEW k \in Seq(Point), NEW s \in Seq(Point), NEW p \in Point, Among(k, s)
    PROVE  Among(k, Append(s, p)) /\ Among(Append(k, p), Append(s, p))
<1>1. \A j \in DOMAIN s : j \in DOMAIN Append(s, p) /\ Append(s, p)[j] = s[j]
    OBVIOUS
<1>2. Among(k, Append(s, p))
    BY <1>1 DEF Among
<1>3. ASSUME NEW i \in DOMAIN Append(k, p)
      PROVE  \E j \in DOMAIN Append(s, p) : Append(k, p)[i] = Append(s, p)[j]
    <2>1. CASE i \in DOMAIN k
        <3>1. Append(k, p)[i] = k[i]
            BY <2>1
        <3> QED
            BY <1>2, <2>1, <3>1 DEF Among
    <2>2. CASE i \notin DOMAIN k
        <3>1. Append(k, p)[i] = p
            BY <1>3, <2>2
        <3>2. Len(s) + 1 \in DOMAIN Append(s, p) /\ Append(s, p)[Len(s) + 1] = p
            OBVIOUS
        <3> QED
            BY <3>1, <3>2
    <2> QED
        BY <2>1, <2>2
<1> QED
    BY <1>2, <1>3 DEF Among

LEMMA AmongTransitive ==
    \A k, l, s : Among(k, l) /\ Among(l, s) => Among(k, s)
BY DEF Among

(* What is kept is a part. *)
LEMMA SinceElements ==
    ASSUME NEW from \in Int
    PROVE  \A points \in Seq(Point) : Among(Since(points, from), points)
<1> DEFINE Good == {s \in Seq(Point) : Among(Since(s, from), s)}
<1>1. <<>> \in Good
    BY SinceEmpty DEF Among
<1>2. ASSUME NEW s \in Seq(Point), NEW p \in Point, s \in Good
      PROVE  Append(s, p) \in Good
    <2> SUFFICES Among(Since(Append(s, p), from), Append(s, p))
        OBVIOUS
    <2> DEFINE k == Since(s, from)
    <2>1. k \in Seq(Point) /\ Among(k, s)
        BY <1>2, SinceType
    <2>2. Since(Append(s, p), from) = KeepOne(k, p, from)
        BY SinceAppend
    <2> HIDE DEF k
    <2> QED
        BY <2>1, <2>2, AmongAppend DEF KeepOne
<1>3. \A s \in Seq(Point) : s \in Good
    <2> HIDE DEF Good
    <2> QED
        BY <1>1, <1>2, AppendInduction
<1> QED
    BY <1>3

(* Points without negative bets. *)
Grows(points) == \A i \in DOMAIN points : points[i].bets >= 0

LEMMA GrowsPart == \A k, s : Among(k, s) /\ Grows(s) => Grows(k)
BY DEF Among, Grows

LEMMA GrowsAppend ==
    ASSUME NEW s \in Seq(Point), NEW p \in Point
    PROVE  Grows(Append(s, p)) <=> Grows(s) /\ p.bets >= 0
<1>1. \A j \in DOMAIN s : j \in DOMAIN Append(s, p) /\ Append(s, p)[j] = s[j]
    OBVIOUS
<1>2. Len(s) + 1 \in DOMAIN Append(s, p) /\ Append(s, p)[Len(s) + 1] = p
    OBVIOUS
<1>3. \A j \in DOMAIN Append(s, p) : j \in DOMAIN s \/ j = Len(s) + 1
    OBVIOUS
<1> QED
    BY <1>1, <1>2, <1>3 DEF Grows

(* Of such points a part has at most the bets of the whole. *)
LEMMA PartialTotal ==
    ASSUME NEW from \in Int
    PROVE  \A points \in Seq(Point) : Grows(points) =>
              /\ 0 <= Total(Since(points, from), "bets")
              /\ Total(Since(points, from), "bets") <= Total(points, "bets")
<1> DEFINE Bets(s) == Total(s, "bets")
           Good == {s \in Seq(Point) : Grows(s) =>
                       0 <= Bets(Since(s, from)) /\ Bets(Since(s, from)) <= Bets(s)}
<1>1. <<>> \in Good
    BY SinceEmpty, TotalEmpty
<1>2. ASSUME NEW s \in Seq(Point), NEW p \in Point, s \in Good
      PROVE  Append(s, p) \in Good
    <2> DEFINE k == Since(s, from)
    <2>1. SUFFICES ASSUME Grows(Append(s, p))
                   PROVE  /\ 0 <= Bets(Since(Append(s, p), from))
                          /\ Bets(Since(Append(s, p), from)) <= Bets(Append(s, p))
        OBVIOUS
    <2>2. Grows(s) /\ p.bets >= 0
        BY <2>1, GrowsAppend
    <2>3. k \in Seq(Point) /\ 0 <= Bets(k) /\ Bets(k) <= Bets(s)
        BY <1>2, <2>2, SinceType
    <2>4. Since(Append(s, p), from) \in {k, Append(k, p)}
        BY SinceAppend DEF KeepOne
    <2> HIDE DEF k
    <2>5. /\ Bets(Append(s, p)) = Bets(s) + p.bets
          /\ Bets(Append(k, p)) = Bets(k) + p.bets
          /\ Bets(s) \in Int /\ Bets(k) \in Int /\ p.bets \in Int
        BY <2>3, TotalAppend, TotalType DEF Point
    <2>6. CASE Since(Append(s, p), from) = k
        BY <2>2, <2>3, <2>5, <2>6
    <2>7. CASE Since(Append(s, p), from) = Append(k, p)
        BY <2>2, <2>3, <2>5, <2>7
    <2> QED
        BY <2>4, <2>6, <2>7
<1>3. \A s \in Seq(Point) : s \in Good
    <2> HIDE DEF Good
    <2> QED
        BY <1>1, <1>2, AppendInduction
<1> QED
    BY <1>3
=============================================================================
