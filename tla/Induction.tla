----------------------------- MODULE Induction -----------------------------
(***************************************************************************)
(* Induction over numbers and sequences, with a set in the place of the    *)
(* predicate: to prove P(n) for every number n, take S = {n \in Nat : P(n)}*)
(* and show that S has 0 and with n also n + 1.  From it, what a recursive *)
(* function over an interval needs: that it exists, and that it is one.    *)
(***************************************************************************)
EXTENDS Integers, Sequences, WellFoundedInduction, TLAPS

Below == {pair \in Nat \X Nat : pair[1] < pair[2]}

LEMMA BelowWellFounded == IsWellFoundedOn(Below, Nat)
BY NatLessThanWellFounded DEF OpToRel, Below

(* A set of numbers that has 0 and all successors has every number: the     *)
(* least number outside of it would have a predecessor inside.              *)
LEMMA SetInduction ==
    ASSUME NEW S, 0 \in S, \A n \in Nat : n \in S => n + 1 \in S
    PROVE  \A n \in Nat : n \in S
<1> DEFINE T == Nat \ S
<1>1. SUFFICES ASSUME T # {} PROVE FALSE
    OBVIOUS
<1>2. PICK x \in T : \A y \in T : ~(<<y, x>> \in Below)
    BY <1>1, BelowWellFounded, WFMin
<1>3. x - 1 \in Nat /\ x - 1 < x
    OBVIOUS
<1>4. <<x - 1, x>> \in Below
    BY <1>3 DEF Below
<1>5. x - 1 \in S
    BY <1>2, <1>3, <1>4
<1> QED
    BY <1>3, <1>5

(* The same for the sequences over A, from the empty one by appending. *)
LEMMA AppendInduction ==
    ASSUME NEW A, NEW S, <<>> \in S,
           \A s \in Seq(A), a \in A : s \in S => Append(s, a) \in S
    PROVE  \A s \in Seq(A) : s \in S
<1> DEFINE Good == {n \in Nat : \A s \in Seq(A) : Len(s) = n => s \in S}
<1>1. 0 \in Good
    <2>1. \A s \in Seq(A) : Len(s) = 0 => s = <<>>
        OBVIOUS
    <2> QED
        BY <2>1
<1>2. ASSUME NEW n \in Nat, n \in Good PROVE n + 1 \in Good
    <2>1. SUFFICES ASSUME NEW s \in Seq(A), Len(s) = n + 1 PROVE s \in S
        OBVIOUS
    <2> DEFINE front == [i \in 1 .. n |-> s[i]]
    <2>2. /\ front \in Seq(A) /\ Len(front) = n /\ s[n + 1] \in A
          /\ s = Append(front, s[n + 1])
        BY <2>1
    <2>3. front \in S
        BY <1>2, <2>2
    <2> QED
        BY <2>2, <2>3
<1>3. \A n \in Nat : n \in Good
    <2> HIDE DEF Good
    <2> QED
        BY <1>1, <1>2, SetInduction
<1>4. \A s \in Seq(A) : Len(s) \in Nat
    OBVIOUS
<1> QED
    BY <1>3, <1>4

(* N functions on S, and the function that begins with z and goes on by     *)
(* applying them one after the other.                                       *)
Steps(N, S) == [1 .. N -> [S -> S]]

RunOf(f, N, z, G) == f[0] = z /\ \A i \in 1 .. N : f[i] = G[i][f[i - 1]]

LEMMA RecursionExists ==
    ASSUME NEW N \in Nat, NEW S, NEW z \in S, NEW G \in Steps(N, S)
    PROVE  \E f \in [0 .. N -> S] : RunOf(f, N, z, G)
<1> USE DEF Steps, RunOf
<1> DEFINE Good == {n \in Nat : n <= N =>
                       \E f \in [0 .. n -> S] :
                          f[0] = z /\ \A i \in 1 .. n : f[i] = G[i][f[i - 1]]}
<1>1. 0 \in Good
    <2> DEFINE f == [i \in 0 .. 0 |-> z]
    <2>1. f \in [0 .. 0 -> S] /\ f[0] = z /\ \A i \in 1 .. 0 : f[i] = G[i][f[i - 1]]
        OBVIOUS
    <2> QED
        BY <2>1
<1>2. ASSUME NEW n \in Nat, n \in Good PROVE n + 1 \in Good
    <2>1. SUFFICES ASSUME n + 1 <= N
                   PROVE  \E f \in [0 .. n + 1 -> S] :
                             /\ f[0] = z
                             /\ \A i \in 1 .. n + 1 : f[i] = G[i][f[i - 1]]
        OBVIOUS
    <2>2. PICK f \in [0 .. n -> S] :
                  f[0] = z /\ \A i \in 1 .. n : f[i] = G[i][f[i - 1]]
        BY <1>2, <2>1
    <2> DEFINE g == [i \in 0 .. n + 1 |-> IF i = n + 1 THEN G[n + 1][f[n]] ELSE f[i]]
    <2>3. G[n + 1] \in [S -> S] /\ f[n] \in S
        BY <2>1
    <2>4. g \in [0 .. n + 1 -> S] /\ g[0] = z
        BY <2>2, <2>3
    <2>5. ASSUME NEW i \in 1 .. n + 1 PROVE g[i] = G[i][g[i - 1]]
        <3>1. i - 1 \in 0 .. n /\ g[i - 1] = f[i - 1]
            OBVIOUS
        <3> QED
            BY <2>2, <3>1
    <2> QED
        BY <2>4, <2>5
<1>3. \A n \in Nat : n \in Good
    <2> HIDE DEF Good
    <2> QED
        BY <1>1, <1>2, SetInduction
<1> QED
    BY <1>3

(* Two functions that begin alike and go on alike are alike. *)
GoAlike(f, g, N) == f[0] = g[0] /\ \A i \in 1 .. N : f[i - 1] = g[i - 1] => f[i] = g[i]

LEMMA RecursionUnique ==
    ASSUME NEW N \in Nat, NEW f, NEW g, GoAlike(f, g, N)
    PROVE  \A i \in 0 .. N : f[i] = g[i]
<1> USE DEF GoAlike
<1> DEFINE Good == {n \in Nat : n <= N => f[n] = g[n]}
<1>1. 0 \in Good
    OBVIOUS
<1>2. ASSUME NEW n \in Nat, n \in Good PROVE n + 1 \in Good
    BY <1>2
<1>3. \A n \in Nat : n \in Good
    <2> HIDE DEF Good
    <2> QED
        BY <1>1, <1>2, SetInduction
<1> QED
    BY <1>3
=============================================================================
