--------------------------- MODULE AtcTowerUpdate ---------------------------
(***************************************************************************)
(* What the loops of C atc along a list do, for lists of any length: which *)
(* planes a list has, that append and delete keep it whole, and what the   *)
(* whole of update() makes of the lists, the flights and the counts.       *)
(***************************************************************************)
EXTENDS AtcTower, FiniteSetTheorems, FunctionTheorems, SequenceTheorems, TLAPS

-----------------------------------------------------------------------------
(* Numbers *)

(* Every nonempty set of numbers has a least one.                          *)
LEMMA LeastNat ==
  ASSUME NEW T \in SUBSET Nat, T # {}
  PROVE  \E m \in T : \A n \in T : m <= n
<1>1. PICK m \in T : \A n \in T : << n, m >> \notin OpToRel(<, Nat)
  BY WFMin, NatLessThanWellFounded, Zenon
<1>2. \A n \in T : ~(n < m)
  BY <1>1, Zenon DEF OpToRel
<1>3. QED
  BY <1>2

(* Induction along a loop; P[n] says what holds after n rounds.            *)
LEMMA Induction ==
  ASSUME NEW N \in Nat, NEW P, P[0], \A n \in 1 .. N : P[n - 1] => P[n]
  PROVE  \A n \in 0 .. N : P[n]
<1> DEFINE T == {n \in 0 .. N : ~P[n]}
<1>1. SUFFICES ASSUME T # {} PROVE FALSE
  OBVIOUS
<1>2. PICK m \in T : \A n \in T : m <= n
  <2>1. T \in SUBSET Nat
    OBVIOUS
  <2>2. QED
    BY <1>1, <2>1, LeastNat, Zenon
<1>3. m \in 1 .. N /\ m - 1 \in 0 .. N /\ m - 1 \notin T
  BY <1>2
<1>4. QED
  BY <1>2, <1>3

(* A loop has a history: what a function defined by recursion is.          *)
History(f, S, a, N, step) == /\ f \in [0 .. N -> S] /\ f[0] = a
                             /\ \A n \in 1 .. N : f[n] = step[<<n, f[n - 1]>>]
LEMMA Iteration ==
  ASSUME NEW S, NEW a \in S, NEW N \in Nat, NEW step \in [(1 .. N) \X S -> S]
  PROVE  \E f : History(f, S, a, N, step)
<1> DEFINE Good(k, f) == f \in [0 .. k -> S] /\ f[0] = a /\ \A n \in 1 .. k : f[n] = step[<<n, f[n - 1]>>]
           P == [k \in 0 .. N |-> \E f : Good(k, f)]
<1>1. P[0]
  <2>1. Good(0, [n \in 0 .. 0 |-> a])
    OBVIOUS
  <2>2. \E f : Good(0, f)
    BY <2>1, Zenon
  <2>3. QED
    BY <2>2
<1>2. ASSUME NEW k \in 1 .. N, P[k - 1] PROVE P[k]
  <2>1. PICK f : Good(k - 1, f)
    BY <1>2 DEF P
  <2> DEFINE g == [n \in 0 .. k |-> IF n = k THEN step[<<k, f[k - 1]>>] ELSE f[n]]
  <2>2. f[k - 1] \in S
    BY <2>1
  <2>3. g \in [0 .. k -> S]
    BY <2>1, <2>2
  <2>4. g[0] = a
    BY <2>1
  <2>5. ASSUME NEW n \in 1 .. k PROVE g[n] = step[<<n, g[n - 1]>>]
    <3>1. CASE n = k
      <4>1. k - 1 \in 0 .. k /\ k - 1 # k /\ k \in 0 .. k
        OBVIOUS
      <4>2. g[k - 1] = f[k - 1] /\ g[k] = step[<<k, f[k - 1]>>]
        BY <4>1, Zenon
      <4>3. QED
        BY <3>1, <4>2, Zenon
    <3>2. CASE n # k
      BY <2>1, <3>2
    <3>3. QED
      BY <3>1, <3>2
  <2> HIDE DEF g
  <2>6. Good(k, g)
    BY <2>3, <2>4, <2>5
  <2> HIDE DEF Good
  <2>7. \E e : Good(k, e)
    BY <2>6, Zenon
  <2>8. QED
    BY <2>7
<1> HIDE DEF P
<1>3. \A n \in 0 .. N : P[n]
  BY <1>1, <1>2, Induction
<1>4. P[N]
  BY <1>3
<1>5. \E f : Good(N, f)
  BY <1>4 DEF P
<1>6. QED
  BY <1>5, Zenon DEF History
LEMMA Interval ==
  ASSUME NEW n \in Nat
  PROVE  IsFiniteSet(1 .. n) /\ Cardinality(1 .. n) = n
  BY FS_Interval

LEMMA Repeats ==
  ASSUME NEW n \in Nat, NEW m \in Nat, n < m, NEW f \in [1 .. m -> 1 .. n]
  PROVE  \E i, j \in 1 .. m : i # j /\ f[i] = f[j]
  BY Interval, FS_PigeonHole

-----------------------------------------------------------------------------
(* Lists *)

(* The planes of T with the least and with the greatest number, 0 if there *)
(* are none.                                                               *)
Least(h, T, y) == IF T = {} THEN y = 0 ELSE y \in T /\ \A r \in T : h[y].plane_no <= h[r].plane_no
Greatest(h, T, y) == IF T = {} THEN y = 0 ELSE y \in T /\ \A r \in T : h[r].plane_no <= h[y].plane_no

After(h, S, x) == {r \in S : h[x].plane_no < h[r].plane_no}
Before(h, S, x) == {r \in S : h[r].plane_no < h[x].plane_no}

(* l is a list of the planes of S, in the order of their numbers.          *)
IsList(h, l, S) == /\ Least(h, S, l.head) /\ Greatest(h, S, l.tail)
                   /\ \A x \in S : /\ Least(h, After(h, S, x), h[x].next)
                                   /\ Greatest(h, Before(h, S, x), h[x].prev)

Distinct(h, S) == \A q, r \in S : h[q].plane_no = h[r].plane_no => q = r

(* c is the planes of S in the order of their numbers.                     *)
Lists(h, c, S) == /\ c \in Seq(S)
                  /\ \A x \in S : \E i \in 1 .. Len(c) : c[i] = x
                  /\ \A i, j \in 1 .. Len(c) : i < j => h[c[i]].plane_no < h[c[j]].plane_no

LEMMA PlaneNo ==
  ASSUME NEW N \in Nat, NEW h \in [1 .. N -> Plane], NEW x \in 1 .. N
  PROVE  h[x].plane_no \in 0 .. Letters - 1 /\ h[x].plane_no \in Nat /\ h[x].next \in Nat /\ h[x].prev \in Nat
  BY AtcTowerAssumption, SMTT(60) DEF Plane

(* The loop of Chain, round by round.                                      *)
Round(h, c) == LET next == IF c = <<>> THEN 0 ELSE h[c[Len(c)]].next
               IN  IF next = 0 THEN c ELSE Append(c, next)

LEMMA ChainRounds ==
  ASSUME NEW N \in Nat, NEW h \in [1 .. N -> Plane], NEW S \in SUBSET (1 .. N), NEW l,
         IsList(h, l, S)
  PROVE  \E f \in [0 .. Births -> Seq(S)] :
           /\ f[0] = (IF l.head = 0 THEN <<>> ELSE <<l.head>>)
           /\ \A n \in 1 .. Births : f[n] = Round(h, f[n - 1])
           /\ Chain(h, l.head) = f[Births]
<1> DEFINE q == l.head
           a == IF q = 0 THEN <<>> ELSE <<q>>
           step == [p \in (1 .. Births) \X Seq(S) |-> Round(h, p[2])]
<1>1. a \in Seq(S)
  BY DEF IsList, Least
<1>2. ASSUME NEW c \in Seq(S) PROVE Round(h, c) \in Seq(S)
  <2>1. CASE c = <<>>
    BY <2>1 DEF Round
  <2>2. CASE c # <<>>
    <3>1. c[Len(c)] \in S
      BY <2>2
    <3>2. h[c[Len(c)]].next \in S \cup {0}
      BY <3>1 DEF IsList, Least, After
    <3>3. QED
      BY <2>2, <3>2 DEF Round
  <2>3. QED
    BY <2>1, <2>2
<1>3. step \in [(1 .. Births) \X Seq(S) -> Seq(S)]
  BY <1>2
<1>4. Births \in Nat
  BY AtcTowerAssumption
<1> DEFINE T == Seq(S)
<1> HIDE DEF step, a
<1>30. a \in T /\ step \in [(1 .. Births) \X T -> T] /\ Births \in Nat
  BY <1>1, <1>3, <1>4
<1> HIDE DEF T
<1>31. \E f : History(f, T, a, Births, step)
  BY <1>30, Iteration, Zenon
<1>5. PICK f \in [0 .. Births -> Seq(S)] : f[0] = a /\ \A n \in 1 .. Births : f[n] = step[<<n, f[n - 1]>>]
  BY <1>31 DEF T, History
<1>6. \A n \in 1 .. Births : f[n] = Round(h, f[n - 1])
  <2> SUFFICES ASSUME NEW n \in 1 .. Births PROVE f[n] = Round(h, f[n - 1])
    OBVIOUS
  <2>1. n - 1 \in 0 .. Births
    BY <1>4
  <2>2. <<n, f[n - 1]>> \in (1 .. Births) \X Seq(S)
    BY <2>1
  <2>3. step[<<n, f[n - 1]>>] = Round(h, f[n - 1])
    BY <2>2 DEF step
  <2>4. QED
    BY <1>5, <2>3
<1> DEFINE Rounds(g) == [n \in 0 .. Births |->
             IF n = 0 THEN IF q = 0 THEN <<>> ELSE <<q>>
             ELSE LET c == g[n - 1]
                      next == IF c = <<>> THEN 0 ELSE h[c[Len(c)]].next
                  IN  IF next = 0 THEN c ELSE Append(c, next)]
           met == CHOOSE g : g = Rounds(g)
<1>7. Rounds(f) = [n \in 0 .. Births |-> IF n = 0 THEN a ELSE Round(h, f[n - 1])]
  BY Zenon DEF Round, a
<1>8. ASSUME NEW n \in 0 .. Births PROVE f[n] = IF n = 0 THEN a ELSE Round(h, f[n - 1])
  BY <1>4, <1>5, <1>6, <1>8
<1>9. f = [n \in 0 .. Births |-> f[n]]
  BY <1>5
<1>10. f = Rounds(f)
  BY <1>7, <1>8, <1>9, Zenon
<1>11. met = Rounds(met)
  BY <1>10, Zenon
<1>12. Chain(h, q) = met[Births]
  BY DEF Chain
<1> HIDE DEF met
<1> DEFINE P == [n \in 0 .. Births |-> met[n] = f[n]]
<1>13. \A n \in 0 .. Births : P[n]
  <2>1. P[0]
    <3>1. 0 \in 0 .. Births
      BY <1>4
    <3>2. met[0] = a
      BY <1>11, <3>1, Zenon DEF a
    <3>3. QED
      BY <1>5, <3>1, <3>2
  <2>2. ASSUME NEW n \in 1 .. Births, P[n - 1] PROVE P[n]
    <3>1. n \in 0 .. Births /\ n - 1 \in 0 .. Births /\ n # 0
      BY <1>4
    <3>2. met[n - 1] = f[n - 1]
      BY <2>2, <3>1
    <3>3. met[n] = Round(h, met[n - 1])
      BY <1>11, <3>1, Zenon DEF Round
    <3>4. QED
      BY <1>6, <3>1, <3>2, <3>3
  <2> HIDE DEF P
  <2>3. QED
    BY <1>4, <2>1, <2>2, Induction
<1>14. Chain(h, q) = f[Births]
  <2>1. Births \in 0 .. Births
    BY <1>4
  <2>2. met[Births] = f[Births]
    BY <1>13, <2>1
  <2>3. QED
    BY <1>12, <2>2
<1>15. QED
  BY <1>5, <1>6, <1>14 DEF a
(* c follows the links from the head on.                                   *)
Path(h, l, S, c) == /\ c \in Seq(S)
                    /\ S # {} => c # <<>> /\ c[1] = l.head
                    /\ \A i \in 1 .. Len(c) - 1 : h[c[i]].next = c[i + 1]

LEMMA PathElements ==
  ASSUME NEW h, NEW S, NEW l, NEW c, Path(h, l, S, c)
  PROVE  c \in Seq(S) /\ Len(c) \in Nat /\ \A i \in 1 .. Len(c) : c[i] \in S
  BY ElementOfSeq DEF Path

(* Numbers grow along it.                                                  *)
LEMMA PathGrows ==
  ASSUME NEW N \in Nat, NEW h \in [1 .. N -> Plane], NEW S \in SUBSET (1 .. N), NEW l,
         IsList(h, l, S), NEW c, Path(h, l, S, c)
  PROVE  \A i, j \in 1 .. Len(c) : i < j => h[c[i]].plane_no < h[c[j]].plane_no
<1> DEFINE P == [k \in 0 .. Len(c) |-> \A i \in 1 .. k : i < k => h[c[i]].plane_no < h[c[k]].plane_no]
<1>1. c \in Seq(S) /\ Len(c) \in Nat /\ \A i \in 1 .. Len(c) : c[i] \in S /\ c[i] \in 1 .. N
  BY PathElements
<1>2. \A i \in 1 .. Len(c) : h[c[i]].plane_no \in Nat
  BY <1>1, PlaneNo
<1>3. ASSUME NEW i \in 1 .. Len(c) - 1 PROVE h[c[i]].plane_no < h[c[i + 1]].plane_no
  <2>1. i \in 1 .. Len(c) /\ i + 1 \in 1 .. Len(c)
    BY <1>1
  <2>2. h[c[i]].next = c[i + 1] /\ Least(h, After(h, S, c[i]), h[c[i]].next) /\ c[i + 1] # 0
    BY <1>1, <2>1 DEF Path, IsList
  <2>3. QED
    BY <2>2 DEF Least, After
<1>4. P[0]
  BY <1>1
<1>5. ASSUME NEW k \in 1 .. Len(c), P[k - 1] PROVE P[k]
  <2> SUFFICES ASSUME NEW i \in 1 .. k, i < k PROVE h[c[i]].plane_no < h[c[k]].plane_no
    BY <1>1
  <2>1. i \in 1 .. k - 1 /\ k - 1 \in 1 .. Len(c) - 1 /\ k - 1 \in 0 .. Len(c) /\ k \in Int
    BY <1>1
  <2>2. h[c[k - 1]].plane_no < h[c[k]].plane_no
    BY <1>3, <2>1
  <2>3. i # k - 1 => h[c[i]].plane_no < h[c[k - 1]].plane_no
    BY <1>5, <2>1
  <2>4. h[c[i]].plane_no \in Nat /\ h[c[k]].plane_no \in Nat /\ h[c[k - 1]].plane_no \in Nat
    BY <1>1, <1>2, <2>1
  <2>5. QED
    BY <2>2, <2>3, <2>4, SMTT(60)
<1> HIDE DEF P
<1>6. \A k \in 0 .. Len(c) : P[k]
  BY <1>1, <1>4, <1>5, Induction
<1>7. QED
  BY <1>1, <1>6 DEF P

LEMMA RoundPath ==
  ASSUME NEW N \in Nat, NEW h \in [1 .. N -> Plane], NEW S \in SUBSET (1 .. N), NEW l,
         IsList(h, l, S), NEW c, Path(h, l, S, c)
  PROVE  /\ Path(h, l, S, Round(h, c))
         /\ \/ Round(h, c) = c /\ (S # {} => h[c[Len(c)]].next = 0)
            \/ Len(Round(h, c)) = Len(c) + 1
<1>1. c \in Seq(S)
  BY DEF Path
<1>2. CASE c = <<>>
  BY <1>2 DEF Path, Round
<1>3. CASE c # <<>>
  <2> DEFINE next == h[c[Len(c)]].next
  <2>1. c[Len(c)] \in S
    BY <1>1, <1>3
  <2>2. next \in S \cup {0}
    BY <2>1 DEF IsList, Least, After
  <2>3. CASE next = 0
    BY <1>3, <2>3 DEF Round, Path
  <2>4. CASE next # 0
    <3>1. Round(h, c) = Append(c, next) /\ next \in S
      BY <1>3, <2>2, <2>4 DEF Round
    <3>2. Append(c, next) \in Seq(S) /\ Len(Append(c, next)) = Len(c) + 1
      BY <1>1, <3>1
    <3>3. ASSUME NEW i \in 1 .. Len(c) PROVE h[Append(c, next)[i]].next = Append(c, next)[i + 1]
      <4>1. CASE i = Len(c)
        BY <1>1, <1>3, <4>1
      <4>2. CASE i # Len(c)
        <5>1. i \in 1 .. Len(c) - 1
          BY <1>1, <4>2
        <5>2. Append(c, next)[i] = c[i] /\ Append(c, next)[i + 1] = c[i + 1]
          BY <1>1, <5>1
        <5>3. QED
          BY <5>1, <5>2 DEF Path
      <4>3. QED
        BY <4>1, <4>2
    <3>4. Append(c, next)[1] = c[1] /\ Append(c, next) # <<>>
      BY <1>1, <1>3, <3>2
    <3>5. QED
      BY <1>1, <1>3, <3>1, <3>2, <3>3, <3>4 DEF Path
  <2>5. QED
    BY <2>3, <2>4
<1>4. QED
  BY <1>2, <1>3

(* A list is met whole, in order, whatever its planes are.                 *)
LEMMA ChainIsPath ==
  ASSUME NEW N \in Nat, N <= Births, NEW h \in [1 .. N -> Plane], NEW S \in SUBSET (1 .. N), NEW l,
         IsList(h, l, S)
  PROVE  /\ Path(h, l, S, Chain(h, l.head))
         /\ S # {} => h[Chain(h, l.head)[Len(Chain(h, l.head))]].next = 0
<1>1. Births \in Nat
  BY AtcTowerAssumption
<1>2. PICK f \in [0 .. Births -> Seq(S)] :
         /\ f[0] = (IF l.head = 0 THEN <<>> ELSE <<l.head>>)
         /\ \A n \in 1 .. Births : f[n] = Round(h, f[n - 1])
         /\ Chain(h, l.head) = f[Births]
  BY ChainRounds
<1> DEFINE Done(c) == S # {} => h[c[Len(c)]].next = 0
           P == [n \in 0 .. Births |-> Path(h, l, S, f[n]) /\ (Done(f[n]) \/ Len(f[n]) = n + 1)]
<1>3. P[0]
  <2>1. 0 \in 0 .. Births
    BY <1>1
  <2>2. CASE S = {}
    <3>1. f[0] = <<>>
      BY <1>2, <2>2 DEF IsList, Least
    <3>2. Path(h, l, S, f[0])
      BY <2>2, <3>1 DEF Path
    <3>3. QED
      BY <2>1, <2>2, <3>2, Zenon
  <2>3. CASE S # {}
    <3>1. l.head \in S /\ l.head # 0
      <4>1. l.head \in S
        BY <2>3, Zenon DEF IsList, Least
      <4>2. QED
        BY <4>1
    <3>2. f[0] = <<l.head>>
      BY <1>2, <3>1
    <3>3. Path(h, l, S, f[0]) /\ Len(f[0]) = 1
      BY <3>1, <3>2 DEF Path
    <3>4. Len(f[0]) = 0 + 1
      BY <3>3
    <3>5. QED
      BY <2>1, <3>3, <3>4, Zenon
  <2>4. QED
    BY <2>2, <2>3
<1>4. ASSUME NEW n \in 1 .. Births, P[n - 1] PROVE P[n]
  <2>1. n \in 0 .. Births /\ n - 1 \in 0 .. Births
    BY <1>1
  <2>2. Path(h, l, S, f[n - 1]) /\ (Done(f[n - 1]) \/ Len(f[n - 1]) = n)
    <3>1. Path(h, l, S, f[n - 1]) /\ (Done(f[n - 1]) \/ Len(f[n - 1]) = n - 1 + 1)
      BY <1>4, <2>1, Zenon
    <3>2. n - 1 + 1 = n
      BY <1>1
    <3>3. QED
      BY <3>1, <3>2, Zenon
  <2>3. f[n] = Round(h, f[n - 1])
    BY <1>2
  <2>4. /\ Path(h, l, S, f[n])
        /\ (f[n] = f[n - 1] /\ Done(f[n - 1])) \/ Len(f[n]) = Len(f[n - 1]) + 1
    <3> DEFINE c == f[n - 1]
    <3>1. Path(h, l, S, c)
      BY <2>2
    <3> HIDE DEF c
    <3>2. /\ Path(h, l, S, Round(h, c))
          /\ \/ Round(h, c) = c /\ (S # {} => h[c[Len(c)]].next = 0)
             \/ Len(Round(h, c)) = Len(c) + 1
      BY <3>1, RoundPath, ZenonT(60)
    <3>3. QED
      BY <2>3, <3>2, Zenon DEF c
  <2>5. Done(f[n - 1]) => f[n] = f[n - 1]
    <3>1. f[n - 1] # <<>> => S # {}
      BY <2>2 DEF Path
    <3>2. QED
      BY <2>3, <3>1 DEF Round
  <2>6. Done(f[n]) \/ Len(f[n]) = n + 1
    <3>1. CASE Done(f[n - 1])
      BY <2>5, <3>1
    <3>2. CASE ~Done(f[n - 1])
      BY <2>2, <2>4, <3>2
    <3>3. QED
      BY <3>1, <3>2
  <2>7. QED
    BY <2>1, <2>4, <2>6
<1> HIDE DEF P
<1>5. \A n \in 0 .. Births : P[n]
  BY <1>1, <1>3, <1>4, Induction
<1> DEFINE c == f[Births]
<1>6. Births \in 0 .. Births
  BY <1>1
<1>7. Path(h, l, S, c) /\ (Done(c) \/ Len(c) = Births + 1)
  BY <1>5, <1>6 DEF P
<1>8. Len(c) # Births + 1
  <2> SUFFICES ASSUME Len(c) = Births + 1 PROVE FALSE
    OBVIOUS
  <2>1. c \in [1 .. Births + 1 -> 1 .. N]
    <3>1. c \in Seq(S) /\ \A i \in 1 .. Len(c) : c[i] \in S
      BY <1>7, PathElements
    <3>2. c \in [1 .. Len(c) -> S]
      BY <3>1, LenProperties
    <3>3. QED
      BY <3>1, <3>2
  <2>2. Births + 1 \in Nat /\ N < Births + 1
    BY <1>1
  <2>3. PICK i, j \in 1 .. Births + 1 : i # j /\ c[i] = c[j]
    BY <2>1, <2>2, Repeats
  <2>4. h[c[i]].plane_no \in Nat
    BY <2>1, <2>3, PlaneNo
  <2>5. QED
    <3>1. \A m, n \in 1 .. Len(c) : m < n => h[c[m]].plane_no < h[c[n]].plane_no
      BY <1>7, PathGrows
    <3>2. i < j \/ j < i
      BY <1>1, <2>3
    <3>3. QED
      BY <2>3, <2>4, <3>1, <3>2
<1>9. QED
  BY <1>2, <1>7, <1>8
LEMMA ChainLists ==
  ASSUME NEW N \in Nat, N <= Births, NEW h \in [1 .. N -> Plane], NEW S \in SUBSET (1 .. N), NEW l,
         IsList(h, l, S), Distinct(h, S)
  PROVE  Lists(h, Chain(h, l.head), S)
<1> DEFINE c == Chain(h, l.head)
<1>1. Path(h, l, S, c) /\ (S # {} => h[c[Len(c)]].next = 0)
  BY ChainIsPath
<1> HIDE DEF c
<1>2. c \in Seq(S) /\ Len(c) \in Nat /\ \A i \in 1 .. Len(c) : c[i] \in S
  BY <1>1, PathElements
<1>3. \A i \in 1 .. Len(c) : h[c[i]].plane_no \in Nat
  BY <1>2, PlaneNo
<1>4. \A i, j \in 1 .. Len(c) : i < j => h[c[i]].plane_no < h[c[j]].plane_no
  BY <1>1, PathGrows
<1>5. ASSUME NEW x \in S PROVE \E i \in 1 .. Len(c) : c[i] = x
  <2> DEFINE P == [k \in 0 .. Len(c) |-> (\E i \in 1 .. k : c[i] = x) \/ k = 0 \/ h[c[k]].plane_no < h[x].plane_no]
  <2>1. c # <<>> /\ Len(c) \in 1 .. Len(c) /\ 1 \in 1 .. Len(c) /\ c[1] = l.head
    BY <1>1, <1>2 DEF Path
  <2>2. h[x].plane_no \in Nat
    BY PlaneNo
  <2>3. P[0]
    <3>1. 0 \in 0 .. Len(c)
      BY <1>2
    <3>2. QED
      BY <3>1, Zenon
  <2>4. ASSUME NEW k \in 1 .. Len(c), P[k - 1] PROVE P[k]
    <3>1. k \in 0 .. Len(c) /\ k - 1 \in 0 .. Len(c) /\ k \in 1 .. k /\ 1 .. k - 1 \subseteq 1 .. k
      BY <1>2
    <3>2. (\E i \in 1 .. k - 1 : c[i] = x) \/ k - 1 = 0 \/ h[c[k - 1]].plane_no < h[x].plane_no
      BY <2>4, <3>1
    <3>3. h[c[k]].plane_no \in Nat /\ c[k] \in S
      BY <1>2, <1>3
    <3> SUFFICES (\E i \in 1 .. k : c[i] = x) \/ k = 0 \/ h[c[k]].plane_no < h[x].plane_no
      BY <3>1, Zenon
    <3>4. CASE \E i \in 1 .. k - 1 : c[i] = x
      BY <3>1, <3>4
    <3>5. CASE k = 1
      <4>1. h[c[1]].plane_no <= h[x].plane_no
        BY <2>1 DEF IsList, Least
      <4>2. h[c[k]].plane_no = h[x].plane_no => c[k] = x
        BY <3>3 DEF Distinct
      <4>3. QED
        BY <2>2, <3>3, <3>5, <4>1, <4>2
    <3>6. CASE k # 1 /\ h[c[k - 1]].plane_no < h[x].plane_no
      <4>1. k - 1 \in 1 .. Len(c) - 1 /\ k - 1 \in 1 .. Len(c)
        BY <1>2, <3>6
      <4>2. h[c[k - 1]].next = c[k] /\ c[k - 1] \in S
        BY <1>1, <1>2, <4>1 DEF Path
      <4>3. Least(h, After(h, S, c[k - 1]), c[k]) /\ x \in After(h, S, c[k - 1])
        BY <3>6, <4>2 DEF IsList, After
      <4>4. h[c[k]].plane_no <= h[x].plane_no
        BY <4>3 DEF Least
      <4>5. h[c[k]].plane_no = h[x].plane_no => c[k] = x
        BY <3>3 DEF Distinct
      <4>6. QED
        BY <2>2, <3>3, <4>4, <4>5
    <3>7. QED
      BY <3>2, <3>4, <3>5, <3>6
  <2> HIDE DEF P
  <2>5. \A k \in 0 .. Len(c) : P[k]
    BY <1>2, <2>3, <2>4, Induction
  <2>6. Len(c) \in 0 .. Len(c) /\ Len(c) # 0
    BY <1>2, <2>1
  <2>7. (\E i \in 1 .. Len(c) : c[i] = x) \/ h[c[Len(c)]].plane_no < h[x].plane_no
    BY <2>5, <2>6 DEF P
  <2>8. ~(h[c[Len(c)]].plane_no < h[x].plane_no)
    <3>1. h[c[Len(c)]].next = 0 /\ c[Len(c)] \in S
      BY <1>1, <1>2, <2>1
    <3>2. Least(h, After(h, S, c[Len(c)]), 0)
      BY <3>1, Zenon DEF IsList
    <3>3. QED
      BY <3>2, 0 \notin S DEF Least, After
  <2>9. QED
    BY <2>7, <2>8
<1>6. QED
  BY <1>2, <1>4, <1>5 DEF Lists, c

LEMMA MembersAre ==
  ASSUME NEW N \in Nat, N <= Births, NEW h \in [1 .. N -> Plane], NEW S \in SUBSET (1 .. N), NEW l,
         IsList(h, l, S), Distinct(h, S)
  PROVE  Members(h, l) = S
<1> DEFINE c == Chain(h, l.head)
<1>1. Lists(h, c, S)
  BY ChainLists
<1> HIDE DEF c
<1>2. c \in Seq(S) /\ DOMAIN c = 1 .. Len(c) /\ \A i \in 1 .. Len(c) : c[i] \in S
  BY <1>1, LenProperties, ElementOfSeq DEF Lists
<1>3. QED
  BY <1>1, <1>2, Zenon DEF Members, Lists, c
-----------------------------------------------------------------------------
(* append and delete *)

(* Two records of one plane that differ in their links only.               *)
SameFlight(p, q) == /\ p.plane_no = q.plane_no /\ p.type = q.type /\ p.status = q.status
                    /\ p.dest = q.dest /\ p.altitude = q.altitude /\ p.new_altitude = q.new_altitude
                    /\ p.dir = q.dir /\ p.new_dir = q.new_dir /\ p.fuel = q.fuel
                    /\ p.xpos = q.xpos /\ p.ypos = q.ypos
                    /\ p.delayd = q.delayd /\ p.delayd_no = q.delayd_no

(* k is h with other links in the planes of S.                             *)
Relinked(N, h, k, S) == /\ k \in [1 .. N -> Plane]
                        /\ \A x \in 1 .. N : SameFlight(k[x], h[x]) /\ (x \notin S => k[x] = h[x])

LEMMA Neighbours ==
  ASSUME NEW N \in Nat, NEW h \in [1 .. N -> Plane], NEW S \in SUBSET (1 .. N), NEW l,
         IsList(h, l, S), Distinct(h, S), NEW x \in S, NEW y \in S
  PROVE  h[x].next = y <=> h[y].prev = x
<1>1. \A r \in S : h[r].plane_no \in Nat
  BY PlaneNo
<1>2. ASSUME h[x].next = y PROVE h[y].prev = x
  <2>1. y \in After(h, S, x) /\ \A r \in After(h, S, x) : h[y].plane_no <= h[r].plane_no
    BY <1>2 DEF IsList, Least
  <2>2. x \in Before(h, S, y)
    BY <2>1 DEF After, Before
  <2>3. PICK z : z = h[y].prev
    OBVIOUS
  <2>4. z \in Before(h, S, y) /\ h[x].plane_no <= h[z].plane_no
    BY <2>2, <2>3 DEF IsList, Greatest
  <2>5. z \in S /\ h[z].plane_no < h[y].plane_no
    BY <2>4 DEF Before
  <2>6. h[x].plane_no < h[z].plane_no => h[y].plane_no <= h[z].plane_no
    BY <2>1, <2>5 DEF After
  <2>7. h[x].plane_no = h[z].plane_no
    BY <1>1, <2>4, <2>5, <2>6
  <2>8. QED
    BY <2>3, <2>5, <2>7 DEF Distinct
<1>3. ASSUME h[y].prev = x PROVE h[x].next = y
  <2>1. x \in Before(h, S, y) /\ \A r \in Before(h, S, y) : h[r].plane_no <= h[x].plane_no
    BY <1>3 DEF IsList, Greatest
  <2>2. y \in After(h, S, x)
    BY <2>1 DEF After, Before
  <2>3. PICK z : z = h[x].next
    OBVIOUS
  <2>4. z \in After(h, S, x) /\ h[z].plane_no <= h[y].plane_no
    BY <2>2, <2>3 DEF IsList, Least
  <2>5. z \in S /\ h[x].plane_no < h[z].plane_no
    BY <2>4 DEF After
  <2>6. h[z].plane_no < h[y].plane_no => h[z].plane_no <= h[x].plane_no
    BY <2>1, <2>5 DEF Before
  <2>7. h[z].plane_no = h[y].plane_no
    BY <1>1, <2>4, <2>5, <2>6
  <2>8. QED
    BY <2>3, <2>5, <2>7 DEF Distinct
<1>4. QED
  BY <1>2, <1>3

(* The head has nobody before it, the tail nobody after it.                *)
LEMMA ListEnds ==
  ASSUME NEW N \in Nat, NEW h \in [1 .. N -> Plane], NEW S \in SUBSET (1 .. N), NEW l,
         IsList(h, l, S), Distinct(h, S), NEW x \in S
  PROVE  /\ l.head = x <=> h[x].prev = 0
         /\ l.tail = x <=> h[x].next = 0
         /\ h[x].next \in (S \ {x}) \cup {0} /\ h[x].prev \in (S \ {x}) \cup {0}
<1>1. \A r \in S : h[r].plane_no \in Nat
  BY PlaneNo
<1>2. /\ l.head \in S /\ \A r \in S : h[l.head].plane_no <= h[r].plane_no
      /\ l.tail \in S /\ \A r \in S : h[r].plane_no <= h[l.tail].plane_no
      /\ 0 \notin S
  <2>1. 0 \notin S /\ S # {}
    OBVIOUS
  <2>2. QED
    BY <2>1, Zenon DEF IsList, Least, Greatest
<1>3. l.head = x <=> Before(h, S, x) = {}
  <2>1. Before(h, S, x) = {} <=> \A r \in S : ~(h[r].plane_no < h[x].plane_no)
    BY DEF Before
  <2>2. h[l.head].plane_no = h[x].plane_no => l.head = x
    BY <1>2 DEF Distinct
  <2>3. ~(h[l.head].plane_no < h[x].plane_no) => l.head = x
    <3>1. h[l.head].plane_no \in Nat /\ h[x].plane_no \in Nat /\ h[l.head].plane_no <= h[x].plane_no
      BY <1>1, <1>2
    <3>2. QED
      BY <2>2, <3>1
  <2>4. l.head = x => \A r \in S : ~(h[r].plane_no < h[x].plane_no)
    BY <1>1, <1>2
  <2>5. QED
    BY <1>2, <2>1, <2>3, <2>4, Zenon
<1>4. l.tail = x <=> After(h, S, x) = {}
  <2>1. After(h, S, x) = {} <=> \A r \in S : ~(h[x].plane_no < h[r].plane_no)
    BY DEF After
  <2>2. h[l.tail].plane_no = h[x].plane_no => l.tail = x
    BY <1>2 DEF Distinct
  <2>3. ~(h[x].plane_no < h[l.tail].plane_no) => l.tail = x
    <3>1. h[l.tail].plane_no \in Nat /\ h[x].plane_no \in Nat /\ h[x].plane_no <= h[l.tail].plane_no
      BY <1>1, <1>2
    <3>2. QED
      BY <2>2, <3>1
  <2>4. l.tail = x => \A r \in S : ~(h[x].plane_no < h[r].plane_no)
    BY <1>1, <1>2
  <2>5. QED
    BY <1>2, <2>1, <2>3, <2>4, Zenon
<1>5. Least(h, After(h, S, x), h[x].next) /\ Greatest(h, Before(h, S, x), h[x].prev)
  BY DEF IsList
<1>6. After(h, S, x) \subseteq S \ {x} /\ Before(h, S, x) \subseteq S \ {x}
  BY <1>1 DEF After, Before
<1>7. QED
  BY <1>2, <1>3, <1>4, <1>5, <1>6 DEF Least, Greatest
LEMMA NewLink ==
  ASSUME NEW p \in Plane, NEW y \in Nat
  PROVE  /\ [p EXCEPT !.next = y] \in Plane /\ [p EXCEPT !.prev = y] \in Plane
         /\ [p EXCEPT !.next = y].next = y /\ [p EXCEPT !.next = y].prev = p.prev
         /\ [p EXCEPT !.prev = y].prev = y /\ [p EXCEPT !.prev = y].next = p.next
         /\ SameFlight([p EXCEPT !.next = y], p) /\ SameFlight([p EXCEPT !.prev = y], p)
         /\ SameFlight(p, p)
<1>1. [p EXCEPT !.next = y] \in Plane
  BY DEF Plane
<1>2. [p EXCEPT !.prev = y] \in Plane
  BY DEF Plane
<1>3. [p EXCEPT !.next = y].next = y /\ [p EXCEPT !.next = y].prev = p.prev
  BY DEF Plane
<1>4. [p EXCEPT !.prev = y].prev = y /\ [p EXCEPT !.prev = y].next = p.next
  BY DEF Plane
<1>5. SameFlight([p EXCEPT !.next = y], p)
  BY DEF Plane, SameFlight
<1>6. SameFlight([p EXCEPT !.prev = y], p)
  BY DEF Plane, SameFlight
<1>7. QED
  BY <1>1, <1>2, <1>3, <1>4, <1>5, <1>6 DEF SameFlight

IsDeleted(h, l, p, k, l1) == /\ k = Delete([heap |-> h, list |-> l], p).heap
                             /\ l1 = Delete([heap |-> h, list |-> l], p).list

(* What delete does to each link.                                          *)
LEMMA DeleteLinks ==
  ASSUME NEW N \in Nat, NEW h \in [1 .. N -> Plane], NEW S \in SUBSET (1 .. N), NEW l \in [head : Nat, tail : Nat],
         IsList(h, l, S), Distinct(h, S), NEW p \in S,
         NEW k, NEW l1, IsDeleted(h, l, p, k, l1)
  PROVE  /\ Relinked(N, h, k, S \ {p})
         /\ l1.head = (IF l.head = p THEN h[p].next ELSE l.head)
         /\ l1.tail = (IF l.tail = p THEN h[p].prev ELSE l.tail)
         /\ \A x \in S \ {p} : /\ k[x].next = IF h[x].next = p THEN h[p].next ELSE h[x].next
                               /\ k[x].prev = IF h[x].prev = p THEN h[p].prev ELSE h[x].prev
         /\ l1 \in [head : Nat, tail : Nat]
<1> DEFINE prev == h[p].prev
           next == h[p].next
<1>1. /\ l.head = p <=> prev = 0
      /\ l.tail = p <=> next = 0
      /\ next \in (S \ {p}) \cup {0} /\ prev \in (S \ {p}) \cup {0}
  BY ListEnds
<1>2. \A x \in S : (h[x].next = p <=> prev = x) /\ (h[x].prev = p <=> next = x)
  BY Neighbours
<1>3. \A x \in 1 .. N : h[x] \in Plane /\ SameFlight(h[x], h[x]) /\ h[x].next \in Nat /\ h[x].prev \in Nat
  BY PlaneNo DEF SameFlight
<1>4. \A x \in 1 .. N, y \in Nat :
         LET a == [h[x] EXCEPT !.next = y]
             b == [h[x] EXCEPT !.prev = y]
         IN  /\ a \in Plane /\ a.next = y /\ a.prev = h[x].prev /\ SameFlight(a, h[x])
             /\ b \in Plane /\ b.prev = y /\ b.next = h[x].next /\ SameFlight(b, h[x])
  BY <1>3, NewLink
<1>5. prev \in Nat /\ next \in Nat
  BY <1>3
<1>6. 0 \in Nat /\ 0 \notin 1 .. N
  OBVIOUS
<1> HIDE DEF prev, next
<1>7. CASE l.head = p /\ l.tail = p
  <2>1. k = h /\ l1 = [head |-> 0, tail |-> 0]
    BY <1>7 DEF IsDeleted, Delete
  <2>2. prev = 0 /\ next = 0
    BY <1>1, <1>7
  <2>3. QED
    BY <1>2, <1>3, <1>7, <2>1, <2>2 DEF Relinked, prev, next
<1>8. CASE l.head = p /\ l.tail # p
  <2>1. k = [h EXCEPT ![next].prev = 0] /\ l1 = [l EXCEPT !.head = next]
    BY <1>8 DEF IsDeleted, Delete, next
  <2>2. prev = 0 /\ next # 0 /\ next \in S \ {p}
    BY <1>1, <1>8
  <2>3. /\ k[next] \in Plane /\ k[next].prev = 0 /\ k[next].next = h[next].next /\ SameFlight(k[next], h[next])
        /\ DOMAIN k = 1 .. N /\ k = [x \in 1 .. N |-> k[x]] /\ \A x \in (1 .. N) \ {next} : k[x] = h[x]
    BY <1>4, <2>1, <2>2
  <2>4. Relinked(N, h, k, S \ {p})
    BY <1>3, <2>2, <2>3 DEF Relinked
  <2>5. ASSUME NEW x \in S \ {p}
        PROVE  /\ k[x].next = IF h[x].next = p THEN next ELSE h[x].next
               /\ k[x].prev = IF h[x].prev = p THEN prev ELSE h[x].prev
    BY <1>2, <1>6, <2>2, <2>3
  <2>6. QED
    BY <1>5, <1>8, <2>1, <2>2, <2>4, <2>5 DEF prev, next
<1>9. CASE l.head # p /\ l.tail = p
  <2>1. k = [h EXCEPT ![prev].next = 0] /\ l1 = [l EXCEPT !.tail = prev]
    BY <1>9 DEF IsDeleted, Delete, prev
  <2>2. next = 0 /\ prev # 0 /\ prev \in S \ {p}
    BY <1>1, <1>9
  <2>3. /\ k[prev] \in Plane /\ k[prev].next = 0 /\ k[prev].prev = h[prev].prev /\ SameFlight(k[prev], h[prev])
        /\ DOMAIN k = 1 .. N /\ k = [x \in 1 .. N |-> k[x]] /\ \A x \in (1 .. N) \ {prev} : k[x] = h[x]
    BY <1>4, <2>1, <2>2
  <2>4. Relinked(N, h, k, S \ {p})
    BY <1>3, <2>2, <2>3 DEF Relinked
  <2>5. ASSUME NEW x \in S \ {p}
        PROVE  /\ k[x].next = IF h[x].next = p THEN next ELSE h[x].next
               /\ k[x].prev = IF h[x].prev = p THEN prev ELSE h[x].prev
    BY <1>2, <1>6, <2>2, <2>3
  <2>6. QED
    BY <1>5, <1>9, <2>1, <2>2, <2>4, <2>5 DEF prev, next
<1>10. CASE l.head # p /\ l.tail # p
  <2>1. k = [h EXCEPT ![prev].next = next, ![next].prev = prev] /\ l1 = l
    BY <1>10 DEF IsDeleted, Delete, prev, next
  <2>2. next # 0 /\ next \in S \ {p} /\ prev # 0 /\ prev \in S \ {p}
    BY <1>1, <1>10
  <2>3. next # prev
    <3>1. next \in After(h, S, p) /\ prev \in Before(h, S, p)
      BY <2>2 DEF IsList, Least, Greatest, next, prev
    <3>2. h[next].plane_no \in Nat /\ h[p].plane_no \in Nat
      BY <2>2, PlaneNo
    <3>3. QED
      BY <3>1, <3>2 DEF After, Before
  <2>4. /\ k[prev] \in Plane /\ k[prev].next = next /\ k[prev].prev = h[prev].prev /\ SameFlight(k[prev], h[prev])
        /\ k[next] \in Plane /\ k[next].prev = prev /\ k[next].next = h[next].next /\ SameFlight(k[next], h[next])
        /\ DOMAIN k = 1 .. N /\ k = [x \in 1 .. N |-> k[x]] /\ \A x \in (1 .. N) \ {prev, next} : k[x] = h[x]
    <3>1. /\ DOMAIN k = 1 .. N /\ k = [x \in 1 .. N |-> k[x]]
          /\ k[prev] = [h[prev] EXCEPT !.next = next] /\ k[next] = [h[next] EXCEPT !.prev = prev]
          /\ \A x \in (1 .. N) \ {prev, next} : k[x] = h[x]
      BY <2>1, <2>2, <2>3
    <3>2. QED
      <4>1. prev \in 1 .. N /\ next \in 1 .. N
        BY <2>2
      <4>2. /\ k[prev] \in Plane /\ k[prev].next = next /\ k[prev].prev = h[prev].prev
            /\ SameFlight(k[prev], h[prev])
        <5> DEFINE a == h[prev]
        <5>1. a \in Plane
          BY <1>3, <4>1
        <5>2. k[prev] = [a EXCEPT !.next = next]
          BY <3>1
        <5> HIDE DEF a
        <5>3. [a EXCEPT !.next = next] \in Plane /\ [a EXCEPT !.next = next].next = next
              /\ [a EXCEPT !.next = next].prev = a.prev /\ SameFlight([a EXCEPT !.next = next], a)
          BY <1>5, <5>1, NewLink
        <5>4. QED
          BY <5>2, <5>3 DEF a
      <4>3. /\ k[next] \in Plane /\ k[next].prev = prev /\ k[next].next = h[next].next
            /\ SameFlight(k[next], h[next])
        <5> DEFINE a == h[next]
        <5>1. a \in Plane
          BY <1>3, <4>1
        <5>2. k[next] = [a EXCEPT !.prev = prev]
          BY <3>1
        <5> HIDE DEF a
        <5>3. [a EXCEPT !.prev = prev] \in Plane /\ [a EXCEPT !.prev = prev].prev = prev
              /\ [a EXCEPT !.prev = prev].next = a.next /\ SameFlight([a EXCEPT !.prev = prev], a)
          BY <1>5, <5>1, NewLink
        <5>4. QED
          BY <5>2, <5>3 DEF a
      <4>4. QED
        BY <3>1, <4>2, <4>3
  <2>5. Relinked(N, h, k, S \ {p})
    BY <1>3, <2>2, <2>4 DEF Relinked
  <2>6. ASSUME NEW x \in S \ {p}
        PROVE  /\ k[x].next = IF h[x].next = p THEN next ELSE h[x].next
               /\ k[x].prev = IF h[x].prev = p THEN prev ELSE h[x].prev
    BY <1>2, <1>6, <2>2, <2>3, <2>4
  <2>7. QED
    BY <1>5, <1>10, <2>1, <2>2, <2>5, <2>6 DEF prev, next
<1>11. QED
  BY <1>7, <1>8, <1>9, <1>10
(* The order of numbers does not see the links.                            *)
LEMMA ListOfRelinked ==
  ASSUME NEW N, NEW h, NEW k, NEW T \in SUBSET (1 .. N), NEW l,
         \A x \in 1 .. N : k[x].plane_no = h[x].plane_no
  PROVE  /\ IsList(k, l, T) <=>
              /\ Least(h, T, l.head) /\ Greatest(h, T, l.tail)
              /\ \A x \in T : /\ Least(h, After(h, T, x), k[x].next)
                              /\ Greatest(h, Before(h, T, x), k[x].prev)
         /\ Distinct(k, T) <=> Distinct(h, T)
<1>1. ASSUME NEW U \in SUBSET (1 .. N), NEW y
      PROVE  (Least(k, U, y) <=> Least(h, U, y)) /\ (Greatest(k, U, y) <=> Greatest(h, U, y))
  <2>1. \A x \in U : k[x].plane_no = h[x].plane_no
    OBVIOUS
  <2>2. QED
    BY <2>1, Zenon DEF Least, Greatest
<1>2. ASSUME NEW x \in T PROVE /\ After(k, T, x) = After(h, T, x) /\ Before(k, T, x) = Before(h, T, x)
                               /\ After(h, T, x) \in SUBSET (1 .. N) /\ Before(h, T, x) \in SUBSET (1 .. N)
  BY DEF After, Before
<1>3. ASSUME NEW x \in T
      PROVE  /\ Least(k, After(k, T, x), k[x].next) <=> Least(h, After(h, T, x), k[x].next)
             /\ Greatest(k, Before(k, T, x), k[x].prev) <=> Greatest(h, Before(h, T, x), k[x].prev)
  BY <1>1, <1>2, Zenon
<1>4. Distinct(k, T) <=> Distinct(h, T)
  BY DEF Distinct
<1>5. QED
  BY <1>1, <1>3, <1>4, Zenon DEF IsList

LEMMA DeletedList ==
  ASSUME NEW N \in Nat, NEW h \in [1 .. N -> Plane], NEW S \in SUBSET (1 .. N), NEW l \in [head : Nat, tail : Nat],
         IsList(h, l, S), Distinct(h, S), NEW p \in S,
         NEW k, NEW l1, IsDeleted(h, l, p, k, l1)
  PROVE  /\ Relinked(N, h, k, S \ {p}) /\ IsList(k, l1, S \ {p}) /\ Distinct(k, S \ {p})
         /\ l1 \in [head : Nat, tail : Nat]
<1> DEFINE T == S \ {p}
<1>1. /\ Relinked(N, h, k, T)
      /\ l1.head = (IF l.head = p THEN h[p].next ELSE l.head)
      /\ l1.tail = (IF l.tail = p THEN h[p].prev ELSE l.tail)
      /\ \A x \in T : /\ k[x].next = IF h[x].next = p THEN h[p].next ELSE h[x].next
                      /\ k[x].prev = IF h[x].prev = p THEN h[p].prev ELSE h[x].prev
      /\ l1 \in [head : Nat, tail : Nat]
  BY DeleteLinks
<1>2. \A x \in 1 .. N : h[x].plane_no \in Nat
  BY PlaneNo
<1>3. T \in SUBSET (1 .. N) /\ S # {}
  OBVIOUS
<1>4. \A x \in S : h[x].plane_no = h[p].plane_no => x = p
  BY DEF Distinct
<1>5. Least(h, After(h, S, p), h[p].next) /\ Greatest(h, Before(h, S, p), h[p].prev)
  BY DEF IsList
<1>6. Least(h, T, l1.head)
  <2>1. l.head \in S /\ \A r \in S : h[l.head].plane_no <= h[r].plane_no
    BY <1>3, Zenon DEF IsList, Least
  <2>2. CASE l.head = p
    <3>1. After(h, S, p) = T
      <4>1. ASSUME NEW r \in S PROVE h[p].plane_no < h[r].plane_no <=> r # p
        <5>1. h[r].plane_no \in Nat /\ h[p].plane_no \in Nat /\ h[p].plane_no <= h[r].plane_no
          BY <1>2, <2>1, <2>2
        <5>2. QED
          BY <1>4, <5>1
      <4>2. QED
        BY <4>1 DEF After
    <3>2. QED
      BY <1>1, <1>5, <2>2, <3>1, Zenon
  <2>3. CASE l.head # p
    BY <1>1, <2>1, <2>3 DEF Least
  <2>4. QED
    BY <2>2, <2>3
<1>7. Greatest(h, T, l1.tail)
  <2>1. l.tail \in S /\ \A r \in S : h[r].plane_no <= h[l.tail].plane_no
    BY <1>3, Zenon DEF IsList, Greatest
  <2>2. CASE l.tail = p
    <3>1. Before(h, S, p) = T
      <4>1. ASSUME NEW r \in S PROVE h[r].plane_no < h[p].plane_no <=> r # p
        <5>1. h[r].plane_no \in Nat /\ h[p].plane_no \in Nat /\ h[r].plane_no <= h[p].plane_no
          BY <1>2, <2>1, <2>2
        <5>2. QED
          BY <1>4, <5>1
      <4>2. QED
        BY <4>1 DEF Before
    <3>2. QED
      BY <1>1, <1>5, <2>2, <3>1, Zenon
  <2>3. CASE l.tail # p
    BY <1>1, <2>1, <2>3 DEF Greatest
  <2>4. QED
    BY <2>2, <2>3
<1>8. ASSUME NEW x \in T PROVE Least(h, After(h, T, x), k[x].next)
  <2>1. Least(h, After(h, S, x), h[x].next) /\ After(h, T, x) = After(h, S, x) \ {p}
    BY DEF IsList, After
  <2>2. CASE h[x].next = p
    <3>1. p \in After(h, S, x) /\ \A r \in After(h, S, x) : h[p].plane_no <= h[r].plane_no
      BY <2>1, <2>2 DEF Least
    <3>2. After(h, T, x) = After(h, S, p)
      <4>1. ASSUME NEW r \in S PROVE r # p /\ h[x].plane_no < h[r].plane_no <=> h[p].plane_no < h[r].plane_no
        <5>1. h[r].plane_no \in Nat /\ h[p].plane_no \in Nat /\ h[x].plane_no \in Nat
          BY <1>2
        <5>2. h[x].plane_no < h[p].plane_no
          BY <3>1 DEF After
        <5>3. h[x].plane_no < h[r].plane_no => h[p].plane_no <= h[r].plane_no
          BY <3>1 DEF After
        <5>4. h[r].plane_no = h[p].plane_no => r = p
          BY <1>4
        <5>5. QED
          BY <5>1, <5>2, <5>3, <5>4
      <4>2. QED
        BY <4>1 DEF After
    <3>3. QED
      BY <1>1, <1>5, <2>2, <3>2, Zenon
  <2>3. CASE h[x].next # p
    BY <1>1, <2>1, <2>3 DEF Least
  <2>4. QED
    BY <2>2, <2>3
<1>9. ASSUME NEW x \in T PROVE Greatest(h, Before(h, T, x), k[x].prev)
  <2>1. Greatest(h, Before(h, S, x), h[x].prev) /\ Before(h, T, x) = Before(h, S, x) \ {p}
    BY DEF IsList, Before
  <2>2. CASE h[x].prev = p
    <3>1. p \in Before(h, S, x) /\ \A r \in Before(h, S, x) : h[r].plane_no <= h[p].plane_no
      BY <2>1, <2>2 DEF Greatest
    <3>2. Before(h, T, x) = Before(h, S, p)
      <4>1. ASSUME NEW r \in S PROVE r # p /\ h[r].plane_no < h[x].plane_no <=> h[r].plane_no < h[p].plane_no
        <5>1. h[r].plane_no \in Nat /\ h[p].plane_no \in Nat /\ h[x].plane_no \in Nat
          BY <1>2
        <5>2. h[p].plane_no < h[x].plane_no
          BY <3>1 DEF Before
        <5>3. h[r].plane_no < h[x].plane_no => h[r].plane_no <= h[p].plane_no
          BY <3>1 DEF Before
        <5>4. h[r].plane_no = h[p].plane_no => r = p
          BY <1>4
        <5>5. QED
          BY <5>1, <5>2, <5>3, <5>4
      <4>2. QED
        BY <4>1 DEF Before
    <3>3. QED
      BY <1>1, <1>5, <2>2, <3>2, Zenon
  <2>3. CASE h[x].prev # p
    BY <1>1, <2>1, <2>3 DEF Greatest
  <2>4. QED
    BY <2>2, <2>3
<1>10. \A x \in 1 .. N : k[x].plane_no = h[x].plane_no
  BY <1>1 DEF Relinked, SameFlight
<1>11. IsList(k, l1, T)
  BY <1>3, <1>6, <1>7, <1>8, <1>9, <1>10, ListOfRelinked
<1>12. Distinct(k, T)
  <2>1. Distinct(h, T)
    BY DEF Distinct
  <2>2. QED
    BY <1>3, <1>10, <2>1, ListOfRelinked
<1>13. QED
  BY <1>1, <1>11, <1>12
(* m.list is a whole list of the planes of S, on m.heap.                    *)
Whole(N, m, S) == /\ m.heap \in [1 .. N -> Plane] /\ m.list \in [head : Nat, tail : Nat]
                  /\ S \in SUBSET (1 .. N) /\ IsList(m.heap, m.list, S) /\ Distinct(m.heap, S)

(* A list is whole after delete, and the planes that are not in it are as   *)
(* they were.                                                              *)
LEMMA DeleteList ==
  ASSUME NEW N \in Nat, NEW m, NEW S, Whole(N, m, S), NEW p \in S
  PROVE  Whole(N, Delete(m, p), S \ {p}) /\ Relinked(N, m.heap, Delete(m, p).heap, S \ {p})
<1> DEFINE h == m.heap
           l == m.list
<1>1. /\ h \in [1 .. N -> Plane] /\ S \in SUBSET (1 .. N) /\ l \in [head : Nat, tail : Nat]
      /\ IsList(h, l, S) /\ Distinct(h, S)
  BY DEF Whole
<1>2. Delete(m, p) = Delete([heap |-> h, list |-> l], p)
  BY DEF Delete
<1> HIDE DEF h, l
<1> DEFINE k == Delete([heap |-> h, list |-> l], p).heap
           l1 == Delete([heap |-> h, list |-> l], p).list
<1>3. /\ Relinked(N, h, k, S \ {p}) /\ IsList(k, l1, S \ {p}) /\ Distinct(k, S \ {p})
      /\ l1 \in [head : Nat, tail : Nat]
  <2>1. IsDeleted(h, l, p, k, l1)
    BY DEF IsDeleted
  <2> HIDE DEF k, l1
  <2>2. QED
    BY <1>1, <2>1, DeletedList
<1>4. S \ {p} \in SUBSET (1 .. N) /\ k \in [1 .. N -> Plane]
  BY <1>1, <1>3 DEF Relinked
<1>5. QED
  BY <1>2, <1>3, <1>4, Zenon DEF Whole, h
(* append finds the two planes that p goes between.                        *)
LEMMA PlaceFound ==
  ASSUME NEW N \in Nat, N <= Births, NEW h \in [1 .. N -> Plane], NEW S \in SUBSET (1 .. N), NEW l,
         IsList(h, l, S), NEW p \in 1 .. N, p \notin S, Distinct(h, S \cup {p})
  PROVE  /\ Greatest(h, Before(h, S, p), Place(h, l, p).r)
         /\ Least(h, After(h, S, p), Place(h, l, p).q)
<1> DEFINE c == Chain(h, l.head)
           Stops(n) == /\ \A k \in 1 .. n : h[c[k]].plane_no < h[p].plane_no
                       /\ n < Len(c) => h[c[n + 1]].plane_no >= h[p].plane_no
           stop == CHOOSE n \in 0 .. Len(c) : Stops(n)
           r == IF stop = 0 THEN 0 ELSE c[stop]
           q == IF stop = Len(c) THEN 0 ELSE c[stop + 1]
<1>1. Place(h, l, p).r = r /\ Place(h, l, p).q = q
  BY DEF Place
<1>2. Lists(h, c, S)
  <2>1. Distinct(h, S)
    BY DEF Distinct
  <2>2. QED
    BY <2>1, ChainLists
<1> HIDE DEF c
<1>3. c \in Seq(S) /\ Len(c) \in Nat /\ \A i \in 1 .. Len(c) : c[i] \in S
  BY <1>2, ElementOfSeq DEF Lists
<1>4. h[p].plane_no \in Nat /\ \A x \in S : h[x].plane_no \in Nat /\ h[x].plane_no # h[p].plane_no
  BY PlaneNo DEF Distinct
<1>5. \E n \in 0 .. Len(c) : Stops(n)
  <2> DEFINE T == {n \in 0 .. Len(c) : n < Len(c) => h[c[n + 1]].plane_no >= h[p].plane_no}
  <2>1. T \in SUBSET Nat /\ Len(c) \in T
    BY <1>3
  <2>2. T # {}
    BY <2>1
  <2>3. PICK n \in T : \A m \in T : n <= m
    BY <2>1, <2>2, LeastNat, Zenon
  <2>4. n \in 0 .. Len(c)
    OBVIOUS
  <2>5. ASSUME NEW k \in 1 .. n PROVE h[c[k]].plane_no < h[p].plane_no
    <3>1. k - 1 \in 0 .. Len(c) /\ k - 1 < n /\ k - 1 + 1 = k /\ k \in 1 .. Len(c) /\ n \in Nat
      BY <1>3, <2>4
    <3>2. k - 1 \notin T
      <4>1. k - 1 \in T => n <= k - 1
        BY <2>3, Zenon
      <4>2. ~(n <= k - 1)
        BY <3>1
      <4>3. QED
        BY <4>1, <4>2, Zenon
    <3>3. ~(h[c[k - 1 + 1]].plane_no >= h[p].plane_no)
      BY <3>1, <3>2, Zenon
    <3>4. h[c[k]].plane_no \in Nat
      BY <1>3, <1>4, <3>1
    <3>5. QED
      BY <1>4, <3>1, <3>3, <3>4
  <2>6. QED
    BY <2>4, <2>5
<1>6. stop \in 0 .. Len(c) /\ Stops(stop)
  BY <1>5, Zenon
<1> HIDE DEF stop
<1>7. ASSUME NEW x \in S
      PROVE  \E i \in 1 .. Len(c) : c[i] = x /\ (i <= stop <=> h[x].plane_no < h[p].plane_no)
  <2>1. PICK i \in 1 .. Len(c) : c[i] = x
    BY <1>2 DEF Lists
  <2>2. i <= stop => h[x].plane_no < h[p].plane_no
    BY <1>6, <2>1
  <2>3. ASSUME ~(i <= stop) PROVE ~(h[x].plane_no < h[p].plane_no)
    <3>1. stop < Len(c) /\ stop + 1 \in 1 .. Len(c) /\ stop + 1 <= i
      BY <1>3, <1>6, <2>3
    <3>2. h[c[stop + 1]].plane_no >= h[p].plane_no
      BY <1>6, <3>1
    <3>3. stop + 1 = i \/ h[c[stop + 1]].plane_no < h[c[i]].plane_no
      BY <1>2, <3>1 DEF Lists
    <3>4. h[c[stop + 1]].plane_no \in Nat /\ h[x].plane_no \in Nat
      BY <1>3, <1>4, <3>1
    <3>5. QED
      BY <1>4, <2>1, <3>2, <3>3, <3>4, SMTT(60)
  <2>4. QED
    BY <2>1, <2>2, <2>3
<1>8. Greatest(h, Before(h, S, p), r)
  <2>1. CASE stop = 0
    <3>1. Before(h, S, p) = {}
      <4>1. \A x \in S : ~(h[x].plane_no < h[p].plane_no)
        BY <1>3, <1>7, <2>1
      <4>2. QED
        BY <4>1 DEF Before
    <3>2. QED
      BY <2>1, <3>1 DEF Greatest
  <2>2. CASE stop # 0
    <3>1. r = c[stop] /\ stop \in 1 .. Len(c) /\ r \in S
      BY <1>3, <1>6, <2>2
    <3>2. h[r].plane_no < h[p].plane_no
      BY <1>6, <3>1
    <3>3. ASSUME NEW x \in Before(h, S, p) PROVE h[x].plane_no <= h[r].plane_no
      <4>1. x \in S /\ h[x].plane_no < h[p].plane_no
        BY DEF Before
      <4>2. PICK i \in 1 .. Len(c) : c[i] = x /\ i <= stop
        BY <1>7, <4>1
      <4>3. i = stop \/ h[c[i]].plane_no < h[c[stop]].plane_no
        BY <1>2, <3>1, <4>2 DEF Lists
      <4>4. QED
        <5>1. h[c[stop]].plane_no \in Nat /\ h[x].plane_no \in Nat
          BY <1>4, <3>1, <4>1
        <5>2. h[x].plane_no <= h[c[stop]].plane_no
          BY <4>2, <4>3, <5>1
        <5>3. QED
          BY <3>1, <5>2
    <3>4. r \in Before(h, S, p)
      BY <3>1, <3>2 DEF Before
    <3> HIDE DEF r
    <3>5. QED
      BY <3>3, <3>4, Zenon DEF Greatest
  <2>3. QED
    BY <2>1, <2>2
<1>9. Least(h, After(h, S, p), q)
  <2>1. CASE stop = Len(c)
    <3>1. ASSUME NEW x \in S PROVE ~(h[p].plane_no < h[x].plane_no)
      <4>1. h[x].plane_no < h[p].plane_no
        BY <1>7, <2>1
      <4>2. QED
        BY <1>4, <4>1
    <3>2. After(h, S, p) = {}
      BY <3>1 DEF After
    <3>3. QED
      BY <2>1, <3>2 DEF Least
  <2>2. CASE stop # Len(c)
    <3>1. q = c[stop + 1] /\ stop + 1 \in 1 .. Len(c) /\ q \in S /\ stop < Len(c)
      BY <1>3, <1>6, <2>2
    <3>2. h[p].plane_no < h[q].plane_no
      <4>1. h[c[stop + 1]].plane_no >= h[p].plane_no
        BY <1>6, <3>1
      <4>2. h[c[stop + 1]].plane_no \in Nat /\ h[c[stop + 1]].plane_no # h[p].plane_no
        BY <1>4, <3>1
      <4>3. h[p].plane_no < h[c[stop + 1]].plane_no
        BY <1>4, <4>1, <4>2
      <4>4. QED
        BY <3>1, <4>3
    <3>3. ASSUME NEW x \in After(h, S, p) PROVE h[q].plane_no <= h[x].plane_no
      <4>1. x \in S /\ h[p].plane_no < h[x].plane_no
        BY DEF After
      <4>2. ~(h[x].plane_no < h[p].plane_no)
        BY <1>4, <4>1
      <4>3. PICK i \in 1 .. Len(c) : c[i] = x /\ ~(i <= stop)
        BY <1>7, <4>1, <4>2
      <4>4. i = stop + 1 \/ h[c[stop + 1]].plane_no < h[c[i]].plane_no
        BY <1>2, <1>6, <3>1, <4>3 DEF Lists
      <4>5. QED
        <5>1. h[c[stop + 1]].plane_no \in Nat /\ h[x].plane_no \in Nat
          BY <1>4, <3>1, <4>1
        <5>2. h[c[stop + 1]].plane_no <= h[x].plane_no
          BY <4>3, <4>4, <5>1, SMTT(60)
        <5>3. QED
          BY <3>1, <5>2
    <3>4. q \in After(h, S, p)
      BY <3>1, <3>2 DEF After
    <3> HIDE DEF q
    <3>5. QED
      BY <3>3, <3>4, Zenon DEF Least
  <2>3. QED
    BY <2>1, <2>2
<1>10. QED
  BY <1>1, <1>8, <1>9
IsInserted(h, l, p, k, l1) == /\ k = Insert([heap |-> h, list |-> l], p).heap
                              /\ l1 = Insert([heap |-> h, list |-> l], p).list

Between(N, h, l, S, p, k, l1, r, q) ==
  /\ Greatest(h, Before(h, S, p), r) /\ Least(h, After(h, S, p), q)
  /\ Relinked(N, h, k, S \cup {p})
  /\ l1 = [head |-> IF r = 0 THEN p ELSE l.head, tail |-> IF q = 0 THEN p ELSE l.tail]
  /\ k[p].next = q /\ k[p].prev = r
  /\ \A x \in S : /\ k[x].next = IF x = r THEN p ELSE h[x].next
                  /\ k[x].prev = IF x = q THEN p ELSE h[x].prev
  /\ l1 \in [head : Nat, tail : Nat]

(* What append does to each link.                                          *)
LEMMA InsertLinks ==
  ASSUME NEW N \in Nat, N <= Births, NEW h \in [1 .. N -> Plane], NEW S \in SUBSET (1 .. N),
         NEW l \in [head : Nat, tail : Nat],
         IsList(h, l, S), NEW p \in 1 .. N, p \notin S, Distinct(h, S \cup {p}),
         NEW k, NEW l1, IsInserted(h, l, p, k, l1)
  PROVE  \E r, q : Between(N, h, l, S, p, k, l1, r, q)
<1> DEFINE r == Place(h, l, p).r
           q == Place(h, l, p).q
<1>1. Greatest(h, Before(h, S, p), r) /\ Least(h, After(h, S, p), q)
  BY PlaceFound
<1>2. /\ k = [x \in 1 .. N |-> [h[x] EXCEPT !.next = IF x = p THEN q ELSE IF x = r THEN p ELSE @,
                                            !.prev = IF x = p THEN r ELSE IF x = q THEN p ELSE @]]
      /\ l1 = [head |-> IF r = 0 THEN p ELSE l.head, tail |-> IF q = 0 THEN p ELSE l.tail]
  BY DEF IsInserted, Insert, LinkIn
<1> HIDE DEF r, q
<1>3. r \in S \cup {0} /\ q \in S \cup {0} /\ (r = q => r = 0)
  <2>1. r = 0 \/ (r \in S /\ h[r].plane_no < h[p].plane_no)
    BY <1>1 DEF Greatest, Before
  <2>2. q = 0 \/ (q \in S /\ h[p].plane_no < h[q].plane_no)
    BY <1>1 DEF Least, After
  <2>3. h[p].plane_no \in Nat /\ \A x \in S : h[x].plane_no \in Nat
    BY PlaneNo
  <2>4. ~(r \in S /\ q \in S /\ r = q)
    <3> SUFFICES ASSUME r \in S, q \in S, r = q PROVE FALSE
      OBVIOUS
    <3>1. h[r].plane_no < h[p].plane_no /\ h[p].plane_no < h[r].plane_no /\ h[r].plane_no \in Nat
      BY <2>1, <2>2, <2>3
    <3>2. QED
      BY <2>3, <3>1
  <2>5. QED
    BY <2>1, <2>2, <2>4
<1>4. r \in Nat /\ q \in Nat /\ p \in Nat /\ p # r /\ p # q
  BY <1>3
<1>5. \A x \in 1 .. N : h[x] \in Plane /\ SameFlight(h[x], h[x])
  BY DEF SameFlight
<1>6. ASSUME NEW x \in 1 .. N
      PROVE  /\ k[x] \in Plane /\ SameFlight(k[x], h[x])
             /\ k[x].next = IF x = p THEN q ELSE IF x = r THEN p ELSE h[x].next
             /\ k[x].prev = IF x = p THEN r ELSE IF x = q THEN p ELSE h[x].prev
  <2> DEFINE a == h[x]
             next == IF x = p THEN q ELSE IF x = r THEN p ELSE a.next
             prev == IF x = p THEN r ELSE IF x = q THEN p ELSE a.prev
  <2>1. k[x] = [a EXCEPT !.next = next, !.prev = prev]
    BY <1>2
  <2>2. a \in Plane /\ next \in Nat /\ prev \in Nat
    BY <1>4, PlaneNo
  <2> HIDE DEF a, next, prev
  <2> DEFINE b == k[x]
  <2>3. b = [a EXCEPT !.next = next, !.prev = prev]
    BY <2>1
  <2> HIDE DEF b
  <2>4. b \in Plane /\ SameFlight(b, a) /\ b.next = next /\ b.prev = prev
    <3>1. a \in Plane /\ next \in Nat /\ prev \in Nat
      BY <2>2
    <3> DEFINE e == [a EXCEPT !.next = next, !.prev = prev]
    <3>2. e \in Plane /\ SameFlight(e, a) /\ e.next = next /\ e.prev = prev
      <4>1. e \in Plane
        BY <3>1 DEF Plane
      <4>2. e.next = next /\ e.prev = prev
        BY <3>1 DEF Plane
      <4>3. SameFlight(e, a)
        BY <3>1 DEF Plane, SameFlight
      <4>4. QED
        BY <4>1, <4>2, <4>3
    <3>3. b = e
      BY <2>3
    <3> HIDE DEF e
    <3>4. QED
      BY <3>2, <3>3
  <2>5. QED
    BY <2>4 DEF a, b, next, prev
<1>7. ASSUME NEW x \in 1 .. N, x \notin S \cup {p} PROVE k[x] = h[x]
  <2>1. x # p /\ x # r /\ x # q
    BY <1>3, <1>7
  <2>2. k[x] = [h[x] EXCEPT !.next = @, !.prev = @]
    BY <1>2, <2>1
  <2>3. QED
    BY <2>2 DEF Plane
<1>8. k = [x \in 1 .. N |-> k[x]]
  BY <1>2
<1>9. Relinked(N, h, k, S \cup {p})
  BY <1>6, <1>7, <1>8 DEF Relinked
<1>10. ASSUME NEW x \in S PROVE /\ k[x].next = IF x = r THEN p ELSE h[x].next
                                /\ k[x].prev = IF x = q THEN p ELSE h[x].prev
  BY <1>6
<1>11. l1 \in [head : Nat, tail : Nat]
  BY <1>2, <1>4
<1>12. k[p].next = q /\ k[p].prev = r
  BY <1>6
<1>13. Between(N, h, l, S, p, k, l1, r, q)
  BY <1>1, <1>2, <1>9, <1>10, <1>11, <1>12, Zenon DEF Between
<1>14. QED
  BY <1>13, Zenon

LEMMA InsertedList ==
  ASSUME NEW N \in Nat, NEW h \in [1 .. N -> Plane], NEW S \in SUBSET (1 .. N),
         NEW l \in [head : Nat, tail : Nat],
         IsList(h, l, S), NEW p \in 1 .. N, p \notin S, Distinct(h, S \cup {p}),
         NEW k, NEW l1, NEW r, NEW q, Between(N, h, l, S, p, k, l1, r, q)
  PROVE  /\ Relinked(N, h, k, S \cup {p}) /\ IsList(k, l1, S \cup {p}) /\ Distinct(k, S \cup {p})
         /\ l1 \in [head : Nat, tail : Nat]
<1> DEFINE T == S \cup {p}
<1>1. /\ l1.head = (IF r = 0 THEN p ELSE l.head)
      /\ l1.tail = (IF q = 0 THEN p ELSE l.tail)
      /\ k[p].next = q /\ k[p].prev = r
      /\ \A x \in S : /\ k[x].next = IF x = r THEN p ELSE h[x].next
                      /\ k[x].prev = IF x = q THEN p ELSE h[x].prev
  BY DEF Between
<1>2. \A x \in T : h[x].plane_no \in Nat
  BY PlaneNo
<1>3. T \in SUBSET (1 .. N) /\ 0 \notin S /\ S \subseteq T /\ p \in T
  OBVIOUS
<1>4. \A x \in S : h[x].plane_no # h[p].plane_no
  BY DEF Distinct
<1>5. \A x, y \in S : h[x].plane_no = h[y].plane_no => x = y
  BY DEF Distinct
<1>6. /\ r = 0 => \A x \in S : h[p].plane_no < h[x].plane_no
      /\ r # 0 => /\ r \in S /\ h[r].plane_no < h[p].plane_no
                  /\ \A x \in S : h[x].plane_no < h[p].plane_no => h[x].plane_no <= h[r].plane_no
  <2>1. Greatest(h, Before(h, S, p), r)
    BY DEF Between
  <2>2. CASE r = 0
    <3>1. Before(h, S, p) = {}
      BY <1>3, <2>1, <2>2 DEF Greatest, Before
    <3>2. \A x \in S : ~(h[x].plane_no < h[p].plane_no)
      BY <3>1 DEF Before
    <3>3. QED
      BY <1>2, <1>3, <1>4, <2>2, <3>2
  <2>3. CASE r # 0
    BY <2>1, <2>3 DEF Greatest, Before
  <2>4. QED
    BY <2>2, <2>3
<1>7. /\ q = 0 => \A x \in S : h[x].plane_no < h[p].plane_no
      /\ q # 0 => /\ q \in S /\ h[p].plane_no < h[q].plane_no
                  /\ \A x \in S : h[p].plane_no < h[x].plane_no => h[q].plane_no <= h[x].plane_no
  <2>1. Least(h, After(h, S, p), q)
    BY DEF Between
  <2>2. CASE q = 0
    <3>1. After(h, S, p) = {}
      BY <1>3, <2>1, <2>2 DEF Least, After
    <3>2. \A x \in S : ~(h[p].plane_no < h[x].plane_no)
      BY <3>1 DEF After
    <3>3. QED
      BY <1>2, <1>3, <1>4, <2>2, <3>2
  <2>3. CASE q # 0
    BY <2>1, <2>3 DEF Least, After
  <2>4. QED
    BY <2>2, <2>3
<1>8. Least(h, T, l1.head)
  <2>1. CASE r = 0
    <3>1. l1.head = p /\ \A x \in T : h[p].plane_no <= h[x].plane_no
      <4>1. \A x \in S : h[p].plane_no < h[x].plane_no
        BY <1>6, <2>1
      <4>2. QED
        BY <1>1, <1>2, <2>1, <4>1
    <3>2. QED
      BY <1>3, <3>1 DEF Least
  <2>2. CASE r # 0
    <3>1. l.head \in S /\ \A x \in S : h[l.head].plane_no <= h[x].plane_no
      BY <1>6, <2>2 DEF IsList, Least
    <3>2. h[l.head].plane_no <= h[r].plane_no /\ h[r].plane_no < h[p].plane_no /\ r \in T /\ l.head \in T
      BY <1>6, <2>2, <3>1
    <3>3. h[l.head].plane_no <= h[p].plane_no
      BY <1>2, <1>3, <3>2
    <3>4. QED
      BY <1>1, <2>2, <3>1, <3>3 DEF Least
  <2>3. QED
    BY <2>1, <2>2
<1>9. Greatest(h, T, l1.tail)
  <2>1. CASE q = 0
    <3>1. l1.tail = p /\ \A x \in T : h[x].plane_no <= h[p].plane_no
      BY <1>1, <1>2, <1>7, <2>1
    <3>2. QED
      BY <1>3, <3>1 DEF Greatest
  <2>2. CASE q # 0
    <3>1. l.tail \in S /\ \A x \in S : h[x].plane_no <= h[l.tail].plane_no
      BY <1>7, <2>2 DEF IsList, Greatest
    <3>2. h[q].plane_no <= h[l.tail].plane_no /\ h[p].plane_no < h[q].plane_no /\ q \in T /\ l.tail \in T
      BY <1>7, <2>2, <3>1
    <3>3. h[p].plane_no <= h[l.tail].plane_no
      BY <1>2, <1>3, <3>2
    <3>4. QED
      BY <1>1, <2>2, <3>1, <3>3 DEF Greatest
  <2>3. QED
    BY <2>1, <2>2
<1>10. ASSUME NEW x \in S PROVE Least(h, After(h, T, x), k[x].next)
  <2>1. Least(h, After(h, S, x), h[x].next)
    BY DEF IsList
  <2>2. h[x].plane_no \in Nat /\ h[p].plane_no \in Nat /\ h[x].plane_no # h[p].plane_no
    BY <1>2, <1>4
  <2>3. CASE h[p].plane_no < h[x].plane_no
    <3>1. ~(h[x].plane_no < h[p].plane_no)
      BY <2>2, <2>3
    <3>2. After(h, T, x) = After(h, S, x)
      BY <3>1 DEF After
    <3>3. x # r
      BY <1>3, <1>6, <3>1
    <3>4. QED
      BY <1>1, <2>1, <3>2, <3>3
  <2>4. CASE h[x].plane_no < h[p].plane_no
    <3>1. r # 0 /\ r \in S /\ h[x].plane_no <= h[r].plane_no
      <4>1. r # 0
        BY <1>6, <2>2, <2>4
      <4>2. QED
        BY <1>6, <2>4, <4>1
    <3>2. After(h, T, x) = After(h, S, x) \cup {p}
      BY <2>4 DEF After
    <3>3. CASE x = r
      <4>1. ASSUME NEW y \in After(h, S, x) PROVE h[p].plane_no <= h[y].plane_no
        <5>1. y \in S /\ h[x].plane_no < h[y].plane_no /\ h[y].plane_no \in Nat
          BY <1>2 DEF After
        <5>2. ~(h[y].plane_no < h[p].plane_no)
          <6>1. h[y].plane_no < h[p].plane_no => h[y].plane_no <= h[r].plane_no
            BY <1>6, <3>1, <5>1
          <6>2. QED
            BY <2>2, <3>3, <5>1, <6>1
        <5>3. QED
          BY <2>2, <5>1, <5>2
      <4>2. k[x].next = p
        BY <1>1, <3>3
      <4>3. h[p].plane_no <= h[p].plane_no
        BY <2>2
      <4>4. QED
        BY <3>2, <4>1, <4>2, <4>3 DEF Least
    <3>4. CASE x # r
      <4>1. r \in After(h, S, x)
        <5>1. h[x].plane_no # h[r].plane_no /\ h[r].plane_no \in Nat
          BY <1>2, <1>5, <3>1, <3>4
        <5>2. QED
          BY <2>2, <3>1, <5>1 DEF After
      <4> DEFINE y == h[x].next
      <4>2. y \in After(h, S, x) /\ h[y].plane_no <= h[r].plane_no /\ \A z \in After(h, S, x) : h[y].plane_no <= h[z].plane_no
        BY <2>1, <4>1 DEF Least
      <4>3. h[y].plane_no <= h[p].plane_no
        <5>1. h[y].plane_no \in Nat /\ h[r].plane_no \in Nat
          BY <1>2, <3>1, <4>2 DEF After
        <5>2. h[r].plane_no < h[p].plane_no
          BY <1>6, <3>1
        <5>3. QED
          BY <2>2, <4>2, <5>1, <5>2, SMTT(60)
      <4>4. k[x].next = y
        BY <1>1, <3>4
      <4> HIDE DEF y
      <4>5. QED
        BY <3>2, <4>2, <4>3, <4>4 DEF Least
    <3>5. QED
      BY <3>3, <3>4
  <2>5. QED
    BY <2>2, <2>3, <2>4
<1>11. ASSUME NEW x \in S PROVE Greatest(h, Before(h, T, x), k[x].prev)
  <2>1. Greatest(h, Before(h, S, x), h[x].prev)
    BY DEF IsList
  <2>2. h[x].plane_no \in Nat /\ h[p].plane_no \in Nat /\ h[x].plane_no # h[p].plane_no
    BY <1>2, <1>4
  <2>3. CASE h[x].plane_no < h[p].plane_no
    <3>1. ~(h[p].plane_no < h[x].plane_no)
      BY <2>2, <2>3
    <3>2. Before(h, T, x) = Before(h, S, x)
      BY <3>1 DEF Before
    <3>3. x # q
      BY <1>3, <1>7, <3>1
    <3>4. QED
      BY <1>1, <2>1, <3>2, <3>3
  <2>4. CASE h[p].plane_no < h[x].plane_no
    <3>1. q # 0 /\ q \in S /\ h[q].plane_no <= h[x].plane_no
      <4>1. q # 0
        BY <1>7, <2>2, <2>4
      <4>2. QED
        BY <1>7, <2>4, <4>1
    <3>2. Before(h, T, x) = Before(h, S, x) \cup {p}
      BY <2>4 DEF Before
    <3>3. CASE x = q
      <4>1. ASSUME NEW y \in Before(h, S, x) PROVE h[y].plane_no <= h[p].plane_no
        <5>1. y \in S /\ h[y].plane_no < h[x].plane_no /\ h[y].plane_no \in Nat
          BY <1>2 DEF Before
        <5>2. ~(h[p].plane_no < h[y].plane_no)
          <6>1. h[p].plane_no < h[y].plane_no => h[q].plane_no <= h[y].plane_no
            BY <1>7, <3>1, <5>1
          <6>2. QED
            BY <2>2, <3>3, <5>1, <6>1
        <5>3. QED
          BY <2>2, <5>1, <5>2
      <4>2. k[x].prev = p
        BY <1>1, <3>3
      <4>3. h[p].plane_no <= h[p].plane_no
        BY <2>2
      <4>4. QED
        BY <3>2, <4>1, <4>2, <4>3 DEF Greatest
    <3>4. CASE x # q
      <4>1. q \in Before(h, S, x)
        <5>1. h[x].plane_no # h[q].plane_no /\ h[q].plane_no \in Nat
          BY <1>2, <1>5, <3>1, <3>4
        <5>2. QED
          BY <2>2, <3>1, <5>1 DEF Before
      <4> DEFINE y == h[x].prev
      <4>2. y \in Before(h, S, x) /\ h[q].plane_no <= h[y].plane_no /\ \A z \in Before(h, S, x) : h[z].plane_no <= h[y].plane_no
        BY <2>1, <4>1 DEF Greatest
      <4>3. h[p].plane_no <= h[y].plane_no
        <5>1. h[y].plane_no \in Nat /\ h[q].plane_no \in Nat
          BY <1>2, <3>1, <4>2 DEF Before
        <5>2. h[p].plane_no < h[q].plane_no
          BY <1>7, <3>1
        <5>3. QED
          BY <2>2, <4>2, <5>1, <5>2
      <4>4. k[x].prev = y
        BY <1>1, <3>4
      <4> HIDE DEF y
      <4>5. QED
        BY <3>2, <4>2, <4>3, <4>4 DEF Greatest
    <3>5. QED
      BY <3>3, <3>4
  <2>5. QED
    BY <2>2, <2>3, <2>4
<1>12. Least(h, After(h, T, p), k[p].next) /\ Greatest(h, Before(h, T, p), k[p].prev)
  <2>1. After(h, T, p) = After(h, S, p) /\ Before(h, T, p) = Before(h, S, p)
    BY <1>2 DEF After, Before
  <2>2. QED
    BY <1>1, <2>1 DEF Between
<1>13. \A x \in 1 .. N : k[x].plane_no = h[x].plane_no
  BY DEF Between, Relinked, SameFlight
<1>14. \A x \in T : Least(h, After(h, T, x), k[x].next) /\ Greatest(h, Before(h, T, x), k[x].prev)
  BY <1>10, <1>11, <1>12
<1>15. IsList(k, l1, T) /\ Distinct(k, T)
  BY <1>3, <1>8, <1>9, <1>13, <1>14, ListOfRelinked
<1>16. QED
  BY <1>15 DEF Between

(* A list is whole after append, and the planes that are not in it are as  *)
(* they were.                                                              *)
LEMMA InsertList ==
  ASSUME NEW N \in Nat, N <= Births, NEW m, NEW S, Whole(N, m, S), NEW p \in 1 .. N, p \notin S,
         Distinct(m.heap, S \cup {p})
  PROVE  Whole(N, Insert(m, p), S \cup {p}) /\ Relinked(N, m.heap, Insert(m, p).heap, S \cup {p})
<1> DEFINE h == m.heap
           l == m.list
<1>1. /\ h \in [1 .. N -> Plane] /\ S \in SUBSET (1 .. N) /\ l \in [head : Nat, tail : Nat]
      /\ IsList(h, l, S) /\ Distinct(h, S \cup {p})
  BY DEF Whole
<1>2. Insert(m, p) = Insert([heap |-> h, list |-> l], p)
  BY DEF Insert, LinkIn
<1> HIDE DEF h, l
<1> DEFINE k == Insert([heap |-> h, list |-> l], p).heap
           l1 == Insert([heap |-> h, list |-> l], p).list
<1>3. /\ Relinked(N, h, k, S \cup {p}) /\ IsList(k, l1, S \cup {p}) /\ Distinct(k, S \cup {p})
      /\ l1 \in [head : Nat, tail : Nat]
  <2>1. IsInserted(h, l, p, k, l1)
    BY DEF IsInserted
  <2> HIDE DEF k, l1
  <2>2. PICK r, q : Between(N, h, l, S, p, k, l1, r, q)
    BY <1>1, <2>1, InsertLinks
  <2>3. QED
    BY <1>1, <2>2, InsertedList
<1>4. S \cup {p} \in SUBSET (1 .. N) /\ k \in [1 .. N -> Plane]
  BY <1>1, <1>3 DEF Relinked
<1>5. QED
  BY <1>2, <1>3, <1>4, Zenon DEF Whole, h
-----------------------------------------------------------------------------
(* The rounds of the two loops of update that move planes between lists.   *)
TakeOffRound(h, order, m, n) == IF h[order[n]].new_altitude > 0 THEN TakeOff(m, order[n]) ELSE m
GoneRound(h, order, m, n) == IF h[order[n]].status = "gone" THEN Delete(m, order[n]) ELSE m

LEMMA TakeOffRounds ==
  ASSUME NEW h, NEW a, NEW g, NEW order, order = Chain(h, g.head), Len(order) \in Nat
  PROVE  \E f : /\ f[0] = [heap |-> h, air |-> a, ground |-> g]
                /\ \A n \in 1 .. Len(order) : f[n] = TakeOffRound(h, order, f[n - 1], n)
                /\ f[Len(order)] = TakenOff(h, a, g)
<1> DEFINE L == Len(order)
           start == [heap |-> h, air |-> a, ground |-> g]
           Rounds(k, f) == [n \in 0 .. k |-> IF n = 0 THEN start ELSE TakeOffRound(h, order, f[n - 1], n)]
           P == [k \in 0 .. L |-> \E f : f = Rounds(k, f)]
<1> HIDE DEF start
<1>1. P[0]
  <2> DEFINE e == [n \in 0 .. 0 |-> start]
  <2>1. e = Rounds(0, e)
    OBVIOUS
  <2> HIDE DEF e, Rounds
  <2>2. 0 \in 0 .. L
    OBVIOUS
  <2>3. QED
    BY <2>1, <2>2, Zenon
<1>2. ASSUME NEW k \in 1 .. L, P[k - 1] PROVE P[k]
  <2>1. k - 1 \in 0 .. L /\ k \in 0 .. L
    OBVIOUS
  <2>2. PICK f : f = Rounds(k - 1, f)
    <3> HIDE DEF Rounds
    <3>1. QED
      BY <1>2, <2>1, Zenon
  <2> DEFINE last == TakeOffRound(h, order, f[k - 1], k)
             e == [n \in 0 .. k |-> IF n = k THEN last ELSE f[n]]
  <2> HIDE DEF last
  <2>3. ASSUME NEW n \in 0 .. k PROVE e[n] = IF n = 0 THEN start ELSE TakeOffRound(h, order, e[n - 1], n)
    <3>1. CASE n = k
      <4>1. k # 0 /\ k - 1 \in 0 .. k /\ k - 1 # k
        OBVIOUS
      <4>2. e[k - 1] = f[k - 1] /\ e[k] = last
        BY <4>1
      <4> HIDE DEF e
      <4>3. QED
        BY <3>1, <4>1, <4>2, Zenon DEF last
    <3>2. CASE n # k
      <4>1. n \in 0 .. k - 1 /\ (n # 0 => n - 1 \in 0 .. k /\ n - 1 # k)
        BY <3>2
      <4>2. e[n] = f[n] /\ (n # 0 => e[n - 1] = f[n - 1])
        BY <3>2, <4>1
      <4> HIDE DEF e
      <4>3. f[n] = IF n = 0 THEN start ELSE TakeOffRound(h, order, f[n - 1], n)
        BY <2>2, <4>1, Zenon
      <4>4. QED
        BY <4>2, <4>3, Zenon
    <3>3. QED
      BY <3>1, <3>2
  <2>4. e = [n \in 0 .. k |-> e[n]]
    OBVIOUS
  <2> HIDE DEF e
  <2>5. e = Rounds(k, e)
    BY <2>3, <2>4, Zenon
  <2> HIDE DEF Rounds
  <2>6. QED
    BY <2>1, <2>5, Zenon
<1>3. \A k \in 0 .. L : P[k]
  <2> HIDE DEF P
  <2>1. QED
    BY <1>1, <1>2, Induction
<1>4. \E f : f = Rounds(L, f)
  <2>1. L \in 0 .. L
    OBVIOUS
  <2> HIDE DEF Rounds, L
  <2>2. QED
    BY <1>3, <2>1, Zenon
<1> DEFINE upTo == CHOOSE f : f = Rounds(L, f)
<1>5. upTo = Rounds(L, upTo)
  <2> HIDE DEF Rounds, L
  <2>1. QED
    BY <1>4, Zenon
<1>6. TakenOff(h, a, g) = upTo[L]
  BY Zenon DEF TakenOff, TakeOffRound, start
<1> HIDE DEF upTo
<1>7. upTo[0] = start
  BY <1>5
<1>8. ASSUME NEW n \in 1 .. L PROVE upTo[n] = TakeOffRound(h, order, upTo[n - 1], n)
  <2>1. n \in 0 .. L /\ n # 0
    OBVIOUS
  <2>2. QED
    BY <1>5, <2>1, Zenon
<1>9. QED
  BY <1>6, <1>7, <1>8, Zenon DEF start

LEMMA GoneRounds ==
  ASSUME NEW h, NEW a, NEW order, order = Chain(h, a.head), Len(order) \in Nat
  PROVE  \E f : /\ f[0] = [heap |-> h, list |-> a]
                /\ \A n \in 1 .. Len(order) : f[n] = GoneRound(h, order, f[n - 1], n)
                /\ f[Len(order)] = WithoutGone(h, a)
<1> DEFINE L == Len(order)
           start == [heap |-> h, list |-> a]
           Rounds(k, f) == [n \in 0 .. k |-> IF n = 0 THEN start ELSE GoneRound(h, order, f[n - 1], n)]
           P == [k \in 0 .. L |-> \E f : f = Rounds(k, f)]
<1> HIDE DEF start
<1>1. P[0]
  <2> DEFINE e == [n \in 0 .. 0 |-> start]
  <2>1. e = Rounds(0, e)
    OBVIOUS
  <2> HIDE DEF e, Rounds
  <2>2. 0 \in 0 .. L
    OBVIOUS
  <2>3. QED
    BY <2>1, <2>2, Zenon
<1>2. ASSUME NEW k \in 1 .. L, P[k - 1] PROVE P[k]
  <2>1. k - 1 \in 0 .. L /\ k \in 0 .. L
    OBVIOUS
  <2>2. PICK f : f = Rounds(k - 1, f)
    <3> HIDE DEF Rounds
    <3>1. QED
      BY <1>2, <2>1, Zenon
  <2> DEFINE last == GoneRound(h, order, f[k - 1], k)
             e == [n \in 0 .. k |-> IF n = k THEN last ELSE f[n]]
  <2> HIDE DEF last
  <2>3. ASSUME NEW n \in 0 .. k PROVE e[n] = IF n = 0 THEN start ELSE GoneRound(h, order, e[n - 1], n)
    <3>1. CASE n = k
      <4>1. k # 0 /\ k - 1 \in 0 .. k /\ k - 1 # k
        OBVIOUS
      <4>2. e[k - 1] = f[k - 1] /\ e[k] = last
        BY <4>1
      <4> HIDE DEF e
      <4>3. QED
        BY <3>1, <4>1, <4>2, Zenon DEF last
    <3>2. CASE n # k
      <4>1. n \in 0 .. k - 1 /\ (n # 0 => n - 1 \in 0 .. k /\ n - 1 # k)
        BY <3>2
      <4>2. e[n] = f[n] /\ (n # 0 => e[n - 1] = f[n - 1])
        BY <3>2, <4>1
      <4> HIDE DEF e
      <4>3. f[n] = IF n = 0 THEN start ELSE GoneRound(h, order, f[n - 1], n)
        BY <2>2, <4>1, Zenon
      <4>4. QED
        BY <4>2, <4>3, Zenon
    <3>3. QED
      BY <3>1, <3>2
  <2>4. e = [n \in 0 .. k |-> e[n]]
    OBVIOUS
  <2> HIDE DEF e
  <2>5. e = Rounds(k, e)
    BY <2>3, <2>4, Zenon
  <2> HIDE DEF Rounds
  <2>6. QED
    BY <2>1, <2>5, Zenon
<1>3. \A k \in 0 .. L : P[k]
  <2> HIDE DEF P
  <2>1. QED
    BY <1>1, <1>2, Induction
<1>4. \E f : f = Rounds(L, f)
  <2>1. L \in 0 .. L
    OBVIOUS
  <2> HIDE DEF Rounds, L
  <2>2. QED
    BY <1>3, <2>1, Zenon
<1> DEFINE upTo == CHOOSE f : f = Rounds(L, f)
<1>5. upTo = Rounds(L, upTo)
  <2> HIDE DEF Rounds, L
  <2>1. QED
    BY <1>4, Zenon
<1>6. WithoutGone(h, a) = upTo[L]
  BY Zenon DEF WithoutGone, GoneRound, start
<1> HIDE DEF upTo
<1>7. upTo[0] = start
  BY <1>5
<1>8. ASSUME NEW n \in 1 .. L PROVE upTo[n] = GoneRound(h, order, upTo[n - 1], n)
  <2>1. n \in 0 .. L /\ n # 0
    OBVIOUS
  <2>2. QED
    BY <1>5, <2>1, Zenon
<1>9. QED
  BY <1>6, <1>7, <1>8, Zenon DEF start

(* A list does not see what is done to the links of other planes.          *)
LEMMA OtherList ==
  ASSUME NEW N \in Nat, NEW h, NEW k, NEW l, NEW S, NEW R,
         Whole(N, [heap |-> h, list |-> l], S), Relinked(N, h, k, R), R \cap S = {}
  PROVE  Whole(N, [heap |-> k, list |-> l], S)
<1>1. /\ h \in [1 .. N -> Plane] /\ S \in SUBSET (1 .. N) /\ l \in [head : Nat, tail : Nat]
      /\ IsList(h, l, S) /\ Distinct(h, S)
  BY DEF Whole
<1>2. k \in [1 .. N -> Plane] /\ (\A x \in 1 .. N : k[x].plane_no = h[x].plane_no)
      /\ \A x \in S : k[x] = h[x]
  BY <1>1 DEF Relinked, SameFlight
<1>3. IsList(k, l, S) /\ Distinct(k, S)
  <2>1. /\ Least(h, S, l.head) /\ Greatest(h, S, l.tail)
        /\ \A x \in S : /\ Least(h, After(h, S, x), k[x].next)
                        /\ Greatest(h, Before(h, S, x), k[x].prev)
    BY <1>1, <1>2 DEF IsList
  <2>2. QED
    BY <1>1, <1>2, <2>1, ListOfRelinked
<1>4. QED
  BY <1>1, <1>2, <1>3 DEF Whole

LEMMA RelinkedTwice ==
  ASSUME NEW N \in Nat, NEW h, NEW k, NEW e, NEW R, NEW S,
         Relinked(N, h, k, R), Relinked(N, k, e, S), S \subseteq R
  PROVE  Relinked(N, h, e, R)
<1>1. e \in [1 .. N -> Plane]
  BY DEF Relinked
<1>2. ASSUME NEW x \in 1 .. N PROVE SameFlight(e[x], h[x])
  <2>1. SameFlight(e[x], k[x]) /\ SameFlight(k[x], h[x])
    BY DEF Relinked
  <2>2. QED
    BY <2>1 DEF SameFlight
<1>3. ASSUME NEW x \in 1 .. N, x \notin R PROVE e[x] = h[x]
  BY <1>3 DEF Relinked
<1>4. QED
  BY <1>1, <1>2, <1>3 DEF Relinked

LEMMA RelinkedNot ==
  ASSUME NEW N \in Nat, NEW h \in [1 .. N -> Plane], NEW R
  PROVE  Relinked(N, h, h, R)
  BY DEF Relinked, SameFlight

LEMMA DistinctRelinked ==
  ASSUME NEW N \in Nat, NEW h, NEW k, NEW R, NEW S \in SUBSET (1 .. N), Relinked(N, h, k, R), Distinct(h, S)
  PROVE  Distinct(k, S)
<1>1. \A x \in S : k[x].plane_no = h[x].plane_no
  BY DEF Relinked, SameFlight
<1>2. QED
  BY <1>1 DEF Distinct

(* The lists after the planes of D have taken off.                         *)
Up(N, h, A, G, D, m) == /\ Whole(N, [heap |-> m.heap, list |-> m.air], A \cup D)
                        /\ Whole(N, [heap |-> m.heap, list |-> m.ground], G \ D)
                        /\ Relinked(N, h, m.heap, A \cup G)

LEMMA OneTakesOff ==
  ASSUME NEW N \in Nat, N <= Births, NEW h, NEW A \in SUBSET (1 .. N), NEW G \in SUBSET (1 .. N), NEW D \in SUBSET G,
         NEW m, Up(N, h, A, G, D, m), A \cap G = {}, Distinct(h, A \cup G), NEW q \in G \ D
  PROVE  Up(N, h, A, G, D \cup {q}, TakeOff(m, q))
<1> DEFINE off == Delete([heap |-> m.heap, list |-> m.ground], q)
           up == Insert([heap |-> off.heap, list |-> m.air], q)
<1>1. TakeOff(m, q) = [heap |-> up.heap, air |-> up.list, ground |-> off.list]
  BY DEF TakeOff
<1>2. Whole(N, off, (G \ D) \ {q}) /\ Relinked(N, m.heap, off.heap, (G \ D) \ {q})
  <2>1. Whole(N, [heap |-> m.heap, list |-> m.ground], G \ D)
    BY DEF Up
  <2>2. [heap |-> m.heap, list |-> m.ground].heap = m.heap
    OBVIOUS
  <2>3. QED
    BY <2>1, <2>2, DeleteList
<1>3. Relinked(N, h, off.heap, A \cup G)
  <2>1. Relinked(N, h, m.heap, A \cup G)
    BY DEF Up
  <2>2. (G \ D) \ {q} \subseteq A \cup G
    OBVIOUS
  <2> HIDE DEF off
  <2>3. QED
    BY <1>2, <2>1, <2>2, RelinkedTwice
<1>4. Whole(N, [heap |-> off.heap, list |-> m.air], A \cup D)
  <2>1. Whole(N, [heap |-> m.heap, list |-> m.air], A \cup D)
    BY DEF Up
  <2>2. ((G \ D) \ {q}) \cap (A \cup D) = {}
    OBVIOUS
  <2> HIDE DEF off
  <2>3. QED
    BY <1>2, <2>1, <2>2, OtherList
<1>5. Distinct(off.heap, (A \cup D) \cup {q})
  <2>1. Distinct(h, (A \cup D) \cup {q}) /\ (A \cup D) \cup {q} \in SUBSET (1 .. N)
    BY DEF Distinct
  <2> HIDE DEF off
  <2>2. QED
    BY <1>3, <2>1, DistinctRelinked
<1>6. Whole(N, up, (A \cup D) \cup {q}) /\ Relinked(N, off.heap, up.heap, (A \cup D) \cup {q})
  <2>1. q \in 1 .. N /\ q \notin A \cup D
    OBVIOUS
  <2>2. [heap |-> off.heap, list |-> m.air].heap = off.heap
    OBVIOUS
  <2> HIDE DEF off
  <2>3. QED
    BY <1>4, <1>5, <2>1, <2>2, InsertList
<1> HIDE DEF off, up
<1>7. Relinked(N, h, up.heap, A \cup G)
  <2>1. (A \cup D) \cup {q} \subseteq A \cup G
    OBVIOUS
  <2>2. QED
    BY <1>3, <1>6, <2>1, RelinkedTwice
<1>8. Whole(N, [heap |-> up.heap, list |-> off.list], (G \ D) \ {q})
  <2>1. ((A \cup D) \cup {q}) \cap ((G \ D) \ {q}) = {}
    OBVIOUS
  <2>2. Whole(N, [heap |-> off.heap, list |-> off.list], (G \ D) \ {q})
    BY <1>2 DEF Whole
  <2>3. QED
    BY <1>6, <2>1, <2>2, OtherList
<1>9. Whole(N, [heap |-> up.heap, list |-> up.list], (A \cup D) \cup {q})
  BY <1>6 DEF Whole
<1>10. (A \cup D) \cup {q} = A \cup (D \cup {q}) /\ (G \ D) \ {q} = G \ (D \cup {q})
  OBVIOUS
<1>11. QED
  BY <1>1, <1>7, <1>8, <1>9, <1>10, SMTT(60) DEF Up

(* What the loop along a list has done so far, from the planes it met.     *)
LEMMA Met ==
  ASSUME NEW h, NEW order, NEW S, Lists(h, order, S), \A x \in S : h[x].plane_no \in Nat
  PROVE  /\ Len(order) \in Nat /\ \A i \in 1 .. Len(order) : order[i] \in S
         /\ \A i, j \in 1 .. Len(order) : i # j => order[i] # order[j]
         /\ \A x \in S : \E i \in 1 .. Len(order) : order[i] = x
<1>1. Len(order) \in Nat /\ \A i \in 1 .. Len(order) : order[i] \in S
  BY ElementOfSeq DEF Lists
<1>2. ASSUME NEW i \in 1 .. Len(order), NEW j \in 1 .. Len(order), i < j PROVE order[i] # order[j]
  <2>1. h[order[i]].plane_no < h[order[j]].plane_no /\ h[order[i]].plane_no \in Nat
    BY <1>1, <1>2 DEF Lists
  <2>2. QED
    BY <2>1
<1>3. ASSUME NEW i \in 1 .. Len(order), NEW j \in 1 .. Len(order), i # j PROVE order[i] # order[j]
  <2>1. i < j \/ j < i
    BY <1>1, <1>3
  <2>2. QED
    BY <1>2, <2>1
<1>4. QED
  BY <1>1, <1>3 DEF Lists

(* The first loop of update: the planes told to climb are in the air.      *)
LEMMA TakenOffLists ==
  ASSUME NEW N \in Nat, N <= Births, NEW h, NEW a, NEW g, NEW A, NEW G,
         Whole(N, [heap |-> h, list |-> a], A), Whole(N, [heap |-> h, list |-> g], G),
         A \cap G = {}, Distinct(h, A \cup G)
  PROVE  Up(N, h, A, G, {x \in G : h[x].new_altitude > 0}, TakenOff(h, a, g))
<1> DEFINE order == Chain(h, g.head)
           D(n) == {x \in G : h[x].new_altitude > 0 /\ \E i \in 1 .. n : x = order[i]}
<1>1. /\ h \in [1 .. N -> Plane] /\ A \in SUBSET (1 .. N) /\ G \in SUBSET (1 .. N)
      /\ IsList(h, g, G) /\ Distinct(h, G)
  BY DEF Whole
<1>2. /\ Len(order) \in Nat /\ \A i \in 1 .. Len(order) : order[i] \in G
      /\ \A i, j \in 1 .. Len(order) : i # j => order[i] # order[j]
      /\ \A x \in G : \E i \in 1 .. Len(order) : order[i] = x
  <2>1. Lists(h, order, G)
    BY <1>1, ChainLists
  <2>2. \A x \in G : h[x].plane_no \in Nat
    BY <1>1, PlaneNo
  <2> HIDE DEF order
  <2>3. QED
    BY <2>1, <2>2, Met
<1>3. PICK f : /\ f[0] = [heap |-> h, air |-> a, ground |-> g]
               /\ \A n \in 1 .. Len(order) : f[n] = TakeOffRound(h, order, f[n - 1], n)
               /\ f[Len(order)] = TakenOff(h, a, g)
  <2>1. order = Chain(h, g.head)
    OBVIOUS
  <2> HIDE DEF order
  <2>2. QED
    BY <1>2, <2>1, TakeOffRounds
<1> HIDE DEF order
<1> DEFINE L == Len(order)
           P == [n \in 0 .. L |-> Up(N, h, A, G, D(n), f[n])]
<1>4. P[0]
  <2>1. D(0) = {}
    OBVIOUS
  <2>2. Relinked(N, h, h, A \cup G)
    BY <1>1, RelinkedNot
  <2>3. Up(N, h, A, G, {}, f[0])
    BY <1>3, <2>2 DEF Up
  <2>4. 0 \in 0 .. L
    BY <1>2
  <2>5. QED
    BY <2>1, <2>3, <2>4
<1>5. ASSUME NEW n \in 1 .. L, P[n - 1] PROVE P[n]
  <2>1. n - 1 \in 0 .. L /\ n \in 0 .. L /\ order[n] \in G
    BY <1>2
  <2>2. Up(N, h, A, G, D(n - 1), f[n - 1])
    BY <1>5, <2>1
  <2>3. order[n] \notin D(n - 1)
    <3>1. \A i \in 1 .. n - 1 : i \in 1 .. L /\ i # n
      BY <1>2
    <3>2. QED
      BY <1>2, <3>1
  <2>4. D(n) = IF h[order[n]].new_altitude > 0 THEN D(n - 1) \cup {order[n]} ELSE D(n - 1)
    <3>1. \A i \in 1 .. n : i = n \/ i \in 1 .. n - 1
      BY <1>2
    <3>2. \A i \in 1 .. n - 1 : i \in 1 .. n
      BY <1>2
    <3>3. n \in 1 .. n
      BY <1>2
    <3>4. QED
      BY <2>1, <3>1, <3>2, <3>3
  <2>5. f[n] = TakeOffRound(h, order, f[n - 1], n)
    BY <1>3
  <2>6. D(n - 1) \in SUBSET G
    OBVIOUS
  <2> HIDE DEF D
  <2>7. Up(N, h, A, G, D(n), f[n])
    <3>1. CASE h[order[n]].new_altitude > 0
      <4>1. f[n] = TakeOff(f[n - 1], order[n]) /\ D(n) = D(n - 1) \cup {order[n]}
        BY <2>4, <2>5, <3>1 DEF TakeOffRound
      <4>2. order[n] \in G \ D(n - 1)
        BY <2>1, <2>3
      <4>3. Up(N, h, A, G, D(n - 1) \cup {order[n]}, TakeOff(f[n - 1], order[n]))
        BY <1>1, <2>2, <2>6, <4>2, OneTakesOff
      <4>4. QED
        BY <4>1, <4>3
    <3>2. CASE ~(h[order[n]].new_altitude > 0)
      BY <2>2, <2>4, <2>5, <3>2 DEF TakeOffRound
    <3>3. QED
      BY <3>1, <3>2
  <2>8. QED
    BY <2>1, <2>7
<1>6. \A n \in 0 .. L : P[n]
  <2> HIDE DEF P
  <2>1. QED
    BY <1>2, <1>4, <1>5, Induction
<1>7. Up(N, h, A, G, D(L), f[L])
  <2>1. L \in 0 .. L
    BY <1>2
  <2>2. P[L]
    BY <1>6, <2>1
  <2>3. QED
    BY <2>1, <2>2
<1>8. D(L) = {x \in G : h[x].new_altitude > 0}
  BY <1>2
<1>9. QED
  BY <1>3, <1>7, <1>8

(* A plane that has left leads on to all that stay behind it.              *)
Leads(h, A, Z, x) == /\ h[x].next \in A \cup {0}
                     /\ \A q \in A \ Z : h[x].plane_no < h[q].plane_no =>
                           h[x].next # 0 /\ h[h[x].next].plane_no <= h[q].plane_no

(* The list A after the planes of D, of all those that leave Z, have left. *)
Down(N, h, A, Z, D, m) == /\ Whole(N, m, A \ D) /\ Relinked(N, h, m.heap, A)
                          /\ \A x \in D : Leads(m.heap, A, Z, x)
LEMMA OneLeaves ==
  ASSUME NEW N \in Nat, NEW h, NEW A \in SUBSET (1 .. N), NEW Z \in SUBSET A, NEW D \in SUBSET Z,
         NEW m, Down(N, h, A, Z, D, m), NEW p \in Z \ D
  PROVE  Down(N, h, A, Z, D \cup {p}, Delete(m, p))
<1> DEFINE k == m.heap
           e == Delete(m, p).heap
           S == A \ D
<1>1. Whole(N, Delete(m, p), S \ {p}) /\ Relinked(N, k, e, S \ {p})
  <2>1. Whole(N, m, S) /\ p \in S
    BY DEF Down
  <2>2. QED
    BY <2>1, DeleteList
<1>2. k \in [1 .. N -> Plane] /\ e \in [1 .. N -> Plane] /\ IsList(k, m.list, S)
  BY <1>1 DEF Down, Whole
<1>3. \A x \in 1 .. N : e[x].plane_no = k[x].plane_no
  BY <1>1 DEF Relinked, SameFlight
<1>4. \A x \in D \cup {p} : e[x] = k[x]
  BY <1>1 DEF Relinked
<1>5. Relinked(N, h, e, A)
  <2>1. Relinked(N, h, k, A) /\ S \ {p} \subseteq A
    BY DEF Down
  <2> HIDE DEF e, k
  <2>2. QED
    BY <1>1, <2>1, RelinkedTwice
<1> HIDE DEF e, k
<1>6. ASSUME NEW x \in D \cup {p} PROVE Leads(k, A, Z, x)
  <2>1. CASE x \in D
    BY <2>1 DEF Down, k
  <2>2. CASE x = p
    <3>1. Least(k, After(k, S, p), k[p].next)
      BY <1>2 DEF IsList
    <3>2. \A q \in A \ Z : k[p].plane_no < k[q].plane_no => q \in After(k, S, p)
      BY DEF After
    <3>3. k[p].next \in A \cup {0}
      BY <3>1 DEF Least, After
    <3>4. QED
      <4>1. ASSUME NEW q \in A \ Z, k[p].plane_no < k[q].plane_no
            PROVE  k[p].next # 0 /\ k[k[p].next].plane_no <= k[q].plane_no
        <5>1. q \in After(k, S, p)
          BY <3>2, <4>1
        <5>2. After(k, S, p) \subseteq 1 .. N
          BY DEF After
        <5>3. QED
          BY <3>1, <5>1, <5>2 DEF Least
      <4>2. QED
        BY <2>2, <3>3, <4>1 DEF Leads
  <2>3. QED
    BY <2>1, <2>2
<1>7. ASSUME NEW x \in D \cup {p} PROVE Leads(e, A, Z, x)
  <2>1. Leads(k, A, Z, x) /\ e[x] = k[x] /\ x \in 1 .. N
    BY <1>4, <1>6
  <2>2. k[x].next # 0 => e[k[x].next].plane_no = k[k[x].next].plane_no
    BY <1>3, <2>1 DEF Leads
  <2>3. QED
    BY <1>3, <2>1, <2>2 DEF Leads
<1>8. S \ {p} = A \ (D \cup {p})
  OBVIOUS
<1>9. QED
  BY <1>1, <1>5, <1>7, <1>8 DEF Down, e

(* The third loop of update: the planes that are gone have left, and lead  *)
(* on to those that have not.                                              *)
LEMMA WithoutGoneList ==
  ASSUME NEW N \in Nat, N <= Births, NEW h, NEW a, NEW A, Whole(N, [heap |-> h, list |-> a], A)
  PROVE  Down(N, h, A, {x \in A : h[x].status = "gone"}, {x \in A : h[x].status = "gone"}, WithoutGone(h, a))
<1> DEFINE order == Chain(h, a.head)
           Z == {x \in A : h[x].status = "gone"}
           D(n) == {x \in Z : \E i \in 1 .. n : x = order[i]}
<1>1. /\ h \in [1 .. N -> Plane] /\ A \in SUBSET (1 .. N) /\ IsList(h, a, A) /\ Distinct(h, A)
  BY DEF Whole
<1>2. /\ Len(order) \in Nat /\ \A i \in 1 .. Len(order) : order[i] \in A
      /\ \A i, j \in 1 .. Len(order) : i # j => order[i] # order[j]
      /\ \A x \in A : \E i \in 1 .. Len(order) : order[i] = x
  <2>1. Lists(h, order, A)
    BY <1>1, ChainLists
  <2>2. \A x \in A : h[x].plane_no \in Nat
    BY <1>1, PlaneNo
  <2> HIDE DEF order
  <2>3. QED
    BY <2>1, <2>2, Met
<1>3. PICK f : /\ f[0] = [heap |-> h, list |-> a]
               /\ \A n \in 1 .. Len(order) : f[n] = GoneRound(h, order, f[n - 1], n)
               /\ f[Len(order)] = WithoutGone(h, a)
  <2>1. order = Chain(h, a.head)
    OBVIOUS
  <2> HIDE DEF order
  <2>2. QED
    BY <1>2, <2>1, GoneRounds
<1> HIDE DEF order
<1> DEFINE L == Len(order)
           P == [n \in 0 .. L |-> Down(N, h, A, Z, D(n), f[n])]
<1>4. P[0]
  <2>1. D(0) = {}
    OBVIOUS
  <2>2. Relinked(N, h, h, A)
    BY <1>1, RelinkedNot
  <2>3. Down(N, h, A, Z, {}, f[0])
    BY <1>3, <2>2 DEF Down
  <2>4. 0 \in 0 .. L
    BY <1>2
  <2>5. QED
    BY <2>1, <2>3, <2>4
<1>5. ASSUME NEW n \in 1 .. L, P[n - 1] PROVE P[n]
  <2>1. n - 1 \in 0 .. L /\ n \in 0 .. L /\ order[n] \in A
    BY <1>2
  <2>2. Down(N, h, A, Z, D(n - 1), f[n - 1])
    BY <1>5, <2>1
  <2>3. order[n] \notin D(n - 1)
    <3>1. \A i \in 1 .. n - 1 : i \in 1 .. L /\ i # n
      BY <1>2
    <3>2. QED
      BY <1>2, <3>1
  <2>4. D(n) = IF h[order[n]].status = "gone" THEN D(n - 1) \cup {order[n]} ELSE D(n - 1)
    <3>1. \A i \in 1 .. n : i = n \/ i \in 1 .. n - 1
      BY <1>2
    <3>2. \A i \in 1 .. n - 1 : i \in 1 .. n
      BY <1>2
    <3>3. n \in 1 .. n
      BY <1>2
    <3>4. QED
      BY <2>1, <3>1, <3>2, <3>3
  <2>5. f[n] = GoneRound(h, order, f[n - 1], n)
    BY <1>3
  <2>6. D(n - 1) \in SUBSET Z /\ Z \in SUBSET A
    OBVIOUS
  <2>7. h[order[n]].status = "gone" => order[n] \in Z \ D(n - 1)
    BY <2>1, <2>3
  <2> HIDE DEF D, Z
  <2>8. Down(N, h, A, Z, D(n), f[n])
    <3>1. CASE h[order[n]].status = "gone"
      <4>1. f[n] = Delete(f[n - 1], order[n]) /\ D(n) = D(n - 1) \cup {order[n]}
        BY <2>4, <2>5, <3>1 DEF GoneRound
      <4>2. order[n] \in Z \ D(n - 1)
        BY <2>7, <3>1
      <4>3. Down(N, h, A, Z, D(n - 1) \cup {order[n]}, Delete(f[n - 1], order[n]))
        BY <1>1, <2>2, <2>6, <4>2, OneLeaves
      <4>4. QED
        BY <4>1, <4>3
    <3>2. CASE h[order[n]].status # "gone"
      BY <2>2, <2>4, <2>5, <3>2 DEF GoneRound
    <3>3. QED
      BY <3>1, <3>2
  <2>9. QED
    BY <2>1, <2>8
<1>6. \A n \in 0 .. L : P[n]
  <2> HIDE DEF P
  <2>1. QED
    BY <1>2, <1>4, <1>5, Induction
<1>7. Down(N, h, A, Z, D(L), f[L])
  <2>1. L \in 0 .. L
    BY <1>2
  <2>2. P[L]
    BY <1>6, <2>1
  <2>3. QED
    BY <2>1, <2>2
<1>8. D(L) = Z
  BY <1>2
<1>9. QED
  BY <1>3, <1>7, <1>8
-----------------------------------------------------------------------------
(* Flights *)

LEMMA PlaceTypes ==
  /\ \A n \in 1 .. Len(Exits) : /\ Exits[n].x \in 0 .. Width - 1 /\ Exits[n].y \in 0 .. Height - 1
                                /\ Exits[n].dir \in Dirs
  /\ \A n \in 1 .. Len(Airports) : /\ Airports[n].x \in 1 .. Width - 2 /\ Airports[n].y \in 1 .. Height - 2
                                   /\ Airports[n].dir \in Dirs
  /\ \A n \in 1 .. Len(Beacons) : Beacons[n].x \in 1 .. Width - 2 /\ Beacons[n].y \in 1 .. Height - 2
  /\ Len(Exits) \in Nat /\ Len(Airports) \in Nat /\ Len(Beacons) \in Nat
  /\ DOMAIN Exits = 1 .. Len(Exits) /\ DOMAIN Airports = 1 .. Len(Airports)
  /\ Width \in Nat \ {0} /\ Height \in Nat \ {0}
<1>1. Exits \in Seq([x : 0 .. Width - 1, y : 0 .. Height - 1, dir : Dirs])
  BY AtcTowerAssumption
<1>2. Airports \in Seq([x : 1 .. Width - 2, y : 1 .. Height - 2, dir : Dirs])
  BY AtcTowerAssumption
<1>3. Beacons \in Seq([x : 1 .. Width - 2, y : 1 .. Height - 2])
  BY AtcTowerAssumption
<1>4. \A n \in 1 .. Len(Exits) : Exits[n] \in [x : 0 .. Width - 1, y : 0 .. Height - 1, dir : Dirs]
  BY <1>1, ElementOfSeq
<1>5. \A n \in 1 .. Len(Airports) : Airports[n] \in [x : 1 .. Width - 2, y : 1 .. Height - 2, dir : Dirs]
  BY <1>2, ElementOfSeq
<1>6. \A n \in 1 .. Len(Beacons) : Beacons[n] \in [x : 1 .. Width - 2, y : 1 .. Height - 2]
  BY <1>3, ElementOfSeq
<1>7. /\ Len(Exits) \in Nat /\ Len(Airports) \in Nat /\ Len(Beacons) \in Nat
      /\ DOMAIN Exits = 1 .. Len(Exits) /\ DOMAIN Airports = 1 .. Len(Airports)
  BY <1>1, <1>2, <1>3, LenProperties
<1>8. Width \in Nat \ {0} /\ Height \in Nat \ {0}
  BY AtcTowerAssumption
<1>9. QED
  BY <1>4, <1>5, <1>6, <1>7, <1>8

LEMMA EndTypes ==
  ASSUME NEW e \in Ends
  PROVE  /\ e[1] = "exit" => PosOf(e) = Exits[e[2] + 1] /\ e[2] + 1 \in 1 .. Len(Exits)
         /\ e[1] # "exit" => e[1] = "airport" /\ PosOf(e) = Airports[e[2] + 1] /\ e[2] + 1 \in 1 .. Len(Airports)
         /\ PosOf(e).x \in 0 .. Width - 1 /\ PosOf(e).y \in 0 .. Height - 1 /\ PosOf(e).dir \in Dirs
<1>1. CASE e[1] = "exit"
  <2>1. e[2] + 1 \in 1 .. Len(Exits)
    BY <1>1, PlaceTypes DEF Ends
  <2>2. PosOf(e) = Exits[e[2] + 1]
    BY <1>1 DEF PosOf
  <2>3. QED
    BY <1>1, <2>1, <2>2, PlaceTypes
<1>2. CASE e[1] # "exit"
  <2>1. e[1] = "airport" /\ e[2] + 1 \in 1 .. Len(Airports)
    BY <1>2, PlaceTypes DEF Ends
  <2>2. PosOf(e) = Airports[e[2] + 1]
    BY <2>1 DEF PosOf
  <2>3. PosOf(e).x \in 1 .. Width - 2 /\ PosOf(e).y \in 1 .. Height - 2 /\ PosOf(e).dir \in Dirs
    BY <2>1, <2>2, PlaceTypes
  <2>4. QED
    BY <1>2, <2>1, <2>2, <2>3, PlaceTypes, SMTT(60)
<1>3. QED
  BY <1>1, <1>2

LEMMA PlaneFields ==
  ASSUME NEW p \in Plane
  PROVE  /\ p.plane_no \in 0 .. Letters - 1 /\ p.next \in Nat /\ p.prev \in Nat /\ p.type \in {0, 1}
         /\ p.status \in {"marked", "unmarked", "ignored", "gone"} /\ p.dest \in Ends
         /\ p.altitude \in 0 .. 9 /\ p.new_altitude \in 0 .. 9 /\ p.dir \in 0 .. 7 /\ p.new_dir \in 0 .. 8
         /\ p.fuel \in 0 .. Width + Height /\ p.xpos \in 0 .. Width - 1 /\ p.ypos \in 0 .. Height - 1
         /\ p.delayd \in BOOLEAN /\ p.delayd_no \in Nat
  BY DEF Plane, Dirs, MAXDIR

LEMMA TurnType ==
  ASSUME NEW p \in Plane
  PROVE  Turn(p) \in 0 .. 7
<1> DEFINE d == p.new_dir - p.dir
           short == IF p.new_dir = 8 THEN d ELSE IF d > 4 THEN d - 8 ELSE IF d < -4 THEN d + 8 ELSE d
           step == IF short > 2 THEN 2 ELSE IF short < -2 THEN -2 ELSE short
<1>1. p.dir \in 0 .. 7 /\ p.new_dir \in 0 .. 8
  BY PlaneFields
<1>2. step \in -2 .. 2
  BY <1>1
<1>3. Turn(p) = IF p.delayd THEN p.dir ELSE (p.dir + step) % 8
  BY DEF Turn, MAXDIR
<1> HIDE DEF step
<1>4. QED
  BY <1>1, <1>2, <1>3

(* A record of a plane with the fields that a tick changes.                *)
LEMMA AheadFields ==
  ASSUME NEW p \in Plane
  PROVE  LET q == Ahead(p)
         IN  /\ q.plane_no = p.plane_no /\ q.next = p.next /\ q.prev = p.prev /\ q.type = p.type
             /\ q.status = p.status /\ q.dest = p.dest /\ q.new_altitude = p.new_altitude
             /\ q.new_dir = p.new_dir /\ q.delayd = p.delayd /\ q.delayd_no = p.delayd_no
             /\ q.fuel = p.fuel - 1 /\ q.altitude = p.altitude + Sign(p.new_altitude - p.altitude)
             /\ q.dir = Turn(p) /\ q.xpos = p.xpos + DirDx(Turn(p)) /\ q.ypos = p.ypos + DirDy(Turn(p))
             /\ q = [plane_no |-> q.plane_no, next |-> q.next, prev |-> q.prev, type |-> q.type,
                     status |-> q.status, dest |-> q.dest, altitude |-> q.altitude,
                     new_altitude |-> q.new_altitude, dir |-> q.dir, new_dir |-> q.new_dir,
                     fuel |-> q.fuel, xpos |-> q.xpos, ypos |-> q.ypos, delayd |-> q.delayd,
                     delayd_no |-> q.delayd_no]
<1> DEFINE d == Turn(p)
<1>1. Ahead(p) = [p EXCEPT !.fuel = p.fuel - 1, !.altitude = p.altitude + Sign(p.new_altitude - p.altitude), !.dir = d,
                           !.xpos = p.xpos + DirDx(d), !.ypos = p.ypos + DirDy(d)]
  BY DEF Ahead
<1> HIDE DEF d
<1>2. QED
  BY <1>1, ZenonT(60) DEF Plane, d
(* What Flown adds.                                                        *)
LEMMA FlownFields ==
  ASSUME NEW p \in Plane
  PROVE  LET q == Ahead(p)
             f == Flown(p)
         IN  /\ f.plane_no = p.plane_no /\ f.next = p.next /\ f.prev = p.prev /\ f.type = p.type
             /\ f.dest = p.dest /\ f.new_altitude = p.new_altitude
             /\ f.new_dir = p.new_dir /\ f.delayd_no = p.delayd_no
             /\ f.fuel = q.fuel /\ f.altitude = q.altitude /\ f.dir = q.dir /\ f.xpos = q.xpos /\ f.ypos = q.ypos
             /\ f.delayd \in BOOLEAN /\ (f.delayd => p.delayd)
             /\ f.status = "gone" \/ f.status = p.status \/ (p.status = "unmarked" /\ f.status = "marked")
             /\ Arrives(f) = Arrives(q) /\ (Arrives(f) => f.status = "gone")
             /\ f = [plane_no |-> f.plane_no, next |-> f.next, prev |-> f.prev, type |-> f.type,
                     status |-> f.status, dest |-> f.dest, altitude |-> f.altitude,
                     new_altitude |-> f.new_altitude, dir |-> f.dir, new_dir |-> f.new_dir,
                     fuel |-> f.fuel, xpos |-> f.xpos, ypos |-> f.ypos, delayd |-> f.delayd,
                     delayd_no |-> f.delayd_no]
<1> DEFINE q == Ahead(p)
           over == q.delayd /\ At(q, Beacons[q.delayd_no + 1])
           delayd == q.delayd /\ ~over
           stat == IF Arrives(q) THEN "gone" ELSE IF over /\ q.status = "unmarked" THEN "marked" ELSE q.status
           f == Flown(p)
<1>1. f = [q EXCEPT !.delayd = delayd, !.status = stat]
  BY DEF Flown
<1>2. /\ q.plane_no = p.plane_no /\ q.next = p.next /\ q.prev = p.prev /\ q.type = p.type
      /\ q.status = p.status /\ q.dest = p.dest /\ q.new_altitude = p.new_altitude
      /\ q.new_dir = p.new_dir /\ q.delayd = p.delayd /\ q.delayd_no = p.delayd_no
      /\ q = [plane_no |-> q.plane_no, next |-> q.next, prev |-> q.prev, type |-> q.type,
              status |-> q.status, dest |-> q.dest, altitude |-> q.altitude,
              new_altitude |-> q.new_altitude, dir |-> q.dir, new_dir |-> q.new_dir,
              fuel |-> q.fuel, xpos |-> q.xpos, ypos |-> q.ypos, delayd |-> q.delayd,
              delayd_no |-> q.delayd_no]
  BY AheadFields
<1>3. delayd \in BOOLEAN /\ (delayd => p.delayd)
  BY <1>2
<1>4. stat = "gone" \/ stat = p.status \/ (p.status = "unmarked" /\ stat = "marked")
  BY <1>2
<1>5. Arrives(q) => stat = "gone"
  OBVIOUS
<1> HIDE DEF q, delayd, stat, f
<1>6. f = [plane_no |-> q.plane_no, next |-> q.next, prev |-> q.prev, type |-> q.type,
           status |-> stat, dest |-> q.dest, altitude |-> q.altitude,
           new_altitude |-> q.new_altitude, dir |-> q.dir, new_dir |-> q.new_dir,
           fuel |-> q.fuel, xpos |-> q.xpos, ypos |-> q.ypos, delayd |-> delayd,
           delayd_no |-> q.delayd_no]
  BY <1>1, <1>2
<1>7. /\ f.plane_no = q.plane_no /\ f.next = q.next /\ f.prev = q.prev /\ f.type = q.type /\ f.status = stat
      /\ f.dest = q.dest /\ f.altitude = q.altitude /\ f.new_altitude = q.new_altitude /\ f.dir = q.dir
      /\ f.new_dir = q.new_dir /\ f.fuel = q.fuel /\ f.xpos = q.xpos /\ f.ypos = q.ypos
      /\ f.delayd = delayd /\ f.delayd_no = q.delayd_no
  BY <1>6
<1>8. Arrives(f) = Arrives(q)
  BY <1>7 DEF Arrives, At
<1>9. QED
  BY <1>2, <1>3, <1>4, <1>5, <1>6, <1>7, <1>8 DEF q, f

(* A tick that is not the end of the game leaves a plane a plane: above    *)
(* the ground and inside the arena, or at its destination.                 *)
LEMMA FlownType ==
  ASSUME NEW p \in Plane, ~Fails(Flown(p))
  PROVE  /\ Flown(p) \in Plane
         /\ Flown(p).status # "gone" => Flown(p).altitude # 0 /\ ~OnBorder(Flown(p))
<1> DEFINE f == Flown(p)
<1>1. /\ p.plane_no \in 0 .. Letters - 1 /\ p.next \in Nat /\ p.prev \in Nat /\ p.type \in {0, 1}
      /\ p.status \in {"marked", "unmarked", "ignored", "gone"} /\ p.dest \in Ends
      /\ p.altitude \in 0 .. 9 /\ p.new_altitude \in 0 .. 9 /\ p.dir \in 0 .. 7 /\ p.new_dir \in 0 .. 8
      /\ p.fuel \in 0 .. Width + Height /\ p.xpos \in 0 .. Width - 1 /\ p.ypos \in 0 .. Height - 1
      /\ p.delayd \in BOOLEAN /\ p.delayd_no \in Nat
  BY PlaneFields
<1>2. /\ f.plane_no = p.plane_no /\ f.next = p.next /\ f.prev = p.prev /\ f.type = p.type
      /\ f.dest = p.dest /\ f.new_altitude = p.new_altitude
      /\ f.new_dir = p.new_dir /\ f.delayd_no = p.delayd_no
      /\ f.delayd \in BOOLEAN
      /\ f.status = "gone" \/ f.status = p.status \/ (p.status = "unmarked" /\ f.status = "marked")
      /\ Arrives(f) => f.status = "gone"
      /\ f = [plane_no |-> f.plane_no, next |-> f.next, prev |-> f.prev, type |-> f.type,
              status |-> f.status, dest |-> f.dest, altitude |-> f.altitude,
              new_altitude |-> f.new_altitude, dir |-> f.dir, new_dir |-> f.new_dir,
              fuel |-> f.fuel, xpos |-> f.xpos, ypos |-> f.ypos, delayd |-> f.delayd,
              delayd_no |-> f.delayd_no]
  BY FlownFields
<1>3. /\ f.fuel = p.fuel - 1 /\ f.altitude = p.altitude + Sign(p.new_altitude - p.altitude)
      /\ f.dir = Turn(p) /\ f.xpos = p.xpos + DirDx(Turn(p)) /\ f.ypos = p.ypos + DirDy(Turn(p))
  BY AheadFields, FlownFields
<1>4. /\ f.fuel \in Int /\ f.altitude \in Int /\ f.dir \in 0 .. 7 /\ f.xpos \in Int /\ f.ypos \in Int
      /\ f.fuel <= Width + Height
  <2>1. Sign(p.new_altitude - p.altitude) \in Int
    BY <1>1 DEF Sign
  <2>2. Turn(p) \in 0 .. 7
    BY TurnType
  <2>3. DirDx(Turn(p)) \in Int /\ DirDy(Turn(p)) \in Int
    BY DEF DirDx, DirDy
  <2>4. Width \in Nat /\ Height \in Nat
    BY PlaceTypes
  <2>5. f.fuel \in Int /\ f.fuel <= Width + Height
    BY <1>1, <1>3, <2>4
  <2>6. f.altitude \in Int /\ f.xpos \in Int /\ f.ypos \in Int
    BY <1>1, <1>3, <2>1, <2>3, <2>4
  <2>7. QED
    BY <1>3, <2>2, <2>5, <2>6
<1> HIDE DEF f
<1>5. /\ ~(f.fuel < 0)
      /\ ~Arrives(f) => ~(f.altitude > 9) /\ ~(f.altitude <= 0) /\ ~OnBorder(f)
  BY DEF Fails, f
<1>6. f.altitude \in 0 .. 9 /\ f.xpos \in 0 .. Width - 1 /\ f.ypos \in 0 .. Height - 1
  <2>1. CASE Arrives(f)
    <3>1. f.xpos = PosOf(f.dest).x /\ f.ypos = PosOf(f.dest).y
      BY <2>1 DEF Arrives, At
    <3>2. f.altitude = 0 \/ f.altitude = 9
      BY <1>1, <1>2, <2>1, EndTypes DEF Arrives
    <3>3. QED
      BY <1>1, <1>2, <3>1, <3>2, EndTypes
  <2>2. CASE ~Arrives(f)
    <3>1. Width \in Nat /\ Height \in Nat
      BY PlaceTypes
    <3>2. ~(f.altitude > 9) /\ ~(f.altitude <= 0)
          /\ ~(f.xpos < 1) /\ ~(f.xpos >= Width - 1) /\ ~(f.ypos < 1) /\ ~(f.ypos >= Height - 1)
      BY <1>5, <2>2 DEF OnBorder
    <3>3. QED
      BY <1>4, <3>1, <3>2
  <2>3. QED
    BY <2>1, <2>2
<1>7. f.fuel \in 0 .. Width + Height
  BY <1>4, <1>5, PlaceTypes
<1>8. f \in Plane
  <2>1. /\ f.plane_no \in 0 .. Letters - 1 /\ f.next \in Nat /\ f.prev \in Nat /\ f.type \in {0, 1}
        /\ f.status \in {"marked", "unmarked", "ignored", "gone"} /\ f.dest \in Ends
        /\ f.new_altitude \in 0 .. 9 /\ f.dir \in Dirs /\ f.new_dir \in 0 .. MAXDIR
        /\ f.delayd \in BOOLEAN /\ f.delayd_no \in Nat
    BY <1>1, <1>2, <1>4 DEF Dirs, MAXDIR
  <2>2. QED
    BY <1>2, <1>6, <1>7, <2>1 DEF Plane
<1>9. f.status # "gone" => f.altitude # 0 /\ ~OnBorder(f)
  BY <1>2, <1>4, <1>5
<1>10. QED
  BY <1>8, <1>9 DEF f

(* A plane that is added.                                                  *)
LEMMA AddedType ==
  ASSUME NEW a \in Arrivals, NEW no \in 0 .. Letters - 1
  PROVE  LET p == Added(a, no)
         IN  /\ p \in Plane /\ p.plane_no = no /\ p.next = 0 /\ p.prev = 0 /\ ~p.delayd /\ p.delayd_no = 0
             /\ a.orig[1] = "exit" => p.altitude = 7 /\ AtStart(p, Exits)
             /\ a.orig[1] # "exit" => p.altitude = 0 /\ AtStart(p, Airports)
<1> DEFINE start == PosOf(a.orig)
           high == IF a.orig[1] = "exit" THEN 7 ELSE 0
           p == Added(a, no)
<1>1. p = [plane_no |-> no, next |-> 0, prev |-> 0, type |-> a.type, status |-> "marked",
       dest |-> a.dest, altitude |-> high, new_altitude |-> high, dir |-> start.dir,
       new_dir |-> start.dir, fuel |-> Width + Height, xpos |-> start.x, ypos |-> start.y,
       delayd |-> FALSE, delayd_no |-> 0]
  BY DEF Added
<1>2. a.type \in {0, 1} /\ a.dest \in Ends /\ a.orig \in Ends
  BY AtcTowerAssumption
<1>3. start.x \in 0 .. Width - 1 /\ start.y \in 0 .. Height - 1 /\ start.dir \in Dirs
  BY <1>2, EndTypes
<1>4. high \in 0 .. 9
  OBVIOUS
<1>5. /\ a.orig[1] = "exit" => start = Exits[a.orig[2] + 1] /\ a.orig[2] + 1 \in 1 .. Len(Exits)
      /\ a.orig[1] # "exit" => start = Airports[a.orig[2] + 1] /\ a.orig[2] + 1 \in 1 .. Len(Airports)
  BY <1>2, EndTypes
<1>6. DOMAIN Exits = 1 .. Len(Exits) /\ DOMAIN Airports = 1 .. Len(Airports)
  BY AtcTowerAssumption
<1>7. Width + Height \in 0 .. Width + Height /\ start.dir \in 0 .. MAXDIR
  BY <1>3, PlaceTypes DEF Dirs, MAXDIR
<1> HIDE DEF start, p
<1>8. p \in Plane
  BY <1>1, <1>2, <1>3, <1>4, <1>7 DEF Plane
<1>9. /\ p.plane_no = no /\ p.next = 0 /\ p.prev = 0 /\ ~p.delayd /\ p.delayd_no = 0
      /\ p.altitude = high /\ p.fuel = Width + Height /\ p.xpos = start.x /\ p.ypos = start.y
  BY <1>1
<1>10. /\ a.orig[1] = "exit" => AtStart(p, Exits)
       /\ a.orig[1] # "exit" => AtStart(p, Airports)
  BY <1>5, <1>6, <1>9 DEF AtStart, At
<1>11. QED
  BY <1>8, <1>9, <1>10 DEF p

(* A name that is given is nobody else's.                                  *)
LEMMA NextPlaneFree ==
  ASSUME last_plane \in 0 .. Letters - 1, NEW used, NextPlane(used) >= 0
  PROVE  NextPlane(used) \in 0 .. Letters - 1 /\ NextPlane(used) \notin used
<1> DEFINE free == {k \in 1 .. Letters : (last_plane + k) % Letters \notin used}
           least == CHOOSE k \in free : \A j \in free : k <= j
<1>1. Letters \in Nat \ {0}
  BY AtcTowerAssumption
<1>2. free # {}
  BY DEF NextPlane
<1>3. NextPlane(used) = (last_plane + least) % Letters
  BY <1>2 DEF NextPlane
<1>4. \E k \in free : \A j \in free : k <= j
  <2>1. free \in SUBSET Nat
    BY <1>1
  <2> HIDE DEF free
  <2>2. QED
    BY <1>2, <2>1, LeastNat
<1>5. least \in free
  <2> HIDE DEF free
  <2>1. QED
    BY <1>4, Zenon
<1> HIDE DEF least
<1>6. least \in 1 .. Letters /\ (last_plane + least) % Letters \notin used
  BY <1>5
<1>7. (last_plane + least) % Letters \in 0 .. Letters - 1
  <2>1. last_plane + least \in Int
    BY <1>1, <1>6
  <2>2. QED
    BY <1>1, <2>1
<1>8. QED
  BY <1>3, <1>6, <1>7
-----------------------------------------------------------------------------
(* Lists and ticks *)

LEMMA HeapLen ==
  ASSUME NEW S, NEW N \in Nat, NEW h \in [1 .. N -> S]
  PROVE  h \in Seq(S) /\ Len(h) = N /\ DOMAIN h = 1 .. N
<1>1. h \in Seq(S) /\ DOMAIN h = 1 .. N
  BY IsASeq
<1>2. Len(h) \in Nat /\ DOMAIN h = 1 .. Len(h)
  BY <1>1, LenProperties
<1>3. QED
  BY <1>1, <1>2

(* A list does not see what a tick does to the flights, nor that there is a *)
(* plane more.                                                             *)
LEMMA WholeKept ==
  ASSUME NEW N \in Nat, NEW M \in Nat, N <= M, NEW h, NEW k \in [1 .. M -> Plane], NEW l, NEW S,
         Whole(N, [heap |-> h, list |-> l], S),
         \A x \in 1 .. N : k[x].plane_no = h[x].plane_no /\ k[x].next = h[x].next /\ k[x].prev = h[x].prev
  PROVE  Whole(M, [heap |-> k, list |-> l], S)
<1>1. /\ h \in [1 .. N -> Plane] /\ S \in SUBSET (1 .. N) /\ l \in [head : Nat, tail : Nat]
      /\ IsList(h, l, S) /\ Distinct(h, S)
  BY DEF Whole
<1>2. IsList(k, l, S) /\ Distinct(k, S)
  <2>1. /\ Least(h, S, l.head) /\ Greatest(h, S, l.tail)
        /\ \A x \in S : /\ Least(h, After(h, S, x), k[x].next)
                        /\ Greatest(h, Before(h, S, x), k[x].prev)
    BY <1>1 DEF IsList
  <2>2. \A x \in 1 .. N : k[x].plane_no = h[x].plane_no
    OBVIOUS
  <2>3. QED
    BY <1>1, <2>1, <2>2, ListOfRelinked
<1>3. S \in SUBSET (1 .. M)
  BY <1>1
<1>4. QED
  BY <1>1, <1>2, <1>3 DEF Whole

LEMMA WholeMembers ==
  ASSUME NEW N \in Nat, N <= Births, NEW h, NEW l, NEW S, Whole(N, [heap |-> h, list |-> l], S)
  PROVE  Members(h, l) = S
  BY MembersAre DEF Whole

(* What a tick does to a flight does not depend on the links.              *)
LEMMA FlownSame ==
  ASSUME NEW p \in Plane, NEW r \in Plane, SameFlight(p, r)
  PROVE  SameFlight(Flown(p), Flown(r))
<1> DEFINE a == Ahead(p)
           b == Ahead(r)
           oa == a.delayd /\ At(a, Beacons[a.delayd_no + 1])
           ob == b.delayd /\ At(b, Beacons[b.delayd_no + 1])
           da == a.delayd /\ ~oa
           db == b.delayd /\ ~ob
           sa == IF Arrives(a) THEN "gone" ELSE IF oa /\ a.status = "unmarked" THEN "marked" ELSE a.status
           sb == IF Arrives(b) THEN "gone" ELSE IF ob /\ b.status = "unmarked" THEN "marked" ELSE b.status
<1>1. Turn(p) = Turn(r)
  BY DEF Turn, SameFlight
<1>2. SameFlight(a, b)
  <2>1. /\ a.plane_no = p.plane_no /\ a.type = p.type /\ a.status = p.status /\ a.dest = p.dest
        /\ a.new_altitude = p.new_altitude /\ a.new_dir = p.new_dir /\ a.delayd = p.delayd
        /\ a.delayd_no = p.delayd_no /\ a.fuel = p.fuel - 1
        /\ a.altitude = p.altitude + Sign(p.new_altitude - p.altitude)
        /\ a.dir = Turn(p) /\ a.xpos = p.xpos + DirDx(Turn(p)) /\ a.ypos = p.ypos + DirDy(Turn(p))
    BY AheadFields
  <2>2. /\ b.plane_no = r.plane_no /\ b.type = r.type /\ b.status = r.status /\ b.dest = r.dest
        /\ b.new_altitude = r.new_altitude /\ b.new_dir = r.new_dir /\ b.delayd = r.delayd
        /\ b.delayd_no = r.delayd_no /\ b.fuel = r.fuel - 1
        /\ b.altitude = r.altitude + Sign(r.new_altitude - r.altitude)
        /\ b.dir = Turn(r) /\ b.xpos = r.xpos + DirDx(Turn(r)) /\ b.ypos = r.ypos + DirDy(Turn(r))
    BY AheadFields
  <2> HIDE DEF a, b
  <2>3. QED
    BY <1>1, <2>1, <2>2 DEF SameFlight
<1>3. /\ Flown(p) = [a EXCEPT !.delayd = da, !.status = sa]
      /\ Flown(r) = [b EXCEPT !.delayd = db, !.status = sb]
  BY DEF Flown
<1>4. /\ a = [plane_no |-> a.plane_no, next |-> a.next, prev |-> a.prev, type |-> a.type,
                     status |-> a.status, dest |-> a.dest, altitude |-> a.altitude,
                     new_altitude |-> a.new_altitude, dir |-> a.dir, new_dir |-> a.new_dir,
                     fuel |-> a.fuel, xpos |-> a.xpos, ypos |-> a.ypos, delayd |-> a.delayd,
                     delayd_no |-> a.delayd_no]
      /\ b = [plane_no |-> b.plane_no, next |-> b.next, prev |-> b.prev, type |-> b.type,
                     status |-> b.status, dest |-> b.dest, altitude |-> b.altitude,
                     new_altitude |-> b.new_altitude, dir |-> b.dir, new_dir |-> b.new_dir,
                     fuel |-> b.fuel, xpos |-> b.xpos, ypos |-> b.ypos, delayd |-> b.delayd,
                     delayd_no |-> b.delayd_no]
  BY AheadFields
<1> HIDE DEF a, b
<1>5. oa = ob /\ Arrives(a) = Arrives(b)
  BY <1>2 DEF SameFlight, At, Arrives
<1>6. sa = sb /\ da = db
  BY <1>2, <1>5 DEF SameFlight
<1> HIDE DEF da, db, sa, sb
<1>7. QED
  BY <1>2, <1>3, <1>4, <1>6 DEF SameFlight

LEMMA FailsSame ==
  ASSUME NEW p, NEW r, SameFlight(p, r)
  PROVE  Fails(p) = Fails(r)
<1>1. Arrives(p) = Arrives(r) /\ OnBorder(p) = OnBorder(r)
  BY DEF SameFlight, Arrives, At, OnBorder
<1>2. QED
  BY <1>1 DEF SameFlight, Fails, At

LEMMA SameFlightTwice ==
  ASSUME NEW p, NEW q, NEW r, SameFlight(p, q), SameFlight(q, r)
  PROVE  SameFlight(p, r)
  BY DEF SameFlight

-----------------------------------------------------------------------------
(* A plane enters *)

Entered(h, A, G, P, exit) ==
  /\ (P = {} /\ births' = births) \/ (P = {births + 1} /\ births' = births + 1 /\ births < Births)
  /\ exit \in BOOLEAN
  /\ Whole(births', [heap |-> heap', list |-> air'], A \cup (IF exit THEN P ELSE {}))
  /\ Whole(births', [heap |-> heap', list |-> ground'], G \cup (IF exit THEN {} ELSE P))
  /\ Distinct(heap', (A \cup G) \cup P)
  /\ \A x \in 1 .. births : SameFlight(heap'[x], h[x]) /\ (x \notin A \cup G => heap'[x] = h[x])
  /\ \A p \in P : \E a \in Arrivals, no \in 0 .. Letters - 1 :
        /\ SameFlight(heap'[p], Added(a, no)) /\ exit = (a.orig[1] = "exit")
        /\ exit => Clear(Added(a, no), {h[q] : q \in A})
  /\ last_plane' \in 0 .. Letters - 1

LEMMA NobodyEnters ==
  ASSUME births \in Nat, last_plane \in 0 .. Letters - 1, NEW h, NEW a, NEW g, NEW A, NEW G,
         Whole(births, [heap |-> h, list |-> a], A), Whole(births, [heap |-> h, list |-> g], G),
         A \cap G = {}, Distinct(h, A \cup G),
         heap' = h, air' = a, ground' = g, UNCHANGED last_plane
  PROVE  Entered(h, A, G, {}, TRUE)
<1>1. h \in [1 .. births -> Plane]
  BY DEF Whole
<1>2. births' = births
  <2>1. Len(h) = births
    BY <1>1, HeapLen
  <2>2. QED
    BY <2>1 DEF births
<1> HIDE DEF births
<1>3. Whole(births', [heap |-> heap', list |-> air'], A \cup {}) /\ Whole(births', [heap |-> heap', list |-> ground'], G \cup {})
  <2>1. A \cup {} = A /\ G \cup {} = G
    OBVIOUS
  <2>2. QED
    BY <1>2, <2>1
<1>4. Distinct(heap', (A \cup G) \cup {})
  BY DEF Distinct
<1>5. \A x \in 1 .. births : SameFlight(heap'[x], h[x]) /\ heap'[x] = h[x]
  BY DEF SameFlight
<1>6. QED
  BY <1>2, <1>3, <1>4, <1>5 DEF Entered

LEMMA OneEnters ==
  ASSUME births \in Nat, births < Births, last_plane \in 0 .. Letters - 1,
         NEW h, NEW a, NEW g, NEW A, NEW G,
         Whole(births, [heap |-> h, list |-> a], A), Whole(births, [heap |-> h, list |-> g], G),
         A \cap G = {}, Distinct(h, A \cup G),
         NEW arrival \in Arrivals, NEW no, no = NextPlane(Numbers(h, A \cup G)), no >= 0,
         NEW exit, exit = (arrival.orig[1] = "exit"),
         exit => Clear(Added(arrival, no), {h[q] : q \in A}),
         NEW more, more = [q \in 1 .. births + 1 |-> IF q > births THEN Added(arrival, no) ELSE h[q]],
         NEW m, m = Insert([heap |-> more, list |-> IF exit THEN a ELSE g], births + 1),
         heap' = m.heap, air' = (IF exit THEN m.list ELSE a), ground' = (IF exit THEN g ELSE m.list),
         last_plane' = no
  PROVE  Entered(h, A, G, {births + 1}, exit)
<1> DEFINE N == births
           p == births + 1
           new == Added(arrival, no)
           S == IF exit THEN A ELSE G
<1>1. /\ h \in [1 .. N -> Plane] /\ A \in SUBSET (1 .. N) /\ G \in SUBSET (1 .. N)
  BY DEF Whole
<1>2. Births \in Nat /\ p \in Nat /\ N <= p /\ p <= Births /\ p \in 1 .. p /\ exit \in BOOLEAN
  BY AtcTowerAssumption
<1>3. no \in 0 .. Letters - 1 /\ no \notin Numbers(h, A \cup G)
  BY NextPlaneFree
<1>4. new \in Plane /\ new.plane_no = no
  BY <1>3, AddedType
<1> HIDE DEF births, new
<1>5. /\ more \in [1 .. p -> Plane] /\ more[p] = new /\ \A x \in 1 .. N : more[x] = h[x]
  <2>1. more = [q \in 1 .. N + 1 |-> IF q > N THEN new ELSE h[q]]
    BY DEF new
  <2> HIDE DEF N
  <2>2. N \in Nat /\ N + 1 \in 1 .. N + 1 /\ N + 1 > N
    BY DEF N
  <2>3. \A q \in 1 .. N + 1 : q > N \/ q \in 1 .. N
    BY <2>2
  <2>4. \A q \in 1 .. N : q \in 1 .. N + 1 /\ ~(q > N)
    BY <2>2
  <2>5. more[N + 1] = new /\ \A x \in 1 .. N : more[x] = h[x]
    BY <2>1, <2>2, <2>4
  <2>6. more \in [1 .. N + 1 -> Plane]
    BY <1>1, <1>4, <2>1, <2>3
  <2>7. p = N + 1
    BY DEF N
  <2>8. QED
    BY <2>5, <2>6, <2>7
<1> HIDE DEF N
<1>6. Whole(p, [heap |-> more, list |-> a], A) /\ Whole(p, [heap |-> more, list |-> g], G)
  <2>1. \A x \in 1 .. N : more[x].plane_no = h[x].plane_no /\ more[x].next = h[x].next /\ more[x].prev = h[x].prev
    BY <1>5
  <2>2. Whole(N, [heap |-> h, list |-> a], A) /\ Whole(N, [heap |-> h, list |-> g], G) /\ N \in Nat
    BY DEF N
  <2> HIDE DEF p
  <2>3. QED
    BY <1>2, <1>5, <2>1, <2>2, WholeKept, ZenonT(60)
<1>7. Distinct(more, (A \cup G) \cup {p})
  <2>1. \A x \in A \cup G : h[x].plane_no # no
    BY <1>3 DEF Numbers
  <2>2. \A x \in A \cup G : x \in 1 .. N /\ more[x] = h[x]
    BY <1>1, <1>5
  <2>3. more[p].plane_no = no
    BY <1>4, <1>5
  <2> HIDE DEF p
  <2>4. QED
    BY <2>1, <2>2, <2>3, ZenonT(60) DEF Distinct
<1>8. p \notin A \cup G
  BY <1>1, <1>2 DEF N, p
<1>9. Whole(p, m, S \cup {p}) /\ Relinked(p, more, m.heap, S \cup {p})
  <2> DEFINE l == IF exit THEN a ELSE g
             o == [heap |-> more, list |-> l]
  <2>1. Whole(p, o, S)
    BY <1>2, <1>6
  <2>2. Distinct(o.heap, S \cup {p}) /\ o.heap = more
    BY <1>7, ZenonT(60) DEF Distinct
  <2>3. m = Insert(o, p)
    BY DEF p
  <2> HIDE DEF o, p
  <2>4. p \notin S
    BY <1>8
  <2> HIDE DEF S
  <2>5. QED
    <3>1. Whole(p, Insert(o, p), S \cup {p}) /\ Relinked(p, o.heap, Insert(o, p).heap, S \cup {p})
      BY <1>2, <2>1, <2>2, <2>4, InsertList
    <3>2. QED
      BY <2>2, <2>3, <3>1
<1>10. births' = p
  <2>1. heap' \in [1 .. p -> Plane]
    BY <1>9 DEF Relinked
  <2> HIDE DEF p
  <2>2. QED
    BY <1>2, <2>1, HeapLen DEF births
<1>11. Whole(p, [heap |-> m.heap, list |-> m.list], S \cup {p})
  BY <1>9 DEF Whole
<1> HIDE DEF p
<1> DEFINE Lists2 ==
        /\ Whole(births', [heap |-> heap', list |-> air'], A \cup (IF exit THEN {p} ELSE {}))
        /\ Whole(births', [heap |-> heap', list |-> ground'], G \cup (IF exit THEN {} ELSE {p}))
<1>12. ASSUME exit PROVE Lists2
  <2>1. S = A /\ heap' = m.heap /\ air' = m.list /\ ground' = g
    BY <1>12
  <2>2. (A \cup {p}) \cap G = {}
    BY <1>8
  <2>3. Whole(p, [heap |-> m.heap, list |-> g], G)
    <3>1. Relinked(p, more, m.heap, A \cup {p}) /\ Whole(p, [heap |-> more, list |-> g], G) /\ p \in Nat
      BY <1>2, <1>6, <1>9, <2>1
    <3>2. QED
      BY <2>2, <3>1, OtherList
  <2>4. Whole(births', [heap |-> heap', list |-> air'], A \cup (IF exit THEN {p} ELSE {}))
        /\ Whole(births', [heap |-> heap', list |-> ground'], G \cup (IF exit THEN {} ELSE {p}))
    <3>1. G \cup (IF exit THEN {} ELSE {p}) = G /\ A \cup (IF exit THEN {p} ELSE {}) = A \cup {p}
      BY <1>12
    <3>2. QED
      BY <1>10, <1>11, <2>1, <2>3, <3>1
  <2>5. QED
    BY <2>4, Zenon
<1>13. ASSUME ~exit PROVE Lists2
  <2>1. S = G /\ heap' = m.heap /\ ground' = m.list /\ air' = a
    BY <1>13
  <2>2. (G \cup {p}) \cap A = {}
    BY <1>8
  <2>3. Whole(p, [heap |-> m.heap, list |-> a], A)
    <3>1. Relinked(p, more, m.heap, G \cup {p}) /\ Whole(p, [heap |-> more, list |-> a], A) /\ p \in Nat
      BY <1>2, <1>6, <1>9, <2>1
    <3>2. QED
      BY <2>2, <3>1, OtherList
  <2>4. Whole(births', [heap |-> heap', list |-> air'], A \cup (IF exit THEN {p} ELSE {}))
        /\ Whole(births', [heap |-> heap', list |-> ground'], G \cup (IF exit THEN {} ELSE {p}))
    <3>1. A \cup (IF exit THEN {p} ELSE {}) = A /\ G \cup (IF exit THEN {} ELSE {p}) = G \cup {p}
      BY <1>13
    <3>2. QED
      BY <1>10, <1>11, <2>1, <2>3, <3>1
  <2>5. QED
    BY <2>4, Zenon
<1>14. /\ Whole(births', [heap |-> heap', list |-> air'], A \cup (IF exit THEN {p} ELSE {}))
       /\ Whole(births', [heap |-> heap', list |-> ground'], G \cup (IF exit THEN {} ELSE {p}))
  <2> HIDE DEF Lists2
  <2>1. Lists2
    BY <1>2, <1>12, <1>13
  <2>2. QED
    BY <2>1 DEF Lists2
<1>15. Distinct(heap', (A \cup G) \cup {p})
  <2>1. (A \cup G) \cup {p} \in SUBSET (1 .. p)
    BY <1>1, <1>2 DEF N, p
  <2>2. QED
    BY <1>2, <1>7, <1>9, <2>1, DistinctRelinked
<1>16. ASSUME NEW x \in 1 .. N PROVE SameFlight(heap'[x], h[x]) /\ (x \notin A \cup G => heap'[x] = h[x])
  <2>1. x \in 1 .. p /\ x # p
    BY <1>2 DEF N, p
  <2>2. S \subseteq A \cup G
    OBVIOUS
  <2> HIDE DEF S
  <2>3. SameFlight(heap'[x], more[x]) /\ (x \notin A \cup G => heap'[x] = more[x])
    BY <1>9, <2>1, <2>2 DEF Relinked
  <2>4. QED
    BY <1>5, <2>3
<1>17. SameFlight(heap'[p], new)
  BY <1>2, <1>5, <1>9 DEF Relinked
<1>18. \E b \in Arrivals, n \in 0 .. Letters - 1 :
          /\ SameFlight(heap'[p], Added(b, n)) /\ exit = (b.orig[1] = "exit")
          /\ exit => Clear(Added(b, n), {h[q] : q \in A})
  BY <1>3, <1>17 DEF new
<1>19. last_plane' \in 0 .. Letters - 1
  BY <1>3
<1>20. {births + 1} = {p} /\ births' = births + 1
  BY <1>10 DEF p
<1>21. QED
  BY <1>2, <1>14, <1>15, <1>16, <1>18, <1>19, <1>20 DEF Entered, N, p

LEMMA Enters ==
  ASSUME births \in Nat, births <= Births, last_plane \in 0 .. Letters - 1,
         NEW h, NEW a, NEW g, NEW A, NEW G,
         Whole(births, [heap |-> h, list |-> a], A), Whole(births, [heap |-> h, list |-> g], G),
         A \cap G = {}, Distinct(h, A \cup G), AddPlane(h, a, g)
  PROVE  \E P, exit : Entered(h, A, G, P, exit)
<1>1. Members(h, a) = A /\ Members(h, g) = G
  BY WholeMembers
<1>2. CASE heap' = h /\ air' = a /\ ground' = g /\ UNCHANGED last_plane
  <2>1. Entered(h, A, G, {}, TRUE)
    BY <1>2, NobodyEnters
  <2>2. QED
    BY <2>1
<1>3. CASE ~(heap' = h /\ air' = a /\ ground' = g /\ UNCHANGED last_plane)
  <2>1. PICK arrival \in Arrivals :
          LET no == NextPlane(Numbers(h, Members(h, a) \cup Members(h, g)))
              new == Added(arrival, no)
              exit == arrival.orig[1] = "exit"
              more == [q \in 1 .. births + 1 |-> IF q > births THEN new ELSE h[q]]
              m == Insert([heap |-> more, list |-> IF exit THEN a ELSE g], births + 1)
          IN  /\ no >= 0
              /\ exit => Clear(new, {h[q] : q \in Members(h, a)})
              /\ heap' = m.heap
              /\ air' = IF exit THEN m.list ELSE a
              /\ ground' = IF exit THEN g ELSE m.list
              /\ last_plane' = no
    BY <1>3, Zenon DEF AddPlane
  <2>2. births < Births
    BY <1>3, Zenon DEF AddPlane
  <2> DEFINE no == NextPlane(Numbers(h, A \cup G))
             exit == arrival.orig[1] = "exit"
             more == [q \in 1 .. births + 1 |-> IF q > births THEN Added(arrival, no) ELSE h[q]]
             m == Insert([heap |-> more, list |-> IF exit THEN a ELSE g], births + 1)
  <2>3. /\ no >= 0
        /\ exit => Clear(Added(arrival, no), {h[q] : q \in A})
        /\ heap' = m.heap
        /\ air' = IF exit THEN m.list ELSE a
        /\ ground' = IF exit THEN g ELSE m.list
        /\ last_plane' = no
    BY <1>1, <2>1, Zenon
  <2>4. Entered(h, A, G, {births + 1}, exit)
    <3>1. /\ no = NextPlane(Numbers(h, A \cup G)) /\ exit = (arrival.orig[1] = "exit")
          /\ more = [q \in 1 .. births + 1 |-> IF q > births THEN Added(arrival, no) ELSE h[q]]
          /\ m = Insert([heap |-> more, list |-> IF exit THEN a ELSE g], births + 1)
      OBVIOUS
    <3> HIDE DEF no, exit, more, m, births
    <3>2. QED
      BY <2>2, <2>3, <3>1, OneEnters, ZenonT(60)
  <2>5. QED
    BY <2>4, Zenon
<1>4. QED
  BY <1>2, <1>3
-----------------------------------------------------------------------------
(* A tick *)

Listed == InAir \cup OnRunway

PlaneInv ==
  /\ births \in 1 .. Births /\ heap \in [1 .. births -> Plane]
  /\ last_plane \in 0 .. Letters - 1
  /\ \A q \in DOMAIN heap : /\ heap[q].delayd_no = 0 \/ heap[q].delayd_no < Len(Beacons)
                            /\ heap[q].delayd => Len(Beacons) > 0

ListInv == /\ Whole(births, [heap |-> heap, list |-> air], InAir)
           /\ Whole(births, [heap |-> heap, list |-> ground], OnRunway)
           /\ InAir \cap OnRunway = {} /\ Distinct(heap, Listed)

(* The planes that a tick takes off, has in the air, moves, and lets go.   *)
Rising == {q \in OnRunway : heap[q].new_altitude > 0}
Aloft == InAir \cup Rising
Moves(q) == q \in Aloft /\ (heap[q].type = 1 \/ odd)
Later(q) == IF Moves(q) THEN Flown(heap[q]) ELSE heap[q]
Leaving == {q \in Aloft : Later(q).status = "gone"}

(* The lists between the third loop of update and addplane.                *)
Moved(h, a, g) ==
  /\ Whole(births, [heap |-> h, list |-> a], Aloft \ Leaving)
  /\ Whole(births, [heap |-> h, list |-> g], OnRunway \ Rising)
  /\ \A x \in 1 .. births : SameFlight(h[x], Later(x)) /\ (x \notin Listed => h[x] = heap[x])
  /\ \A x \in Leaving : Leads(h, Aloft, Leaving, x)
  /\ \A q \in Aloft : Moves(q) => ~Fails(Flown(heap[q]))
  /\ \A q, r \in Aloft \ Leaving : q # r => ~TooClose(Later(q), Later(r), 1)

LEMMA SameDistance ==
  ASSUME NEW p, NEW q, NEW r, NEW s, SameFlight(p, q), SameFlight(r, s), NEW n
  PROVE  TooClose(p, r, n) = TooClose(q, s, n)
  BY DEF TooClose, SameFlight

LEMMA TickMoves ==
  ASSUME PlaneInv, ListInv, NEW up, NEW flown, NEW left,
         up = TakenOff(heap, air, ground), flown = AllFlown(up.heap, up.air),
         left = WithoutGone(flown, up.air),
         ~((\E q \in Moving(up.heap, up.air) : Fails(flown[q])) \/ Collision(left.heap, left.list))
  PROVE  /\ Moved(left.heap, left.list, up.ground)
         /\ {q \in Members(flown, up.air) : flown[q].status = "gone"} = Leaving
<1> DEFINE N == births
           k == up.heap
<1>1. N \in Nat /\ N <= Births /\ heap \in [1 .. N -> Plane]
  BY AtcTowerAssumption DEF PlaneInv
<1> HIDE DEF N
<1>2. /\ InAir \in SUBSET (1 .. N) /\ OnRunway \in SUBSET (1 .. N) /\ Rising \subseteq OnRunway
      /\ InAir \cap OnRunway = {} /\ Aloft \in SUBSET (1 .. N)
  BY DEF ListInv, Whole, N, Rising, Aloft
<1>3. Up(N, heap, InAir, OnRunway, Rising, up)
  <2>1. /\ Whole(N, [heap |-> heap, list |-> air], InAir)
        /\ Whole(N, [heap |-> heap, list |-> ground], OnRunway)
        /\ Distinct(heap, InAir \cup OnRunway)
    BY DEF ListInv, Listed, N
  <2>2. Up(N, heap, InAir, OnRunway, {x \in OnRunway : heap[x].new_altitude > 0}, TakenOff(heap, air, ground))
    BY <1>1, <1>2, <2>1, TakenOffLists
  <2>3. QED
    BY <2>2 DEF Rising
<1>4. /\ Whole(N, [heap |-> k, list |-> up.air], Aloft)
      /\ Whole(N, [heap |-> k, list |-> up.ground], OnRunway \ Rising)
      /\ Relinked(N, heap, k, Listed)
  BY <1>3 DEF Up, Aloft, Listed
<1>5. k \in [1 .. N -> Plane] /\ \A x \in 1 .. N : SameFlight(k[x], heap[x]) /\ (x \notin Listed => k[x] = heap[x])
  BY <1>4 DEF Relinked
<1>6. Members(k, up.air) = Aloft
  BY <1>1, <1>4, WholeMembers
<1>7. \A q \in 1 .. N : q \in Moving(k, up.air) <=> Moves(q)
  BY <1>2, <1>5, <1>6 DEF Moving, Moves, SameFlight
<1>8. \A q \in 1 .. N : flown[q] = IF Moves(q) THEN Flown(k[q]) ELSE k[q]
  BY <1>5, <1>7 DEF AllFlown
<1>9. flown = [q \in 1 .. N |-> flown[q]]
  BY <1>5 DEF AllFlown
<1>10. ASSUME NEW q \in 1 .. N, Moves(q)
       PROVE  ~Fails(Flown(heap[q])) /\ Flown(k[q]) \in Plane /\ SameFlight(Flown(k[q]), Flown(heap[q]))
  <2>1. q \in Moving(k, up.air)
    BY <1>7, <1>10
  <2>2. ~Fails(Flown(k[q]))
    BY <1>8, <1>10, <2>1
  <2>3. Flown(k[q]) \in Plane
    BY <1>5, <2>2, FlownType
  <2>4. SameFlight(Flown(k[q]), Flown(heap[q]))
    BY <1>1, <1>5, FlownSame
  <2>5. ~Fails(Flown(heap[q]))
    BY <2>2, <2>4, FailsSame
  <2>6. QED
    BY <2>3, <2>4, <2>5
<1>11. ASSUME NEW q \in 1 .. N
       PROVE  /\ flown[q] \in Plane /\ SameFlight(flown[q], Later(q))
              /\ flown[q].plane_no = k[q].plane_no /\ flown[q].next = k[q].next /\ flown[q].prev = k[q].prev
  <2>1. CASE Moves(q)
    <3>1. flown[q] = Flown(k[q]) /\ Later(q) = Flown(heap[q])
      BY <1>8, <2>1 DEF Later
    <3>2. Flown(k[q]).plane_no = k[q].plane_no /\ Flown(k[q]).next = k[q].next /\ Flown(k[q]).prev = k[q].prev
      BY <1>5, FlownFields, ZenonT(60)
    <3>3. QED
      BY <1>10, <2>1, <3>1, <3>2
  <2>2. CASE ~Moves(q)
    BY <1>5, <1>8, <2>2 DEF Later
  <2>3. QED
    BY <2>1, <2>2
<1>12. flown \in [1 .. N -> Plane]
  BY <1>9, <1>11
<1>13. /\ Whole(N, [heap |-> flown, list |-> up.air], Aloft)
       /\ Whole(N, [heap |-> flown, list |-> up.ground], OnRunway \ Rising)
  <2>1. \A x \in 1 .. N : flown[x].plane_no = k[x].plane_no /\ flown[x].next = k[x].next /\ flown[x].prev = k[x].prev
    BY <1>11
  <2>2. N <= N
    BY <1>1
  <2> HIDE DEF k
  <2>3. Whole(N, [heap |-> flown, list |-> up.air], Aloft)
    BY <1>1, <1>4, <1>12, <2>1, <2>2, WholeKept, SMTT(60)
  <2>4. Whole(N, [heap |-> flown, list |-> up.ground], OnRunway \ Rising)
    <3> DEFINE G == OnRunway \ Rising
    <3>1. Whole(N, [heap |-> k, list |-> up.ground], G)
      BY <1>4
    <3> HIDE DEF G
    <3>2. Whole(N, [heap |-> flown, list |-> up.ground], G)
      BY <1>1, <1>12, <2>1, <2>2, <3>1, WholeKept, SMTT(60)
    <3>3. QED
      BY <3>2 DEF G
  <2>5. QED
    BY <2>3, <2>4
<1>14. Members(flown, up.air) = Aloft
  BY <1>1, <1>13, WholeMembers
<1>15. {q \in Aloft : flown[q].status = "gone"} = Leaving
  <2>1. \A q \in Aloft : flown[q].status = Later(q).status
    BY <1>2, <1>11 DEF SameFlight
  <2>2. QED
    BY <2>1 DEF Leaving
<1>16. Down(N, flown, Aloft, Leaving, Leaving, left)
  <2>1. Down(N, flown, Aloft, {q \in Aloft : flown[q].status = "gone"}, {q \in Aloft : flown[q].status = "gone"},
             WithoutGone(flown, up.air))
    BY <1>1, <1>13, WithoutGoneList
  <2>2. QED
    BY <1>15, <2>1
<1>17. /\ Whole(N, [heap |-> left.heap, list |-> left.list], Aloft \ Leaving)
       /\ Relinked(N, flown, left.heap, Aloft)
       /\ \A x \in Leaving : Leads(left.heap, Aloft, Leaving, x)
  BY <1>16 DEF Down, Whole
<1>18. Whole(N, [heap |-> left.heap, list |-> up.ground], OnRunway \ Rising)
  <2>1. Aloft \cap (OnRunway \ Rising) = {}
    BY <1>2 DEF Aloft
  <2>2. QED
    BY <1>1, <1>13, <1>17, <2>1, OtherList
<1>19. ASSUME NEW x \in 1 .. N
       PROVE  SameFlight(left.heap[x], Later(x)) /\ (x \notin Listed => left.heap[x] = heap[x])
  <2>1. SameFlight(left.heap[x], flown[x]) /\ (x \notin Aloft => left.heap[x] = flown[x])
    BY <1>17 DEF Relinked
  <2>2. SameFlight(left.heap[x], Later(x))
    BY <1>11, <2>1, SameFlightTwice
  <2>3. x \notin Listed => x \notin Aloft /\ ~Moves(x)
    BY <1>2 DEF Listed, Aloft, Moves
  <2>4. x \notin Listed => flown[x] = heap[x]
    BY <1>5, <1>8, <2>3
  <2>5. QED
    BY <2>1, <2>2, <2>3, <2>4
<1>20. ASSUME NEW q \in Aloft \ Leaving, NEW r \in Aloft \ Leaving, q # r PROVE ~TooClose(Later(q), Later(r), 1)
  <2>1. Members(left.heap, left.list) = Aloft \ Leaving
    BY <1>1, <1>17, WholeMembers
  <2>2. ~TooClose(left.heap[q], left.heap[r], 1)
    BY <1>20, <2>1 DEF Collision
  <2>3. q \in 1 .. N /\ r \in 1 .. N
    BY <1>2
  <2>4. QED
    BY <1>19, <2>2, <2>3, SameDistance
<1>21. \A q \in Aloft : Moves(q) => ~Fails(Flown(heap[q]))
  BY <1>2, <1>10
<1>22. QED
  BY <1>14, <1>15, <1>17, <1>18, <1>19, <1>20, <1>21 DEF Moved, N

(* What a tick does, unless it ends the game.                              *)
Ticked(P, exit) ==
  /\ (P = {} /\ births' = births) \/ (P = {births + 1} /\ births' = births + 1 /\ births < Births)
  /\ exit \in BOOLEAN
  /\ Whole(births', [heap |-> heap', list |-> air'], InAir')
  /\ Whole(births', [heap |-> heap', list |-> ground'], OnRunway')
  /\ InAir' = (Aloft \ Leaving) \cup (IF exit THEN P ELSE {})
  /\ OnRunway' = (OnRunway \ Rising) \cup (IF exit THEN {} ELSE P)
  /\ Distinct(heap', Listed')
  /\ \A x \in 1 .. births : SameFlight(heap'[x], Later(x)) /\ (x \notin Listed => heap'[x] = heap[x])
  /\ \A x \in Leaving : Leads(heap', Aloft, Leaving, x)
  /\ \A q \in Aloft : Moves(q) => ~Fails(Flown(heap[q]))
  /\ \A q, r \in Aloft \ Leaving : q # r => ~TooClose(Later(q), Later(r), 1)
  /\ \A p \in P : \E a \in Arrivals, no \in 0 .. Letters - 1 :
        /\ SameFlight(heap'[p], Added(a, no)) /\ exit = (a.orig[1] = "exit")
        /\ exit => \A q \in Aloft \ Leaving : ~TooClose(Later(q), Added(a, no), 4)
  /\ last_plane' \in 0 .. Letters - 1
  /\ safe_planes' = safe_planes + Cardinality(Leaving)
  /\ stays' = stays \ (Leaving \cup IF Rising = {} THEN {} ELSE OnRunway)
  /\ odd' = ~odd /\ status' = status

Ended == /\ odd' = ~odd /\ status' = "over"
         /\ UNCHANGED <<heap, air, ground, last_plane, safe_planes, stays>>

LEMMA UpdateTicks ==
  ASSUME PlaneInv, ListInv, Update
  PROVE  Ended \/ \E P, exit : Ticked(P, exit)
<1> DEFINE up == TakenOff(heap, air, ground)
           flown == AllFlown(up.heap, up.air)
           gone == {q \in Members(flown, up.air) : flown[q].status = "gone"}
           left == WithoutGone(flown, up.air)
           over == (\E q \in Moving(up.heap, up.air) : Fails(flown[q])) \/ Collision(left.heap, left.list)
<1>1. /\ odd' = ~odd
      /\ IF over THEN /\ status' = "over"
                      /\ UNCHANGED <<heap, air, ground, last_plane, safe_planes, stays>>
         ELSE /\ AddPlane(left.heap, left.list, up.ground)
              /\ safe_planes' = safe_planes + Cardinality(gone)
              /\ stays' = stays \ (gone \cup IF Rising = {} THEN {} ELSE OnRunway)
              /\ UNCHANGED status
  BY Zenon DEF Update, Rising
<1>2. CASE over
  <2> HIDE DEF over
  <2>1. QED
    BY <1>1, <1>2 DEF Ended
<1>3. CASE ~over
  <2>1. Moved(left.heap, left.list, up.ground) /\ gone = Leaving
    <3>1. /\ up = TakenOff(heap, air, ground) /\ flown = AllFlown(up.heap, up.air)
          /\ left = WithoutGone(flown, up.air)
      OBVIOUS
    <3> HIDE DEF up, flown, left
    <3>2. QED
      BY <1>3, <3>1, TickMoves
  <2>2. /\ odd' = ~odd /\ AddPlane(left.heap, left.list, up.ground)
        /\ safe_planes' = safe_planes + Cardinality(Leaving)
        /\ stays' = stays \ (Leaving \cup IF Rising = {} THEN {} ELSE OnRunway)
        /\ status' = status
    <3> HIDE DEF over, gone
    <3>1. QED
      BY <1>1, <1>3, <2>1
  <2> HIDE DEF up, left, gone, over
  <2>3. PICK h, a, g : h = left.heap /\ a = left.list /\ g = up.ground
    OBVIOUS
  <2>4. Moved(h, a, g) /\ AddPlane(h, a, g)
    BY <2>1, <2>2, <2>3
  <2> DEFINE A == Aloft \ Leaving
             G == OnRunway \ Rising
  <2>5. /\ births \in Nat /\ births <= Births /\ last_plane \in 0 .. Letters - 1
        /\ heap \in [1 .. births -> Plane]
    BY AtcTowerAssumption DEF PlaneInv
  <2>6. /\ Whole(births, [heap |-> h, list |-> a], A) /\ Whole(births, [heap |-> h, list |-> g], G)
        /\ A \cap G = {} /\ A \cup G \in SUBSET (1 .. births)
    <3>1. /\ Whole(births, [heap |-> h, list |-> a], A) /\ Whole(births, [heap |-> h, list |-> g], G)
      BY <2>4 DEF Moved
    <3>2. A \cap G = {}
      BY DEF ListInv, Aloft, Rising
    <3>3. A \cup G \in SUBSET (1 .. births)
      BY <3>1 DEF Whole
    <3>4. QED
      BY <3>1, <3>2, <3>3
  <2>7. Distinct(h, A \cup G)
    <3>1. A \cup G \subseteq Listed
      BY DEF Listed, Aloft, Rising
    <3>2. ASSUME NEW x \in 1 .. births PROVE h[x].plane_no = heap[x].plane_no
      <4>1. h[x].plane_no = Later(x).plane_no
        BY <2>4 DEF Moved, SameFlight
      <4>2. Later(x).plane_no = heap[x].plane_no
        BY <2>5, FlownFields DEF Later
      <4>3. QED
        BY <4>1, <4>2
    <3>3. QED
      BY <2>6, <3>1, <3>2 DEF ListInv, Distinct
  <2> HIDE DEF A, G
  <2>8. PICK P, exit : Entered(h, A, G, P, exit)
    BY <2>4, <2>5, <2>6, <2>7, Enters
  <2>9. births' \in Nat /\ births' <= Births
    BY <2>5, <2>8, AtcTowerAssumption DEF Entered
  <2>10. /\ Whole(births', [heap |-> heap', list |-> air'], A \cup (IF exit THEN P ELSE {}))
         /\ Whole(births', [heap |-> heap', list |-> ground'], G \cup (IF exit THEN {} ELSE P))
         /\ exit \in BOOLEAN
    BY <2>8, Zenon DEF Entered
  <2>11. /\ InAir' = A \cup (IF exit THEN P ELSE {})
         /\ OnRunway' = G \cup (IF exit THEN {} ELSE P)
    <3> DEFINE M == births'
               h1 == heap'
               a1 == air'
               g1 == ground'
    <3>1. /\ Whole(M, [heap |-> h1, list |-> a1], A \cup (IF exit THEN P ELSE {}))
          /\ Whole(M, [heap |-> h1, list |-> g1], G \cup (IF exit THEN {} ELSE P))
          /\ M \in Nat /\ M <= Births
      BY <2>9, <2>10
    <3> HIDE DEF M, h1, a1, g1
    <3>2. Members(h1, a1) = A \cup (IF exit THEN P ELSE {})
      BY <3>1, WholeMembers
    <3>3. Members(h1, g1) = G \cup (IF exit THEN {} ELSE P)
      BY <3>1, WholeMembers
    <3>4. QED
      BY <3>2, <3>3 DEF InAir, OnRunway, h1, a1, g1
  <2>12. Distinct(heap', Listed')
    <3>1. Listed' = (A \cup G) \cup P
      BY <2>10, <2>11 DEF Listed
    <3>2. Distinct(heap', (A \cup G) \cup P)
      BY <2>8 DEF Entered
    <3>3. QED
      BY <3>1, <3>2
  <2>13. ASSUME NEW x \in 1 .. births
         PROVE  SameFlight(heap'[x], Later(x)) /\ (x \notin Listed => heap'[x] = heap[x])
                /\ SameFlight(heap'[x], h[x])
    <3>1. SameFlight(heap'[x], h[x]) /\ (x \notin A \cup G => heap'[x] = h[x])
      BY <2>8 DEF Entered
    <3>2. SameFlight(h[x], Later(x)) /\ (x \notin Listed => h[x] = heap[x])
      BY <2>4 DEF Moved
    <3>3. A \cup G \subseteq Listed
      BY DEF Listed, Aloft, Rising, A, G
    <3>4. SameFlight(heap'[x], Later(x))
      BY <3>1, <3>2, SameFlightTwice
    <3>5. QED
      BY <3>1, <3>2, <3>3, <3>4
  <2>14. Aloft \subseteq 1 .. births /\ Leaving \subseteq Aloft
    BY DEF ListInv, Whole, Aloft, Rising, Leaving
  <2>15. ASSUME NEW x \in Leaving PROVE Leads(heap', Aloft, Leaving, x)
    <3>1. Leads(h, Aloft, Leaving, x)
      BY <2>4 DEF Moved
    <3>2. x \notin A \cup G /\ x \in 1 .. births
      BY <2>14 DEF A, G, Aloft, ListInv
    <3>3. heap'[x] = h[x]
      BY <2>8, <3>2 DEF Entered
    <3>4. \A y \in Aloft : heap'[y].plane_no = h[y].plane_no
      BY <2>13, <2>14 DEF SameFlight
    <3>5. QED
      BY <2>14, <3>1, <3>3, <3>4 DEF Leads
  <2>16. ASSUME NEW p \in P
         PROVE  \E b \in Arrivals, no \in 0 .. Letters - 1 :
                  /\ SameFlight(heap'[p], Added(b, no)) /\ exit = (b.orig[1] = "exit")
                  /\ exit => \A q \in Aloft \ Leaving : ~TooClose(Later(q), Added(b, no), 4)
    <3>1. PICK b \in Arrivals, no \in 0 .. Letters - 1 :
            /\ SameFlight(heap'[p], Added(b, no)) /\ exit = (b.orig[1] = "exit")
            /\ exit => Clear(Added(b, no), {h[q] : q \in A})
      BY <2>8, Zenon DEF Entered
    <3>2. ASSUME exit, NEW q \in Aloft \ Leaving PROVE ~TooClose(Later(q), Added(b, no), 4)
      <4>1. ~TooClose(h[q], Added(b, no), 4)
        BY <3>1, <3>2 DEF Clear, A
      <4>2. SameFlight(h[q], Later(q)) /\ SameFlight(Added(b, no), Added(b, no))
        BY <2>4, <2>14 DEF Moved, SameFlight
      <4>3. QED
        BY <4>1, <4>2, SameDistance
    <3>3. QED
      BY <3>1, <3>2
  <2>17. Ticked(P, exit)
    <3>1. /\ (P = {} /\ births' = births) \/ (P = {births + 1} /\ births' = births + 1 /\ births < Births)
          /\ last_plane' \in 0 .. Letters - 1
      BY <2>8, Zenon DEF Entered
    <3>2. /\ Whole(births', [heap |-> heap', list |-> air'], InAir')
          /\ Whole(births', [heap |-> heap', list |-> ground'], OnRunway')
      BY <2>10, <2>11
    <3>3. /\ \A q \in Aloft : Moves(q) => ~Fails(Flown(heap[q]))
          /\ \A q, r \in Aloft \ Leaving : q # r => ~TooClose(Later(q), Later(r), 1)
      BY <2>4 DEF Moved
    <3>4. /\ InAir' = (Aloft \ Leaving) \cup (IF exit THEN P ELSE {})
          /\ OnRunway' = (OnRunway \ Rising) \cup (IF exit THEN {} ELSE P)
      BY <2>11 DEF A, G
    <3>5. QED
      BY <2>2, <2>10, <2>12, <2>13, <2>15, <2>16, <3>1, <3>2, <3>3, <3>4, Zenon DEF Ticked
  <2>18. QED
    BY <2>17, Zenon
<1>4. QED
  BY <1>2, <1>3

LEMMA AloftPlanes ==
  ASSUME PlaneInv, ListInv
  PROVE  /\ Aloft \subseteq 1 .. births /\ Listed \subseteq 1 .. births /\ Leaving \subseteq Aloft
         /\ Aloft \subseteq Listed /\ Aloft \cap (OnRunway \ Rising) = {} /\ births \in Nat
         /\ \A x \in 1 .. births : heap[x] \in Plane
         /\ DOMAIN heap = 1 .. births
<1>1. InAir \subseteq 1 .. births /\ OnRunway \subseteq 1 .. births /\ InAir \cap OnRunway = {}
  BY DEF ListInv, Whole
<1>2. births \in Nat /\ heap \in [1 .. births -> Plane]
  BY AtcTowerAssumption DEF PlaneInv
<1>3. QED
  BY <1>1, <1>2 DEF Aloft, Rising, Listed, Leaving

LEMMA TickKeepsLists ==
  ASSUME PlaneInv, ListInv, NEW P, NEW exit, Ticked(P, exit)
  PROVE  ListInv'
<1>1. /\ InAir' = (Aloft \ Leaving) \cup (IF exit THEN P ELSE {})
      /\ OnRunway' = (OnRunway \ Rising) \cup (IF exit THEN {} ELSE P)
      /\ exit \in BOOLEAN /\ \A p \in P : p = births + 1
  BY DEF Ticked
<1>2. births + 1 \notin Listed
  BY AloftPlanes
<1>3. InAir' \cap OnRunway' = {}
  BY <1>1, <1>2, AloftPlanes DEF Listed
<1>4. QED
  BY <1>3 DEF Ticked, ListInv

LEMMA TickKeepsPlanes ==
  ASSUME PlaneInv, ListInv, NEW P, NEW exit, Ticked(P, exit)
  PROVE  PlaneInv'
<1>1. births' \in 1 .. Births /\ \A x \in 1 .. births' : x \in 1 .. births \/ x \in P
  BY AtcTowerAssumption DEF Ticked, PlaneInv
<1>2. heap' \in [1 .. births' -> Plane]
  BY DEF Ticked, Whole
<1>3. ASSUME NEW x \in 1 .. births'
      PROVE  /\ heap'[x].delayd_no = 0 \/ heap'[x].delayd_no < Len(Beacons)
             /\ heap'[x].delayd => Len(Beacons) > 0
  <2>1. CASE x \in 1 .. births
    <3>1. /\ heap[x].delayd_no = 0 \/ heap[x].delayd_no < Len(Beacons)
          /\ heap[x].delayd => Len(Beacons) > 0
      BY <2>1, AloftPlanes DEF PlaneInv
    <3>2. heap[x] \in Plane
      BY <2>1, AloftPlanes
    <3>3. heap[x].delayd_no = Later(x).delayd_no /\ (Later(x).delayd => heap[x].delayd)
      BY <3>2, FlownFields DEF Later
    <3>4. heap'[x].delayd_no = Later(x).delayd_no /\ heap'[x].delayd = Later(x).delayd
      BY <2>1 DEF Ticked, SameFlight
    <3>5. heap[x].delayd_no = 0 \/ heap[x].delayd_no < Len(Beacons)
      BY <2>1, AloftPlanes DEF PlaneInv
    <3>6. heap[x].delayd => Len(Beacons) > 0
      BY <2>1, AloftPlanes DEF PlaneInv
    <3>7. QED
      BY <3>3, <3>4, <3>5, <3>6
  <2>2. CASE x \in P
    <3>1. PICK a \in Arrivals, no \in 0 .. Letters - 1 : SameFlight(heap'[x], Added(a, no))
      BY <2>2 DEF Ticked
    <3>2. ~Added(a, no).delayd /\ Added(a, no).delayd_no = 0
      BY AddedType
    <3>3. QED
      BY <3>1, <3>2 DEF SameFlight
  <2>3. QED
    BY <1>1, <2>1, <2>2
<1>4. last_plane' \in 0 .. Letters - 1
  BY DEF Ticked
<1>5. DOMAIN heap' = 1 .. births'
  BY <1>2
<1>6. QED
  BY <1>1, <1>2, <1>3, <1>4, <1>5 DEF PlaneInv

LEMMA AtStartSame ==
  ASSUME NEW p, NEW q, SameFlight(p, q), NEW places
  PROVE  AtStart(p, places) = AtStart(q, places) /\ OnBorder(p) = OnBorder(q)
  BY DEF AtStart, At, OnBorder, SameFlight

LEMMA TickWhereabouts ==
  ASSUME PlaneInv, ListInv, status = "on", Whereabouts, NEW P, NEW exit, Ticked(P, exit)
  PROVE  Whereabouts'
<1> DEFINE InPlace(p) == /\ p.altitude = 0 => p.type = 0 /\ AtStart(p, Airports)
                         /\ OnBorder(p) => AtStart(p, Exits)
           Waits(p) == p.altitude = 0 /\ AtStart(p, Airports)
<1>1. \A p, q : SameFlight(p, q) => (InPlace(p) <=> InPlace(q)) /\ (Waits(p) <=> Waits(q))
  <2> SUFFICES ASSUME NEW p, NEW q, SameFlight(p, q)
               PROVE  (InPlace(p) <=> InPlace(q)) /\ (Waits(p) <=> Waits(q))
    OBVIOUS
  <2>1. p.altitude = q.altitude /\ p.type = q.type
    BY DEF SameFlight
  <2>2. QED
    BY <2>1, AtStartSame
<1>2. ASSUME NEW q \in Aloft \ Leaving PROVE InPlace(Later(q))
  <2>1. heap[q] \in Plane /\ q \in 1 .. births
    BY AloftPlanes
  <2>2. CASE Moves(q)
    <3>1. ~Fails(Flown(heap[q])) /\ Later(q) = Flown(heap[q])
      BY <2>2 DEF Ticked, Later
    <3>2. Later(q).status # "gone"
      BY DEF Leaving
    <3>3. Later(q).altitude # 0 /\ ~OnBorder(Later(q))
      BY <2>1, <3>1, <3>2, FlownType
    <3>4. QED
      BY <3>3
  <2>3. CASE ~Moves(q)
    <3>1. Later(q) = heap[q] /\ heap[q].type = 0
      BY <2>1, <2>3, PlaneFields DEF Moves, Later
    <3>2. CASE q \in InAir
      BY <3>1, <3>2 DEF Whereabouts
    <3>3. CASE q \in OnRunway
      <4>1. AtStart(heap[q], Airports)
        BY <3>3 DEF Whereabouts
      <4>2. ~OnBorder(heap[q])
        <5>1. PICK n \in DOMAIN Airports : At(heap[q], Airports[n])
          BY <4>1 DEF AtStart
        <5>2. Airports[n].x \in 1 .. Width - 2 /\ Airports[n].y \in 1 .. Height - 2
          BY PlaceTypes
        <5>3. QED
          BY <5>1, <5>2, PlaceTypes DEF At, OnBorder
      <4>3. QED
        BY <3>1, <4>1, <4>2
    <3>4. QED
      BY <3>2, <3>3 DEF Aloft, Rising
  <2>4. QED
    BY <2>2, <2>3
<1>3. ASSUME NEW q \in OnRunway \ Rising PROVE Waits(Later(q))
  <2>1. Later(q) = heap[q]
    BY AloftPlanes DEF Later, Moves
  <2>2. QED
    BY <2>1 DEF Whereabouts
<1>4. ASSUME NEW p \in P PROVE (exit => InPlace(heap'[p])) /\ (~exit => Waits(heap'[p]))
  <2>1. PICK a \in Arrivals, no \in 0 .. Letters - 1 :
           SameFlight(heap'[p], Added(a, no)) /\ exit = (a.orig[1] = "exit")
    BY DEF Ticked
  <2>2. (exit => InPlace(Added(a, no))) /\ (~exit => Waits(Added(a, no)))
    <3>1. LET new == Added(a, no)
          IN  /\ a.orig[1] = "exit" => new.altitude = 7 /\ AtStart(new, Exits)
              /\ a.orig[1] # "exit" => new.altitude = 0 /\ AtStart(new, Airports)
      BY AddedType
    <3>2. exit \in BOOLEAN
      BY DEF Ticked
    <3>3. (exit => a.orig[1] = "exit") /\ (~exit => a.orig[1] # "exit")
      BY <2>1, <3>2
    <3>4. exit => InPlace(Added(a, no))
      BY <3>1, <3>3
    <3>5. ~exit => Waits(Added(a, no))
      BY <3>1, <3>3
    <3>6. QED
      BY <3>4, <3>5
  <2> HIDE DEF InPlace, Waits
  <2>3. QED
    BY <1>1, <2>1, <2>2
<1> HIDE DEF InPlace, Waits
<1>5. ASSUME NEW q \in InAir' PROVE InPlace(heap'[q])
  <2>1. CASE q \in Aloft \ Leaving
    <3>1. SameFlight(heap'[q], Later(q))
      BY <2>1, AloftPlanes DEF Ticked
    <3>2. QED
      BY <1>1, <1>2, <2>1, <3>1
  <2>2. CASE q \notin Aloft \ Leaving
    <3>1. exit /\ q \in P
      BY <2>2 DEF Ticked
    <3>2. QED
      BY <1>4, <3>1
  <2>3. QED
    BY <2>1, <2>2
<1>6. ASSUME NEW q \in OnRunway' PROVE Waits(heap'[q])
  <2>1. CASE q \in OnRunway \ Rising
    <3>1. SameFlight(heap'[q], Later(q))
      BY <2>1, AloftPlanes DEF Ticked, Listed
    <3>2. QED
      BY <1>1, <1>3, <2>1, <3>1
  <2>2. CASE q \notin OnRunway \ Rising
    <3>1. ~exit /\ q \in P
      BY <2>2 DEF Ticked
    <3>2. QED
      BY <1>4, <3>1
  <2>3. QED
    BY <2>1, <2>2
<1>7. QED
  BY <1>5, <1>6 DEF Whereabouts, InPlace, Waits

LEMMA Closer ==
  ASSUME NEW p \in Plane, NEW q \in Plane, ~TooClose(p, q, 4)
  PROVE  ~TooClose(p, q, 1) /\ ~TooClose(q, p, 1)
<1>1. /\ p.altitude \in Int /\ p.xpos \in Int /\ p.ypos \in Int
      /\ q.altitude \in Int /\ q.xpos \in Int /\ q.ypos \in Int
  <2>1. \A r \in Plane : r.altitude \in 0 .. 9 /\ r.xpos \in 0 .. Width - 1 /\ r.ypos \in 0 .. Height - 1
    BY PlaneFields
  <2>2. 0 .. 9 \subseteq Int /\ 0 .. Width - 1 \subseteq Int /\ 0 .. Height - 1 \subseteq Int
    BY PlaceTypes
  <2>3. QED
    BY <2>1, <2>2
<1>2. QED
  BY <1>1 DEF TooClose, Abs

LEMMA TickSeparates ==
  ASSUME PlaneInv, ListInv, NEW P, NEW exit, Ticked(P, exit)
  PROVE  Separation'
<1> SUFFICES ASSUME NEW q \in InAir', NEW r \in InAir', q # r PROVE ~TooClose(heap'[q], heap'[r], 1)
  BY DEF Separation
<1> DEFINE S == Aloft \ Leaving
<1>1. ASSUME NEW x \in S PROVE SameFlight(heap'[x], Later(x)) /\ SameFlight(Later(x), heap'[x])
                               /\ heap'[x] \in Plane
  <2>1. x \in 1 .. births
    BY AloftPlanes
  <2>2. SameFlight(heap'[x], Later(x))
    BY <2>1 DEF Ticked
  <2>3. SameFlight(Later(x), heap'[x])
    BY <2>2 DEF SameFlight
  <2>4. births \in Nat /\ x \in 1 .. births'
    BY <2>1, AloftPlanes DEF Ticked
  <2>5. heap'[x] \in Plane
    BY <2>4 DEF Ticked, Whole
  <2>6. QED
    BY <2>2, <2>3, <2>5
<1>2. ASSUME NEW x \in S, NEW y \in P, exit
      PROVE  ~TooClose(heap'[x], heap'[y], 1) /\ ~TooClose(heap'[y], heap'[x], 1)
  <2>1. PICK a \in Arrivals, no \in 0 .. Letters - 1 :
           SameFlight(heap'[y], Added(a, no)) /\ ~TooClose(Later(x), Added(a, no), 4)
    BY <1>2 DEF Ticked
  <2>2. ~TooClose(heap'[x], heap'[y], 4)
    BY <1>1, <2>1, SameDistance
  <2>3. heap'[x] \in Plane /\ heap'[y] \in Plane
    <3>1. y \in 1 .. births'
      BY AloftPlanes DEF Ticked
    <3>2. QED
      BY <1>1, <3>1 DEF Ticked, Whole
  <2>4. QED
    BY <2>2, <2>3, Closer
<1>3. CASE q \in S /\ r \in S
  <2>1. ~TooClose(Later(q), Later(r), 1)
    BY <1>3 DEF Ticked
  <2>2. QED
    BY <1>1, <1>3, <2>1, SameDistance
<1>4. CASE ~(q \in S /\ r \in S)
  <2>1. exit /\ (q \in S \/ q \in P) /\ (r \in S \/ r \in P)
    BY <1>4 DEF Ticked
  <2>2. ~(q \in P /\ r \in P)
    BY DEF Ticked
  <2>3. QED
    BY <1>2, <1>4, <2>1, <2>2
<1>5. QED
  BY <1>3, <1>4

CountInv == /\ safe_planes \in Nat
            /\ births = Cardinality(InAir) + Cardinality(OnRunway) + safe_planes

LEMMA TickCounts ==
  ASSUME PlaneInv, ListInv, CountInv, NEW P, NEW exit, Ticked(P, exit)
  PROVE  CountInv'
<1> DEFINE A == InAir
           G == OnRunway
           R == Rising
           Z == Leaving
           N == births
<1>1. /\ A \subseteq 1 .. N /\ G \subseteq 1 .. N /\ N \in Nat /\ A \cap G = {} /\ R \subseteq G /\ Z \subseteq A \cup R
      /\ N = Cardinality(A) + Cardinality(G) + safe_planes /\ safe_planes \in Nat
  BY AloftPlanes DEF Listed, ListInv, Rising, Leaving, Aloft, CountInv
<1>2. /\ InAir' = ((A \cup R) \ Z) \cup (IF exit THEN P ELSE {})
      /\ OnRunway' = (G \ R) \cup (IF exit THEN {} ELSE P)
      /\ exit \in BOOLEAN
      /\ (P = {} /\ births' = N) \/ (P = {N + 1} /\ births' = N + 1)
      /\ safe_planes' = safe_planes + Cardinality(Z)
  BY DEF Ticked, Aloft
<1> DEFINE X == InAir'
           Y == OnRunway'
           M == births'
           s == safe_planes'
<1> HIDE DEF A, G, R, Z, N, X, Y, M, s
<1>3. IsFiniteSet(1 .. N)
  BY <1>1, FS_Interval
<1>4. IsFiniteSet(A) /\ IsFiniteSet(G) /\ IsFiniteSet(R) /\ IsFiniteSet(Z)
      /\ IsFiniteSet(A \cup R) /\ IsFiniteSet((A \cup R) \ Z) /\ IsFiniteSet(G \ R)
  <2>1. A \cup R \subseteq 1 .. N /\ Z \subseteq 1 .. N /\ R \subseteq 1 .. N /\ (A \cup R) \ Z \subseteq 1 .. N
        /\ G \ R \subseteq 1 .. N
    BY <1>1
  <2>2. QED
    BY <1>1, <1>3, <2>1, FS_Subset
<1>5. Cardinality(A \cup R) = Cardinality(A) + Cardinality(R)
  <2>1. A \cap R = {}
    BY <1>1
  <2>2. Cardinality(A \cup R) = Cardinality(A) + Cardinality(R) - Cardinality(A \cap R)
    BY <1>4, FS_Union
  <2>3. Cardinality(A \cap R) = 0
    BY <2>1, FS_EmptySet
  <2>4. Cardinality(A) \in Nat /\ Cardinality(R) \in Nat
    BY <1>4, FS_CardinalityType
  <2>5. QED
    BY <2>2, <2>3, <2>4
<1>6. Cardinality((A \cup R) \ Z) = Cardinality(A \cup R) - Cardinality(Z)
  <2>1. (A \cup R) \cap Z = Z
    BY <1>1
  <2>2. Cardinality((A \cup R) \ Z) = Cardinality(A \cup R) - Cardinality((A \cup R) \cap Z)
    BY <1>4, FS_Difference
  <2>3. QED
    BY <2>1, <2>2
<1>7. Cardinality(G \ R) = Cardinality(G) - Cardinality(R)
  <2>1. G \cap R = R
    BY <1>1
  <2>2. Cardinality(G \ R) = Cardinality(G) - Cardinality(G \cap R)
    BY <1>4, FS_Difference
  <2>3. QED
    BY <2>1, <2>2
<1>8. /\ Cardinality(A) \in Nat /\ Cardinality(G) \in Nat /\ Cardinality(R) \in Nat /\ Cardinality(Z) \in Nat
      /\ Cardinality((A \cup R) \ Z) \in Nat /\ Cardinality(G \ R) \in Nat /\ Cardinality(A \cup R) \in Nat
  BY <1>4, FS_CardinalityType
<1>9. N = Cardinality((A \cup R) \ Z) + Cardinality(G \ R) + s /\ s \in Nat
  BY <1>1, <1>2, <1>5, <1>6, <1>7, <1>8 DEF s
<1>10. M = Cardinality(X) + Cardinality(Y) + s
  <2>1. CASE P = {}
    <3>1. X = (A \cup R) \ Z /\ Y = G \ R /\ M = N
      BY <1>1, <1>2, <2>1 DEF X, Y, M
    <3>2. QED
      BY <1>9, <3>1
  <2>2. CASE P # {} /\ exit
    <3>1. X = ((A \cup R) \ Z) \cup {N + 1} /\ Y = G \ R /\ M = N + 1 /\ N + 1 \notin (A \cup R) \ Z
      BY <1>1, <1>2, <2>2 DEF X, Y, M
    <3>2. Cardinality(X) = Cardinality((A \cup R) \ Z) + 1
      BY <1>4, <3>1, FS_AddElement
    <3>3. QED
      BY <1>8, <1>9, <3>1, <3>2
  <2>3. CASE P # {} /\ ~exit
    <3>1. X = (A \cup R) \ Z /\ Y = (G \ R) \cup {N + 1} /\ M = N + 1 /\ N + 1 \notin G \ R
      BY <1>1, <1>2, <2>3 DEF X, Y, M
    <3>2. Cardinality(Y) = Cardinality(G \ R) + 1
      BY <1>4, <3>1, FS_AddElement
    <3>3. QED
      BY <1>8, <1>9, <3>1, <3>2
  <2>4. QED
    BY <2>1, <2>2, <2>3
<1>11. QED
  BY <1>9, <1>10 DEF CountInv, X, Y, M, s
=============================================================================
