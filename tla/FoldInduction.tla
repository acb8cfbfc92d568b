--------------------------- MODULE FoldInduction ---------------------------
(***************************************************************************)
(* Induction over FoldLeft.  Instantiated with the operator that is folded *)
(* and with what holds after each of its steps.  Behind it, what a fold is *)
(* for a sequence that grows at its end and for two in a row.              *)
(*                                                                         *)
(* An instance brings a copy of every module below it into each proof of   *)
(* the module that makes it.  So this one stands on the library's          *)
(* well-founded induction alone: FoldLeft is written out, as Fold, with    *)
(* Greatest for Max, and the few lemmas of SequenceInduction that are      *)
(* needed are here again.  Whoever instantiates it shows, by their         *)
(* definitions, that FoldLeft of the operator is the instance's Fold.      *)
(***************************************************************************)
EXTENDS Naturals, Sequences, WellFoundedInduction, TLAPS

CONSTANTS
  op(_, _),         (* of what was made so far and the next element        *)
  Holds(_, _, _)    (* of what was made of the first elements, their       *)
                    (* number, and what the statement is about             *)

(* Max, FoldLeft and MapThenFoldSet of the community modules.              *)
Greatest(S) == CHOOSE x \in S : \A y \in S : x >= y

Fold(base, s) ==
  LET iter[S \in SUBSET (DOMAIN s)] ==
        IF S = {} THEN base
        ELSE LET x == Greatest(S) IN op(iter[S \ {x}], s[x])
  IN  iter[DOMAIN s]

(* Every set of natural numbers has a least one.                           *)
LEMMA LeastNatural ==
  ASSUME NEW T, T \subseteq Nat, T # {}
  PROVE  \E x \in T : \A y \in T : ~(y < x)
<1> DEFINE Less == {ss \in Nat \X Nat : ss[1] < ss[2]}
<1>1. IsWellFoundedOn(Less, Nat)
  BY NatLessThanWellFounded DEF OpToRel
<1> HIDE DEF Less
<1>2. PICK x \in T : \A y \in T : <<y, x>> \notin Less
  BY <1>1, WFMin
<1>3. \A y \in T : <<y, x>> \in Nat \X Nat
  BY <1>2
<1> QED
  BY <1>2, <1>3 DEF Less

(* A set with 0 and with the successor of each of its numbers has them all.*)
LEMMA SetInduction ==
  ASSUME NEW S, 0 \in S, \A n \in Nat : n \in S => n + 1 \in S
  PROVE  \A n \in Nat : n \in S
<1> DEFINE Rest == Nat \ S
<1> SUFFICES ASSUME Rest # {}
             PROVE  FALSE
  OBVIOUS
<1>1. PICK x \in Rest : \A y \in Rest : ~(y < x)
  BY LeastNatural
<1>2. x \in Nat /\ x # 0 /\ x - 1 \in Nat /\ x - 1 < x
  BY <1>1
<1>3. x - 1 \in S
  BY <1>1, <1>2
<1> QED
  BY <1>1, <1>2, <1>3

(* The greatest number of a set of some.                                   *)
LEMMA GreatestIs ==
  ASSUME NEW n \in Nat, NEW S \in SUBSET (0 .. n), S # {}
  PROVE  Greatest(S) \in S /\ \A x \in S : x <= Greatest(S)
<1> DEFINE Above == {m \in Nat : \A x \in S : x <= m}
<1>1. n \in Above
  OBVIOUS
<1>2. PICK m \in Above : \A k \in Above : ~(k < m)
  <2>1. Above \subseteq Nat /\ Above # {}
    BY <1>1
  <2> HIDE DEF Above
  <2> QED
    BY <2>1, LeastNatural
<1>3. m \in S
  <2> SUFFICES ASSUME m \notin S
               PROVE  FALSE
    OBVIOUS
  <2>1. PICK x \in S : TRUE
    OBVIOUS
  <2>2. x \in Nat /\ x <= m /\ x # m /\ m \in Nat
    BY <1>2
  <2>3. m - 1 \in Nat /\ m - 1 < m
    BY <2>2
  <2>4. \A y \in S : y <= m - 1
    BY <1>2
  <2> QED
    BY <1>2, <2>3, <2>4
<1>4. \E x \in S : \A y \in S : x >= y
  BY <1>2, <1>3
<1> QED
  BY <1>4 DEF Greatest

(* A sequence up to one of its elements, up to none of them and whole.     *)
LEMMA OneMore ==
  ASSUME NEW T, NEW s \in Seq(T), NEW k \in DOMAIN s
  PROVE  /\ SubSeq(s, 1, k - 1) \in Seq(T) /\ s[k] \in T
         /\ SubSeq(s, 1, k) = Append(SubSeq(s, 1, k - 1), s[k])
<1>1. /\ k \in Nat /\ k - 1 \in Nat /\ k <= Len(s) /\ Len(s) \in Nat /\ s[k] \in T
  OBVIOUS
<1> DEFINE a == SubSeq(s, 1, k - 1)
           b == SubSeq(s, 1, k)
<1>2. a \in Seq(T) /\ Len(a) = k - 1 /\ \A i \in 1 .. (k - 1) : a[i] = s[i]
  BY <1>1
<1>3. b \in Seq(T) /\ Len(b) = k /\ \A i \in 1 .. k : b[i] = s[i]
  BY <1>1
<1> HIDE DEF a, b
<1>4. b = Append(a, s[k])
  BY <1>1, <1>2, <1>3
<1> QED
  BY <1>1, <1>2, <1>4 DEF a, b

LEMMA NoneAndAll ==
  ASSUME NEW T, NEW s \in Seq(T)
  PROVE  SubSeq(s, 1, 0) = <<>> /\ SubSeq(s, 1, Len(s)) = s
  OBVIOUS

-----------------------------------------------------------------------------
(* What Fold chooses.                                                      *)
Folds(it, base, s, n) ==
  it = [S \in SUBSET (1 .. n) |->
          IF S = {} THEN base ELSE op(it[S \ {Greatest(S)}], s[Greatest(S)])]

LEMMA FoldIs ==
  ASSUME NEW T, NEW s \in Seq(T), NEW base
  PROVE  Fold(base, s) = (CHOOSE it : Folds(it, base, s, Len(s)))[1 .. Len(s)]
<1>1. DOMAIN s = 1 .. Len(s)
  OBVIOUS
<1> QED
  BY <1>1, Zenon DEF Fold, Folds

(* It is there.                                                            *)
LEMMA FoldsExists ==
  ASSUME NEW base, NEW s, NEW n \in Nat
  PROVE  \E it : Folds(it, base, s, n)
<1> DEFINE There == {k \in Nat : \E it : Folds(it, base, s, k)}
<1>1. 0 \in There
  <2>1. 1 .. 0 = {}
    OBVIOUS
  <2> DEFINE it == [S \in SUBSET (1 .. 0) |-> base]
  <2>2. it = [S \in SUBSET (1 .. 0) |->
                IF S = {} THEN base ELSE op(it[S \ {Greatest(S)}], s[Greatest(S)])]
    BY <2>1
  <2> QED
    BY <2>2 DEF Folds
<1>2. ASSUME NEW k \in Nat, k \in There
      PROVE  k + 1 \in There
  <2>1. PICK f : Folds(f, base, s, k)
    BY <1>2
  <2> DEFINE All == SUBSET (1 .. k + 1)
             g == [S \in All |-> IF k + 1 \in S THEN op(f[S \ {k + 1}], s[k + 1]) ELSE f[S]]
  <2>2. ASSUME NEW S \in All
        PROVE  g[S] = IF S = {} THEN base ELSE op(g[S \ {Greatest(S)}], s[Greatest(S)])
    <3>1. S \ {k + 1} \in SUBSET (1 .. k) /\ S \ {k + 1} \in All /\ k + 1 \notin S \ {k + 1}
      OBVIOUS
    <3>2. CASE k + 1 \in S
      <4>0. k + 1 \in Nat /\ S \in SUBSET (0 .. (k + 1)) /\ S # {}
        BY <3>2
      <4>1. Greatest(S) \in S /\ \A x \in S : x <= Greatest(S)
        BY <4>0, GreatestIs
      <4>2. Greatest(S) = k + 1
        <5>1. Greatest(S) \in 1 .. (k + 1)
          BY <4>1
        <5>2. k + 1 <= Greatest(S)
          BY <4>1, <3>2
        <5> QED
          BY <5>1, <5>2
      <4>3. g[S] = op(f[S \ {k + 1}], s[k + 1]) /\ S # {}
        BY <3>2
      <4>4. g[S \ {k + 1}] = f[S \ {k + 1}]
        BY <3>1
      <4> HIDE DEF g
      <4> QED
        BY <4>2, <4>3, <4>4
    <3>3. CASE k + 1 \notin S
      <4>1. S \in SUBSET (1 .. k) /\ g[S] = f[S]
        BY <3>3, <3>1
      <4>2. f[S] = IF S = {} THEN base ELSE op(f[S \ {Greatest(S)}], s[Greatest(S)])
        BY <4>1, <2>1 DEF Folds
      <4>3. S \ {Greatest(S)} \in All /\ k + 1 \notin S \ {Greatest(S)}
        BY <3>3
      <4>4. g[S \ {Greatest(S)}] = f[S \ {Greatest(S)}]
        BY <4>3
      <4> HIDE DEF g
      <4> QED
        BY <4>1, <4>2, <4>4
    <3> QED
      BY <3>2, <3>3
  <2>3. g = [S \in All |-> g[S]]
    OBVIOUS
  <2>4. g = [S \in All |-> IF S = {} THEN base ELSE op(g[S \ {Greatest(S)}], s[Greatest(S)])]
    <3> HIDE DEF g, All
    <3> QED
      BY <2>2, <2>3, Zenon
  <2>5. Folds(g, base, s, k + 1)
    <3> HIDE DEF g
    <3> QED
      BY <2>4 DEF Folds
  <2> HIDE DEF g
  <2> QED
    BY <2>5
<1> HIDE DEF There
<1>3. n \in There
  BY <1>1, <1>2, SetInduction
<1> QED
  BY <1>3 DEF There

(* What holds of the base, and after a step if it did before, holds of the *)
(* fold.                                                                   *)
LEMMA FoldHolds ==
  ASSUME NEW T, NEW s \in Seq(T), NEW base, NEW c,
         Holds(base, 0, c),
         \A k \in DOMAIN s : \A acc : Holds(acc, k - 1, c) => Holds(op(acc, s[k]), k, c)
  PROVE  Holds(Fold(base, s), Len(s), c)
<1> DEFINE n == Len(s)
           it == CHOOSE f : Folds(f, base, s, n)
           So == {k \in Nat : k <= n => Holds(it[1 .. k], k, c)}
<1>1. n \in Nat /\ DOMAIN s = 1 .. n
  OBVIOUS
<1> HIDE DEF n
<1>2. Folds(it, base, s, n)
  BY <1>1, FoldsExists
<1> HIDE DEF it
<1>3. 0 \in So
  <2>1. 1 .. 0 = {} /\ {} \in SUBSET (1 .. n)
    OBVIOUS
  <2>2. it[{}] = base
    BY <1>2, <2>1 DEF Folds
  <2> QED
    BY <2>1, <2>2
<1>4. ASSUME NEW k \in Nat, k \in So
      PROVE  k + 1 \in So
  <2> SUFFICES ASSUME k + 1 <= n
               PROVE  Holds(it[1 .. k + 1], k + 1, c)
    OBVIOUS
  <2>1. k <= n /\ k + 1 \in DOMAIN s
    BY <1>1
  <2>2. Holds(it[1 .. k], k, c)
    BY <1>4, <2>1
  <2>3. 1 .. k + 1 \in SUBSET (1 .. n) /\ 1 .. k + 1 # {} /\ k + 1 \in 1 .. k + 1
    BY <1>1
  <2>4. Greatest(1 .. k + 1) \in 1 .. k + 1 /\ \A x \in 1 .. k + 1 : x <= Greatest(1 .. k + 1)
    <3>1. k + 1 \in Nat /\ 1 .. k + 1 \in SUBSET (0 .. k + 1)
      OBVIOUS
    <3> QED
      BY <3>1, <2>3, GreatestIs
  <2>5. Greatest(1 .. k + 1) = k + 1
    BY <2>3, <2>4
  <2>6. (1 .. k + 1) \ {k + 1} = 1 .. k
    OBVIOUS
  <2>7. it[1 .. k + 1] = op(it[(1 .. k + 1) \ {Greatest(1 .. k + 1)}], s[Greatest(1 .. k + 1)])
    BY <1>2, <2>3 DEF Folds
  <2>8. it[1 .. k + 1] = op(it[1 .. k], s[k + 1])
    BY <2>5, <2>6, <2>7
  <2>9. (k + 1) - 1 = k
    OBVIOUS
  <2> QED
    BY <2>1, <2>2, <2>8, <2>9
<1> HIDE DEF So
<1>5. n \in So
  BY <1>1, <1>3, <1>4, SetInduction
<1>6. Holds(it[1 .. n], n, c)
  BY <1>1, <1>5 DEF So
<1>7. Fold(base, s) = (CHOOSE f : Folds(f, base, s, Len(s)))[1 .. Len(s)]
  BY FoldIs
<1> QED
  BY <1>6, <1>7 DEF n, it
-----------------------------------------------------------------------------
(* A fold from one end of a sequence to the other, step by step.           *)
LEMMA FoldsAt ==
  ASSUME NEW base, NEW s, NEW n \in Nat, NEW it, Folds(it, base, s, n)
  PROVE  /\ it[1 .. 0] = base
         /\ \A k \in 0 .. (n - 1) : it[1 .. k + 1] = op(it[1 .. k], s[k + 1])
<1>1. it[1 .. 0] = base
  <2>1. 1 .. 0 = {} /\ {} \in SUBSET (1 .. n)
    OBVIOUS
  <2>2. it[{}] = base
    BY <2>1 DEF Folds
  <2> QED
    BY <2>1, <2>2
<1>2. ASSUME NEW k \in 0 .. (n - 1)
      PROVE  it[1 .. k + 1] = op(it[1 .. k], s[k + 1])
  <2>1. k \in Nat /\ 1 .. k + 1 \in SUBSET (1 .. n) /\ 1 .. k + 1 # {} /\ k + 1 \in 1 .. k + 1
    OBVIOUS
  <2>2. Greatest(1 .. k + 1) \in 1 .. k + 1 /\ \A x \in 1 .. k + 1 : x <= Greatest(1 .. k + 1)
    <3>1. k + 1 \in Nat /\ 1 .. k + 1 \in SUBSET (0 .. k + 1)
      BY <2>1
    <3> QED
      BY <2>1, <3>1, GreatestIs
  <2>3. Greatest(1 .. k + 1) = k + 1
    BY <2>1, <2>2
  <2>4. (1 .. k + 1) \ {k + 1} = 1 .. k
    OBVIOUS
  <2>5. it[1 .. k + 1] = op(it[(1 .. k + 1) \ {Greatest(1 .. k + 1)}], s[Greatest(1 .. k + 1)])
    BY <2>1 DEF Folds
  <2> QED
    BY <2>3, <2>4, <2>5
<1> QED
  BY <1>1, <1>2

LEMMA FoldNone ==
  ASSUME NEW base
  PROVE  Fold(base, <<>>) = base
<1> DEFINE s == <<>>
           it == CHOOSE f : Folds(f, base, s, 0)
<1>1. s \in Seq({}) /\ Len(s) = 0
  OBVIOUS
<1> HIDE DEF s
<1>2. Folds(it, base, s, 0)
  BY FoldsExists
<1>3. Fold(base, s) = it[1 .. 0]
  <2>1. Fold(base, s) = (CHOOSE f : Folds(f, base, s, Len(s)))[1 .. Len(s)]
    BY <1>1, FoldIs
  <2> QED
    BY <1>1, <2>1
<1> HIDE DEF it
<1>4. it[1 .. 0] = base
  BY <1>2, FoldsAt
<1> QED
  BY <1>3, <1>4 DEF s

(* One more element is folded last.                                        *)
LEMMA FoldAppend ==
  ASSUME NEW T, NEW s \in Seq(T), NEW x \in T, NEW base
  PROVE  Fold(base, Append(s, x)) = op(Fold(base, s), x)
<1> DEFINE n == Len(s)
           t == Append(s, x)
           f == CHOOSE h : Folds(h, base, s, n)
           m == n + 1
           g == CHOOSE h : Folds(h, base, t, m)
           Same == {k \in Nat : k <= n => f[1 .. k] = g[1 .. k]}
<1>1. /\ n \in Nat /\ t \in Seq(T) /\ Len(t) = n + 1 /\ t[n + 1] = x
      /\ \A k \in 1 .. n : t[k] = s[k]
  OBVIOUS
<1>2. Fold(base, s) = f[1 .. n]
  BY FoldIs
<1>3. Fold(base, t) = g[1 .. m]
  <2> HIDE DEF t
  <2>1. Fold(base, t) = (CHOOSE h : Folds(h, base, t, Len(t)))[1 .. Len(t)]
    BY <1>1, FoldIs
  <2> QED
    BY <1>1, <2>1
<1>m. m \in Nat /\ m - 1 = n /\ m = n + 1
  BY <1>1
<1> HIDE DEF n, t, m
<1>4. Folds(f, base, s, n) /\ Folds(g, base, t, m)
  <2>1. Folds(f, base, s, n)
    BY <1>1, FoldsExists
  <2>2. Folds(g, base, t, m)
    BY <1>m, FoldsExists
  <2> QED
    BY <2>1, <2>2
<1> HIDE DEF f, g
<1>5. /\ f[1 .. 0] = base
      /\ \A k \in 0 .. (n - 1) : f[1 .. k + 1] = op(f[1 .. k], s[k + 1])
  BY <1>1, <1>4, FoldsAt
<1>6. /\ g[1 .. 0] = base
      /\ \A k \in 0 .. n : g[1 .. k + 1] = op(g[1 .. k], t[k + 1])
  <2>1. /\ g[1 .. 0] = base
        /\ \A k \in 0 .. (m - 1) : g[1 .. k + 1] = op(g[1 .. k], t[k + 1])
    BY <1>4, <1>m, FoldsAt
  <2> QED
    BY <1>m, <2>1
<1>7. 0 \in Same
  BY <1>5, <1>6
<1>8. ASSUME NEW k \in Nat, k \in Same
      PROVE  k + 1 \in Same
  <2> SUFFICES ASSUME k + 1 <= n
               PROVE  f[1 .. k + 1] = g[1 .. k + 1]
    OBVIOUS
  <2>1. k <= n /\ k \in 0 .. (n - 1) /\ k \in 0 .. n /\ k + 1 \in 1 .. n
    BY <1>1
  <2>2. f[1 .. k] = g[1 .. k] /\ t[k + 1] = s[k + 1]
    BY <1>1, <1>8, <2>1
  <2>3. f[1 .. k + 1] = op(f[1 .. k], s[k + 1]) /\ g[1 .. k + 1] = op(g[1 .. k], t[k + 1])
    BY <1>5, <1>6, <2>1
  <2> QED
    BY <2>2, <2>3
<1> HIDE DEF Same
<1>9. n \in Same
  BY <1>1, <1>7, <1>8, SetInduction
<1>10. f[1 .. n] = g[1 .. n]
  BY <1>1, <1>9 DEF Same
<1>11. g[1 .. n + 1] = op(g[1 .. n], x)
  <2>1. n \in 0 .. n
    BY <1>1
  <2> QED
    BY <1>1, <1>6, <2>1
<1>12. Fold(base, t) = g[1 .. n + 1]
  BY <1>3, <1>m
<1>13. Fold(base, t) = op(Fold(base, s), x)
  BY <1>2, <1>12, <1>10, <1>11
<1> QED
  BY <1>13 DEF t

(* Two sequences in a row are folded one after the other.                  *)
LEMMA FoldConcat ==
  ASSUME NEW T, NEW s \in Seq(T), NEW t \in Seq(T), NEW base
  PROVE  Fold(base, s \o t) = Fold(Fold(base, s), t)
<1> DEFINE n == Len(t)
           P(k) == Fold(base, s \o SubSeq(t, 1, k)) = Fold(Fold(base, s), SubSeq(t, 1, k))
           So == {k \in Nat : k <= n => P(k)}
<1>1. n \in Nat /\ DOMAIN t = 1 .. n
  OBVIOUS
<1>2. 0 \in So
  <2>1. SubSeq(t, 1, 0) = <<>> /\ s \o <<>> = s
    OBVIOUS
  <2> QED
    BY <2>1, FoldNone
<1>3. ASSUME NEW k \in Nat, k \in So
      PROVE  k + 1 \in So
  <2> SUFFICES ASSUME k + 1 <= n
               PROVE  P(k + 1)
    OBVIOUS
  <2> DEFINE u == SubSeq(t, 1, k)
             x == t[k + 1]
  <2>1. P(k) /\ k + 1 \in DOMAIN t
    BY <1>1, <1>3
  <2>2. u \in Seq(T) /\ x \in T /\ SubSeq(t, 1, k + 1) = Append(u, x)
    <3>1. (k + 1) - 1 = k
      OBVIOUS
    <3> QED
      BY <2>1, <3>1, OneMore
  <2>3. Fold(base, s \o u) = Fold(Fold(base, s), u)
    BY <2>1
  <2> HIDE DEF u, x
  <2>4. s \o Append(u, x) = Append(s \o u, x) /\ s \o u \in Seq(T)
    BY <2>2
  <2>5. Fold(base, Append(s \o u, x)) = op(Fold(base, s \o u), x)
    BY <2>2, <2>4, FoldAppend
  <2>6. Fold(Fold(base, s), Append(u, x)) = op(Fold(Fold(base, s), u), x)
    BY <2>2, FoldAppend
  <2> QED
    BY <2>2, <2>3, <2>4, <2>5, <2>6
<1> HIDE DEF So
<1>4. n \in So
  BY <1>1, <1>2, <1>3, SetInduction
<1>5. P(n)
  BY <1>1, <1>4 DEF So
<1>6. SubSeq(t, 1, n) = t
  BY <1>1, NoneAndAll
<1> QED
  BY <1>5, <1>6
=============================================================================
