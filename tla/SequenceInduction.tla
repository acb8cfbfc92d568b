------------------------- MODULE SequenceInduction -------------------------
(***************************************************************************)
(* Induction for the proofs about sequences.                               *)
(*                                                                         *)
(* The library states induction over the naturals for an operator, which   *)
(* the provers cannot instantiate.  Here it is stated for a set, from the  *)
(* well-foundedness of < on the naturals, and used to say what FlattenSeq  *)
(* returns for a sequence that grows, or is cut, at its end, and for one   *)
(* whose elements are each mapped to a few others: the log that the scan   *)
(* of the ports appends to and the next scan reads back, the blocks open   *)
(* on nodestack, and the lines of a Makefile.                              *)
(***************************************************************************)
EXTENDS Naturals, Sequences, SequencesExt, SequenceTheorems, WellFoundedInduction, TLAPS

(* Every set of natural numbers has a least one.                           *)
LEMMA LeastNatural ==
  ASSUME NEW T, T \subseteq Nat, T # {}
  PROVE  \E x \in T : \A y \in T : ~(y < x)
<1> DEFINE Less == {ss \in Nat \X Nat : ss[1] < ss[2]}
<1>1. IsWellFoundedOn(Less, Nat)
  BY NatLessThanWellFounded DEF OpToRel
<1> HIDE DEF Less
<1>2. PICK x \in T : \A y \in T : <<y, x>> \notin Less
  BY <1>1, WFMin
<1>3. \A y \in T : <<y, x>> \in Nat \X Nat
  BY <1>2
<1> QED
  BY <1>2, <1>3 DEF Less

(* A set with 0 and with the successor of each of its numbers has them all.*)
LEMMA SetInduction ==
  ASSUME NEW S, 0 \in S, \A n \in Nat : n \in S => n + 1 \in S
  PROVE  \A n \in Nat : n \in S
<1> DEFINE Rest == Nat \ S
<1> SUFFICES ASSUME Rest # {}
             PROVE  FALSE
  OBVIOUS
<1>1. PICK x \in Rest : \A y \in Rest : ~(y < x)
  BY LeastNatural
<1>2. x \in Nat /\ x # 0 /\ x - 1 \in Nat /\ x - 1 < x
  BY <1>1
<1>3. x - 1 \in S
  BY <1>1, <1>2
<1> QED
  BY <1>1, <1>2, <1>3

(* The greatest number of a set of some.                                   *)
LEMMA MaxIs ==
  ASSUME NEW n \in Nat, NEW S \in SUBSET (0 .. n), S # {}
  PROVE  Max(S) \in S /\ \A x \in S : x <= Max(S)
<1> DEFINE Above == {m \in Nat : \A x \in S : x <= m}
<1>1. n \in Above
  OBVIOUS
<1>2. PICK m \in Above : \A k \in Above : ~(k < m)
  <2>1. Above \subseteq Nat /\ Above # {}
    BY <1>1
  <2> HIDE DEF Above
  <2> QED
    BY <2>1, LeastNatural
<1>3. m \in S
  <2> SUFFICES ASSUME m \notin S
               PROVE  FALSE
    OBVIOUS
  <2>1. PICK x \in S : TRUE
    OBVIOUS
  <2>2. x \in Nat /\ x <= m /\ x # m /\ m \in Nat
    BY <1>2
  <2>3. m - 1 \in Nat /\ m - 1 < m
    BY <2>2
  <2>4. \A y \in S : y <= m - 1
    BY <1>2
  <2> QED
    BY <1>2, <2>3, <2>4
<1>4. \E x \in S : \A y \in S : x >= y
  BY <1>2, <1>3
<1> QED
  BY <1>4 DEF Max

(* The least number of a set.                                              *)
LEMMA MinIs ==
  ASSUME NEW S \in SUBSET Nat, S # {}
  PROVE  Min(S) \in S /\ \A x \in S : Min(S) <= x
<1>1. PICK x \in S : \A y \in S : ~(y < x)
  BY LeastNatural
<1>2. \A y \in S : x <= y
  BY <1>1
<1> QED
  BY <1>2 DEF Min

(* Concatenation under a name the provers do not look behind.              *)
Glue(s, t) == s \o t

(* The function FlattenSeq chooses: what the first i of n sequences are    *)
(* concatenated to.                                                        *)
Flattening(g, seqs, n) ==
  g = [i \in 1 .. n |-> IF i = 1 THEN seqs[i] ELSE Glue(g[i - 1], seqs[i])]

(* What is concatenated up to one of the sequences.                        *)
LEMMA FlatteningAt ==
  ASSUME NEW g, NEW seqs, NEW n, Flattening(g, seqs, n), NEW i \in 1 .. n
  PROVE  g[i] = IF i = 1 THEN seqs[i] ELSE Glue(g[i - 1], seqs[i])
  BY DEF Flattening

(* FlattenSeq has a function to choose.                                    *)
LEMMA FlatteningExists ==
  ASSUME NEW seqs, NEW n \in Nat
  PROVE  \E g : Flattening(g, seqs, n)
<1> DEFINE S == {k \in Nat : \E g : Flattening(g, seqs, k)}
<1>1. 0 \in S
  <2>1. Flattening(<<>>, seqs, 0)
    BY DEF Flattening
  <2> QED
    BY <2>1
<1>2. ASSUME NEW k \in Nat, k \in S
      PROVE  k + 1 \in S
  <2>1. PICK g : Flattening(g, seqs, k)
    BY <1>2
  <2> DEFINE last == IF k + 1 = 1 THEN seqs[k + 1] ELSE Glue(g[k], seqs[k + 1])
             h == [i \in 1 .. (k + 1) |-> IF i = k + 1 THEN last ELSE g[i]]
  <2>2. \A i \in 1 .. (k + 1) : h[i] = IF i = 1 THEN seqs[i] ELSE Glue(h[i - 1], seqs[i])
    <3> TAKE i \in 1 .. (k + 1)
    <3>1. CASE i = k + 1
      BY <3>1
    <3>2. CASE i # k + 1
      <4>1. i \in 1 .. k
        BY <3>2
      <4>2. g[i] = IF i = 1 THEN seqs[i] ELSE Glue(g[i - 1], seqs[i])
        BY <2>1, <4>1, FlatteningAt
      <4> QED
        BY <4>1, <4>2
    <3> QED
      BY <3>1, <3>2
  <2>3. Flattening(h, seqs, k + 1)
    BY <2>2 DEF Flattening
  <2> QED
    BY <2>3
<1> HIDE DEF S
<1>3. n \in S
  BY <1>1, <1>2, SetInduction
<1> QED
  BY <1>3 DEF S

(* FlattenSeq returns the last value of such a function.                   *)
LEMMA FlatteningDef ==
  ASSUME NEW seqs, NEW n \in Nat \ {0}, n = Len(seqs)
  PROVE  \E g : Flattening(g, seqs, n) /\ FlattenSeq(seqs) = g[n]
<1>1. FlattenSeq(seqs) = (CHOOSE g : Flattening(g, seqs, n))[n]
  BY DEF FlattenSeq, Flattening, Glue
<1>2. \E g : Flattening(g, seqs, n)
  BY FlatteningExists
<1> QED
  BY <1>1, <1>2

(* What is flattened of a sequence does not depend on what comes behind.   *)
LEMMA FlatteningAgrees ==
  ASSUME NEW s, NEW t, NEW m \in Nat, NEW n \in Nat, m <= n,
         \A i \in 1 .. m : t[i] = s[i],
         NEW g, NEW h, Flattening(g, s, m), Flattening(h, t, n)
  PROVE  \A i \in 1 .. m : h[i] = g[i]
<1> DEFINE S == {k \in Nat : k \in 1 .. m => h[k] = g[k]}
<1>1. 0 \in S
  OBVIOUS
<1>2. ASSUME NEW k \in Nat, k \in S
      PROVE  k + 1 \in S
  <2> SUFFICES ASSUME k + 1 \in 1 .. m
               PROVE  h[k + 1] = g[k + 1]
    OBVIOUS
  <2>1. g[k + 1] = IF k + 1 = 1 THEN s[k + 1] ELSE Glue(g[k + 1 - 1], s[k + 1])
    BY FlatteningAt
  <2>2. h[k + 1] = IF k + 1 = 1 THEN t[k + 1] ELSE Glue(h[k + 1 - 1], t[k + 1])
    <3>1. k + 1 \in 1 .. n
      OBVIOUS
    <3> QED
      BY <3>1, FlatteningAt
  <2>3. t[k + 1] = s[k + 1]
    OBVIOUS
  <2>4. CASE k = 0
    BY <2>1, <2>2, <2>3, <2>4
  <2>5. CASE k # 0
    <3>1. h[k] = g[k] /\ k + 1 - 1 = k /\ k + 1 # 1
      BY <1>2, <2>5
    <3> QED
      BY <2>1, <2>2, <2>3, <3>1
  <2> QED
    BY <2>4, <2>5
<1> HIDE DEF S
<1>3. \A k \in Nat : k \in S
  BY <1>1, <1>2, SetInduction
<1> QED
  BY <1>3 DEF S

(* Sequences over S are concatenated to a sequence over S.                 *)
LEMMA FlatteningType ==
  ASSUME NEW S, NEW seqs \in Seq(Seq(S)), NEW g, Flattening(g, seqs, Len(seqs))
  PROVE  \A i \in 1 .. Len(seqs) : g[i] \in Seq(S)
<1> DEFINE T == {k \in Nat : k \in 1 .. Len(seqs) => g[k] \in Seq(S)}
<1>1. 0 \in T
  OBVIOUS
<1>2. ASSUME NEW k \in Nat, k \in T
      PROVE  k + 1 \in T
  <2> SUFFICES ASSUME k + 1 \in 1 .. Len(seqs)
               PROVE  g[k + 1] \in Seq(S)
    OBVIOUS
  <2>1. g[k + 1] = IF k + 1 = 1 THEN seqs[k + 1] ELSE Glue(g[k + 1 - 1], seqs[k + 1])
    BY FlatteningAt
  <2>2. seqs[k + 1] \in Seq(S)
    OBVIOUS
  <2>3. CASE k = 0
    BY <2>1, <2>2, <2>3
  <2>4. CASE k # 0
    <3>1. g[k] \in Seq(S) /\ k + 1 - 1 = k /\ k + 1 # 1
      BY <1>2, <2>4
    <3> QED
      BY <2>1, <2>2, <3>1 DEF Glue
  <2> QED
    BY <2>3, <2>4
<1> HIDE DEF T
<1>3. \A k \in Nat : k \in T
  BY <1>1, <1>2, SetInduction
<1> QED
  BY <1>3 DEF T

-----------------------------------------------------------------------------
(* The sequences of a sequence are flattened to one over the same set.     *)
LEMMA FlattenType ==
  ASSUME NEW S, NEW seqs \in Seq(Seq(S))
  PROVE  FlattenSeq(seqs) \in Seq(S)
<1>1. CASE Len(seqs) = 0
  <2>1. FlattenSeq(seqs) = seqs
    BY <1>1 DEF FlattenSeq
  <2>2. seqs = <<>>
    BY <1>1
  <2> QED
    BY <2>1, <2>2
<1>2. CASE Len(seqs) # 0
  <2>1. Len(seqs) \in Nat \ {0} /\ Len(seqs) \in 1 .. Len(seqs)
    BY <1>2
  <2>2. PICK g : Flattening(g, seqs, Len(seqs)) /\ FlattenSeq(seqs) = g[Len(seqs)]
    BY <2>1, FlatteningDef
  <2> QED
    BY <2>1, <2>2, FlatteningType
<1> QED
  BY <1>1, <1>2

(* flat is what the first n sequences of seqs are flattened to.            *)
Flattened(flat, seqs, n) == \E g : Flattening(g, seqs, n) /\ flat = g[n]

(* One more sequence is concatenated behind what there was.                *)
LEMMA FlatteningNext ==
  ASSUME NEW s, NEW t, NEW m \in Nat \ {0}, \A i \in 1 .. m : t[i] = s[i],
         NEW a, NEW b, Flattened(a, s, m), Flattened(b, t, m + 1)
  PROVE  b = Glue(a, t[m + 1])
<1> DEFINE n == m + 1
<1>1. /\ m \in Nat /\ n \in Nat /\ m <= n /\ m # 0 /\ n # 1 /\ n - 1 = m
      /\ n \in 1 .. n /\ m \in 1 .. m
  OBVIOUS
<1>2. PICK g : Flattening(g, s, m) /\ a = g[m]
  BY DEF Flattened
<1>3. PICK h : Flattening(h, t, n) /\ b = h[n]
  BY DEF Flattened
<1> HIDE DEF n
<1>4. \A i \in 1 .. m : h[i] = g[i]
  BY <1>1, <1>2, <1>3, FlatteningAgrees
<1>5. h[n] = Glue(h[n - 1], t[n])
  BY <1>1, <1>3, FlatteningAt
<1>6. b = Glue(a, t[n])
  BY <1>1, <1>2, <1>3, <1>4, <1>5
<1> QED
  BY <1>6 DEF n

(* FlattenSeq flattens all of its sequences.                               *)
LEMMA FlattenSeqFlattened ==
  ASSUME NEW seqs, NEW n \in Nat \ {0}, n = Len(seqs)
  PROVE  Flattened(FlattenSeq(seqs), seqs, n)
  BY FlatteningDef DEF Flattened

(* One more sequence is flattened into the end.                            *)
LEMMA FlattenNext ==
  ASSUME NEW S, NEW s \in Seq(Seq(S)), NEW t \in Seq(Seq(S)), Len(t) = Len(s) + 1,
         \A i \in 1 .. Len(s) : t[i] = s[i]
  PROVE  FlattenSeq(t) = FlattenSeq(s) \o t[Len(t)]
<1>1. CASE Len(s) # 0
  <2>1. Len(s) \in Nat \ {0} /\ Len(s) + 1 \in Nat \ {0} /\ Len(s) + 1 = Len(t)
    BY <1>1
  <2>2. Flattened(FlattenSeq(s), s, Len(s)) /\ Flattened(FlattenSeq(t), t, Len(s) + 1)
    BY <2>1, FlattenSeqFlattened
  <2>3. FlattenSeq(t) = Glue(FlattenSeq(s), t[Len(s) + 1])
    BY <2>1, <2>2, FlatteningNext
  <2> QED
    BY <2>1, <2>3 DEF Glue
<1>2. CASE Len(s) = 0
  <2>1. FlattenSeq(s) = <<>>
    BY <1>2 DEF FlattenSeq
  <2>2. Len(t) = 1 /\ t[1] \in Seq(S) /\ 1 \in Nat \ {0} /\ 1 \in 1 .. 1
    BY <1>2
  <2>3. PICK h : Flattening(h, t, 1) /\ FlattenSeq(t) = h[1]
    BY <2>2, FlatteningDef
  <2>4. h[1] = t[1]
    BY <2>2, <2>3, FlatteningAt
  <2>5. <<>> \o t[1] = t[1]
    BY <2>2, ConcatEmptySeq
  <2> QED
    BY <2>1, <2>2, <2>3, <2>4, <2>5
<1> QED
  BY <1>1, <1>2

(* Sequences are concatenated in any order.                                *)
LEMMA ConcatInOrder ==
  \A S : \A x, y, z \in Seq(S) : (x \o y) \o z = x \o (y \o z)
BY ConcatAssociative

(* A single sequence is what it is flattened to.                           *)
LEMMA FlattenOne ==
  ASSUME NEW S, NEW x \in Seq(S)
  PROVE  FlattenSeq(<<x>>) = x
<1> DEFINE s == <<>>
           t == <<x>>
<1>1. s \in Seq(Seq(S)) /\ t \in Seq(Seq(S)) /\ Len(s) = 0 /\ Len(t) = 1 /\ t[1] = x
  OBVIOUS
<1>2. FlattenSeq(s) = <<>>
  BY DEF FlattenSeq
<1> HIDE DEF s, t
<1>3. FlattenSeq(t) = FlattenSeq(s) \o t[Len(t)]
  <2>1. Len(t) = Len(s) + 1 /\ \A i \in 1 .. Len(s) : t[i] = s[i]
    BY <1>1
  <2> QED
    BY <1>1, <2>1, FlattenNext
<1>4. FlattenSeq(t) = <<>> \o x
  BY <1>1, <1>2, <1>3
<1>5. <<>> \o x = x
  OBVIOUS
<1> QED
  BY <1>4, <1>5 DEF t

(* What is flattened of two sequences in a row is flattened of each.       *)
LEMMA FlattenConcat ==
  ASSUME NEW S, NEW s \in Seq(Seq(S)), NEW t \in Seq(Seq(S))
  PROVE  FlattenSeq(s \o t) = FlattenSeq(s) \o FlattenSeq(t)
<1> DEFINE T == {n \in Nat : \A u \in Seq(Seq(S)) : Len(u) = n =>
                   FlattenSeq(s \o u) = FlattenSeq(s) \o FlattenSeq(u)}
<1>1. 0 \in T
  <2> SUFFICES ASSUME NEW u \in Seq(Seq(S)), Len(u) = 0
               PROVE  FlattenSeq(s \o u) = FlattenSeq(s) \o FlattenSeq(u)
    OBVIOUS
  <2>1. u = <<>>
    OBVIOUS
  <2>2. FlattenSeq(u) = <<>>
    BY <2>1 DEF FlattenSeq
  <2>3. s \o u = s
    BY <2>1
  <2>4. FlattenSeq(s) \in Seq(S)
    BY FlattenType
  <2> DEFINE f == FlattenSeq(s)
  <2> HIDE DEF f
  <2>5. f \o <<>> = f
    BY <2>4 DEF f
  <2> QED
    BY <2>2, <2>3, <2>5 DEF f
<1>2. ASSUME NEW n \in Nat, n \in T
      PROVE  n + 1 \in T
  <2> SUFFICES ASSUME NEW u \in Seq(Seq(S)), Len(u) = n + 1
               PROVE  FlattenSeq(s \o u) = FlattenSeq(s) \o FlattenSeq(u)
    OBVIOUS
  <2> DEFINE front == SubSeq(u, 1, n)
             before == s \o front
             all == s \o u
             last == u[n + 1]
  <2>1. /\ front \in Seq(Seq(S)) /\ Len(front) = n
        /\ \A i \in 1 .. n : u[i] = front[i]
        /\ last \in Seq(S)
    OBVIOUS
  <2>2. /\ before \in Seq(Seq(S)) /\ all \in Seq(Seq(S))
        /\ Len(before) = Len(s) + n /\ Len(all) = Len(s) + n + 1
    <3> HIDE DEF front
    <3>1. Len(s) \in Nat
      OBVIOUS
    <3>2. before \in Seq(Seq(S)) /\ Len(before) = Len(s) + Len(front)
      BY <2>1, ConcatProperties
    <3>3. all \in Seq(Seq(S)) /\ Len(all) = Len(s) + Len(u)
      BY ConcatProperties
    <3> HIDE DEF before, all
    <3> QED
      BY <2>1, <3>1, <3>2, <3>3
  <2>3. \A i \in 1 .. Len(before) : all[i] = before[i]
    <3> TAKE i \in 1 .. Len(before)
    <3>1. i \in 1 .. (Len(s) + Len(u)) /\ i \in 1 .. (Len(s) + Len(front))
      BY <2>1, <2>2
    <3> HIDE DEF front
    <3>2. /\ all[i] = IF i <= Len(s) THEN s[i] ELSE u[i - Len(s)]
          /\ before[i] = IF i <= Len(s) THEN s[i] ELSE front[i - Len(s)]
      BY <2>1, <3>1, ConcatProperties
    <3> QED
      BY <2>1, <3>1, <3>2
  <2>4. all[Len(all)] = last
    BY <2>2
  <2>5. FlattenSeq(before) = FlattenSeq(s) \o FlattenSeq(front)
    BY <1>2, <2>1
  <2> HIDE DEF front, before, all, last
  <2>6. FlattenSeq(all) = FlattenSeq(before) \o last
    <3>1. Len(all) = Len(before) + 1
      BY <2>2
    <3>2. FlattenSeq(all) = FlattenSeq(before) \o all[Len(all)]
      BY <2>2, <2>3, <3>1, FlattenNext
    <3> QED
      BY <2>4, <3>2
  <2>7. FlattenSeq(u) = FlattenSeq(front) \o last
    BY <2>1, FlattenNext DEF last
  <2>8. FlattenSeq(s) \in Seq(S) /\ FlattenSeq(front) \in Seq(S)
    BY <2>1, FlattenType
  <2> DEFINE a == FlattenSeq(s)
             b == FlattenSeq(front)
  <2>9. (a \o b) \o last = a \o (b \o last)
    <3>1. a \in Seq(S) /\ b \in Seq(S) /\ last \in Seq(S)
      BY <2>1, <2>8
    <3> HIDE DEF a, b, last, T
    <3>2. \A x, y, z \in Seq(S) : (x \o y) \o z = x \o (y \o z)
      BY ConcatInOrder, SMTT(30)
    <3> QED
      BY <3>1, <3>2, Zenon
  <2> QED
    BY <2>5, <2>6, <2>7, <2>9 DEF all
<1> HIDE DEF T
<1>3. Len(t) \in Nat
  OBVIOUS
<1>4. Len(t) \in T
  BY <1>1, <1>2, <1>3, SetInduction
<1> QED
  BY <1>4 DEF T

(* A sequence up to one of its places and behind it.                       *)
Through(u, j) == SubSeq(u, 1, j)
Behind(u, j) == SubSeq(u, j + 1, Len(u))

(* What a sequence is up to one of its places, at it and behind it.        *)
LEMMA SplitAt ==
  ASSUME NEW T, NEW u \in Seq(T), NEW j \in DOMAIN u
  PROVE  /\ Through(u, j - 1) \in Seq(T) /\ Through(u, j) \in Seq(T)
         /\ Behind(u, j) \in Seq(T) /\ u[j] \in T
         /\ Len(Through(u, j)) = Len(Through(u, j - 1)) + 1
         /\ \A i \in 1 .. Len(Through(u, j - 1)) : Through(u, j)[i] = Through(u, j - 1)[i]
         /\ Through(u, j)[Len(Through(u, j))] = u[j]
         /\ u = Through(u, j) \o Behind(u, j)
<1> DEFINE front == SubSeq(u, 1, j - 1)
           till == SubSeq(u, 1, j)
           back == SubSeq(u, j + 1, Len(u))
           both == till \o back
<1>1. j \in 1 .. Len(u) /\ j \in Nat /\ Len(u) \in Nat /\ u[j] \in T
  OBVIOUS
<1>2. front \in Seq(T) /\ Len(front) = j - 1 /\ \A i \in 1 .. (j - 1) : front[i] = u[i]
  OBVIOUS
<1>3. till \in Seq(T) /\ Len(till) = j /\ \A i \in 1 .. j : till[i] = u[i]
  OBVIOUS
<1>4. /\ back \in Seq(T) /\ Len(back) = Len(u) - j
      /\ \A i \in 1 .. (Len(u) - j) : back[i] = u[i + j]
  OBVIOUS
<1> HIDE DEF front, till, back
<1>5. /\ both \in Seq(T) /\ Len(both) = Len(till) + Len(back)
      /\ \A i \in 1 .. Len(till) + Len(back) :
           both[i] = IF i <= Len(till) THEN till[i] ELSE back[i - Len(till)]
  <2>1. till \in Seq(T) /\ back \in Seq(T)
    BY <1>3, <1>4
  <2> QED
    BY <2>1, ConcatProperties
<1> HIDE DEF both
<1>6. Len(u) = Len(both)
  BY <1>1, <1>3, <1>4, <1>5
<1>7. ASSUME NEW i \in 1 .. Len(u)
      PROVE  u[i] = both[i]
  <2>1. i \in 1 .. Len(till) + Len(back) /\ i \in Nat
    BY <1>1, <1>3, <1>4
  <2>2. CASE i <= j
    <3>1. i \in 1 .. j
      BY <1>1, <2>1, <2>2
    <3> QED
      BY <1>3, <1>5, <2>1, <2>2, <3>1
  <2>3. CASE ~(i <= j)
    <3>1. i - j \in 1 .. (Len(u) - j) /\ (i - j) + j = i
      BY <1>1, <2>1, <2>3
    <3>2. back[i - j] = u[(i - j) + j]
      BY <1>4, <3>1
    <3> QED
      BY <1>3, <1>5, <2>1, <2>3, <3>1, <3>2
  <2> QED
    BY <2>2, <2>3
<1>8. u = both
  BY <1>5, <1>6, <1>7, SeqEqual
<1>9. Len(till) = Len(front) + 1 /\ \A i \in 1 .. Len(front) : till[i] = front[i]
  <2>1. Len(till) = Len(front) + 1
    BY <1>1, <1>2, <1>3
  <2>2. ASSUME NEW i \in 1 .. Len(front)
        PROVE  till[i] = front[i]
    <3>1. i \in 1 .. (j - 1) /\ i \in 1 .. j
      BY <1>1, <1>2
    <3> QED
      BY <1>2, <1>3, <3>1
  <2> QED
    BY <2>1, <2>2
<1>10. till[Len(till)] = u[j]
  BY <1>1, <1>3
<1> QED
  BY <1>1, <1>2, <1>3, <1>4, <1>8, <1>9, <1>10 DEF front, till, back, both, Through, Behind

(* What a sequence is behind one of its places.                            *)
LEMMA BehindAt ==
  ASSUME NEW T, NEW u \in Seq(T), NEW j \in DOMAIN u
  PROVE  /\ Behind(u, j) \in Seq(T) /\ Len(Behind(u, j)) = Len(u) - j
         /\ \A i \in 1 .. (Len(u) - j) : Behind(u, j)[i] = u[i + j]
  BY DEF Behind

(* A sequence is flattened in front of, at and behind one of its places.   *)
LEMMA FlattenSplit ==
  ASSUME NEW S, NEW u \in Seq(Seq(S)), NEW j \in DOMAIN u
  PROVE  FlattenSeq(u) = (FlattenSeq(Through(u, j - 1)) \o u[j]) \o FlattenSeq(Behind(u, j))
<1>1. /\ Through(u, j - 1) \in Seq(Seq(S)) /\ Through(u, j) \in Seq(Seq(S))
      /\ Behind(u, j) \in Seq(Seq(S)) /\ u[j] \in Seq(S)
      /\ Len(Through(u, j)) = Len(Through(u, j - 1)) + 1
      /\ \A i \in 1 .. Len(Through(u, j - 1)) : Through(u, j)[i] = Through(u, j - 1)[i]
      /\ Through(u, j)[Len(Through(u, j))] = u[j]
      /\ u = Through(u, j) \o Behind(u, j)
  BY SplitAt
<1>2. FlattenSeq(Through(u, j)) = FlattenSeq(Through(u, j - 1)) \o u[j]
  BY <1>1, FlattenNext
<1>3. FlattenSeq(u) = FlattenSeq(Through(u, j)) \o FlattenSeq(Behind(u, j))
  BY <1>1, FlattenConcat
<1> QED
  BY <1>2, <1>3

-----------------------------------------------------------------------------
(* A sequence is what it has up to any of its places and what is behind.   *)
LEMMA CutAnywhere ==
  ASSUME NEW T, NEW u \in Seq(T), NEW n \in 0 .. Len(u)
  PROVE  /\ SubSeq(u, 1, n) \in Seq(T) /\ SubSeq(u, n + 1, Len(u)) \in Seq(T)
         /\ Len(SubSeq(u, 1, n)) = n
         /\ u = SubSeq(u, 1, n) \o SubSeq(u, n + 1, Len(u))
<1>1. CASE n = 0
  <2>1. SubSeq(u, 1, 0) = <<>> /\ SubSeq(u, 1, Len(u)) = u
    OBVIOUS
  <2> QED
    BY <1>1, <2>1
<1>2. CASE n # 0
  <2>1. n \in DOMAIN u
    BY <1>2
  <2>2. u = Through(u, n) \o Behind(u, n)
    BY <2>1, SplitAt
  <2>3. SubSeq(u, 1, n) \in Seq(T) /\ SubSeq(u, n + 1, Len(u)) \in Seq(T)
        /\ Len(SubSeq(u, 1, n)) = n
    OBVIOUS
  <2> QED
    BY <2>2, <2>3 DEF Through, Behind
<1> QED
  BY <1>1, <1>2

(* What is left of a sequence when its first element is taken.             *)
LEMMA TakeHead ==
  ASSUME NEW T, NEW u \in Seq(T), u # <<>>
  PROVE  /\ Head(u) \in T /\ Tail(u) \in Seq(T) /\ <<Head(u)>> \in Seq(T)
         /\ u = <<Head(u)>> \o Tail(u)
<1> DEFINE one == <<Head(u)>>
           rest == Tail(u)
           both == one \o rest
<1>1. /\ Len(u) \in Nat \ {0} /\ one \in Seq(T) /\ Len(one) = 1 /\ one[1] = u[1]
      /\ rest \in Seq(T) /\ Len(rest) = Len(u) - 1
      /\ \A i \in 1 .. (Len(u) - 1) : rest[i] = u[i + 1]
  OBVIOUS
<1>2. Head(u) \in T
  OBVIOUS
<1> HIDE DEF one, rest
<1>3. /\ both \in Seq(T) /\ Len(both) = Len(one) + Len(rest)
      /\ \A i \in 1 .. Len(one) + Len(rest) :
           both[i] = IF i <= Len(one) THEN one[i] ELSE rest[i - Len(one)]
  BY <1>1, ConcatProperties
<1> HIDE DEF both
<1>4. ASSUME NEW i \in 1 .. Len(u)
      PROVE  u[i] = both[i]
  <2>1. i \in 1 .. Len(one) + Len(rest) /\ (i # 1 => i - 1 \in 1 .. (Len(u) - 1))
    BY <1>1
  <2> QED
    BY <1>1, <1>3, <2>1
<1>5. Len(u) = Len(both)
  BY <1>1, <1>3
<1>6. u = both
  BY <1>3, <1>4, <1>5, SeqEqual
<1> QED
  BY <1>1, <1>2, <1>6 DEF one, rest, both

-----------------------------------------------------------------------------
(* A function on the first numbers is a sequence.                          *)
LEMMA FunctionSeq ==
  ASSUME NEW T, NEW n \in Nat, NEW e, e = [k \in 1 .. n |-> e[k]],
         \A k \in 1 .. n : e[k] \in T
  PROVE  e \in Seq(T) /\ Len(e) = n /\ DOMAIN e = 1 .. n
  OBVIOUS

(* What a function makes of the elements of a sequence, in a row: a filter *)
(* makes one element or none of each.                                      *)
Maps(g, S, T) == g \in [S -> Seq(T)]
Each(g, s) == [k \in DOMAIN s |-> g[s[k]]]
Mapped(g, s) == FlattenSeq(Each(g, s))

(* Each element has its sequence.                                          *)
LEMMA EachType ==
  ASSUME NEW S, NEW T, NEW g, Maps(g, S, T), NEW s \in Seq(S)
  PROVE  /\ Each(g, s) \in Seq(Seq(T)) /\ Len(Each(g, s)) = Len(s)
         /\ DOMAIN Each(g, s) = DOMAIN s
         /\ \A k \in DOMAIN s : Each(g, s)[k] = g[s[k]]
<1> DEFINE e == Each(g, s)
<1>1. DOMAIN s = 1 .. Len(s) /\ Len(s) \in Nat /\ \A k \in DOMAIN s : s[k] \in S
  OBVIOUS
<1>2. e = [k \in 1 .. Len(s) |-> g[s[k]]]
  BY <1>1 DEF Each
<1>3. \A k \in 1 .. Len(s) : g[s[k]] \in Seq(T)
  BY <1>1 DEF Maps
<1> QED
  BY <1>1, <1>2, <1>3

(* The sequences in a row are one over the same set.                       *)
LEMMA MappedType ==
  ASSUME NEW S, NEW T, NEW g, Maps(g, S, T), NEW s \in Seq(S)
  PROVE  Mapped(g, s) \in Seq(T)
  BY EachType, FlattenType DEF Mapped

(* Nothing is made of nothing.                                             *)
LEMMA MappedNone ==
  ASSUME NEW g
  PROVE  Mapped(g, <<>>) = <<>>
<1>1. Each(g, <<>>) = <<>>
  BY DEF Each
<1> QED
  BY <1>1 DEF Mapped, FlattenSeq

(* One element stands for itself.                                          *)
LEMMA MappedOne ==
  ASSUME NEW S, NEW T, NEW g, Maps(g, S, T), NEW x \in S
  PROVE  Mapped(g, <<x>>) = g[x]
<1>1. Each(g, <<x>>) = <<g[x]>>
  BY DEF Each
<1>2. FlattenSeq(<<g[x]>>) = g[x]
  BY FlattenOne DEF Maps
<1> QED
  BY <1>1, <1>2 DEF Mapped

(* The elements of two sequences in a row are those of each.               *)
LEMMA MappedConcat ==
  ASSUME NEW S, NEW T, NEW g, Maps(g, S, T), NEW s \in Seq(S), NEW t \in Seq(S)
  PROVE  Mapped(g, s \o t) = Mapped(g, s) \o Mapped(g, t)
<1> DEFINE a == Each(g, s)
           b == Each(g, t)
           both == s \o t
           c == Each(g, both)
           d == a \o b
<1>1. /\ both \in Seq(S) /\ Len(both) = Len(s) + Len(t)
      /\ \A i \in 1 .. Len(s) + Len(t) : both[i] = IF i <= Len(s) THEN s[i] ELSE t[i - Len(s)]
  BY ConcatProperties
<1> HIDE DEF both
<1>2. /\ Len(s) \in Nat /\ Len(t) \in Nat
      /\ DOMAIN s = 1 .. Len(s) /\ DOMAIN t = 1 .. Len(t) /\ DOMAIN both = 1 .. Len(both)
  BY <1>1
<1>a. a \in Seq(Seq(T)) /\ Len(a) = Len(s) /\ \A k \in DOMAIN s : a[k] = g[s[k]]
  BY EachType
<1>b. b \in Seq(Seq(T)) /\ Len(b) = Len(t) /\ \A k \in DOMAIN t : b[k] = g[t[k]]
  BY EachType
<1>c. c \in Seq(Seq(T)) /\ Len(c) = Len(both) /\ \A k \in DOMAIN both : c[k] = g[both[k]]
  BY <1>1, EachType
<1> HIDE DEF a, b, c
<1>3. /\ d \in Seq(Seq(T)) /\ Len(d) = Len(a) + Len(b)
      /\ \A i \in 1 .. Len(a) + Len(b) : d[i] = IF i <= Len(a) THEN a[i] ELSE b[i - Len(a)]
  <2>1. a \in Seq(Seq(T)) /\ b \in Seq(Seq(T))
    BY <1>a, <1>b
  <2> QED
    BY <2>1, ConcatProperties
<1> HIDE DEF d
<1>4. ASSUME NEW i \in 1 .. Len(c)
      PROVE  c[i] = d[i]
  <2>1. i \in 1 .. Len(s) + Len(t) /\ i \in 1 .. Len(a) + Len(b) /\ i \in DOMAIN both
    BY <1>1, <1>2, <1>a, <1>b, <1>c
  <2>2. CASE i <= Len(s)
    <3>1. i \in DOMAIN s
      BY <1>2, <2>1, <2>2
    <3> QED
      <4>1. both[i] = s[i] /\ d[i] = a[i]
        BY <1>1, <1>3, <1>a, <1>b, <2>1, <2>2
      <4> QED
        BY <1>a, <1>c, <2>1, <3>1, <4>1
  <2>3. CASE ~(i <= Len(s))
    <3>1. i - Len(s) \in DOMAIN t
      BY <1>2, <2>1, <2>3
    <3> QED
      <4>1. both[i] = t[i - Len(s)] /\ d[i] = b[i - Len(s)]
        BY <1>1, <1>3, <1>a, <1>b, <2>1, <2>3
      <4> QED
        BY <1>b, <1>c, <2>1, <3>1, <4>1
  <2> QED
    BY <2>2, <2>3
<1>5. c = d
  <2>1. Len(c) = Len(d)
    BY <1>1, <1>2, <1>3, <1>a, <1>b, <1>c
  <2> QED
    BY <1>3, <1>4, <1>c, <2>1, SeqEqual
<1>6. FlattenSeq(d) = FlattenSeq(a) \o FlattenSeq(b)
  BY <1>a, <1>b, FlattenConcat DEF d
<1> QED
  BY <1>5, <1>6 DEF Mapped, a, b, c, both

(* One more element is mapped to the end.                                  *)
LEMMA MappedAppend ==
  ASSUME NEW S, NEW T, NEW g, Maps(g, S, T), NEW s \in Seq(S), NEW x \in S
  PROVE  Mapped(g, Append(s, x)) = Mapped(g, s) \o g[x]
<1> DEFINE one == <<x>>
<1>1. Append(s, x) = s \o one /\ one \in Seq(S)
  OBVIOUS
<1>2. Mapped(g, one) = g[x]
  BY MappedOne
<1> HIDE DEF one
<1>3. Mapped(g, s \o one) = Mapped(g, s) \o Mapped(g, one)
  BY <1>1, MappedConcat
<1> QED
  BY <1>1, <1>2, <1>3

(* What is mapped depends on the elements alone.                           *)
LEMMA MappedSame ==
  ASSUME NEW s, NEW t, NEW g, NEW h, DOMAIN s = DOMAIN t,
         \A k \in DOMAIN s : g[s[k]] = h[t[k]]
  PROVE  Mapped(g, s) = Mapped(h, t)
<1>1. Each(g, s) = Each(h, t)
  BY DEF Each
<1> QED
  BY <1>1 DEF Mapped

(* The elements of sequences in a row are mapped one sequence by another.  *)
LEMMA MappedFlatten ==
  ASSUME NEW S, NEW T, NEW g, Maps(g, S, T), NEW F \in Seq(Seq(S))
  PROVE  Mapped(g, FlattenSeq(F)) = FlattenSeq([k \in DOMAIN F |-> Mapped(g, F[k])])
<1> DEFINE M(f) == [k \in DOMAIN f |-> Mapped(g, f[k])]
           N == {n \in Nat : \A f \in Seq(Seq(S)) : Len(f) = n =>
                   Mapped(g, FlattenSeq(f)) = FlattenSeq(M(f))}
<1>0. \A f \in Seq(Seq(S)) :
        /\ M(f) \in Seq(Seq(T)) /\ Len(M(f)) = Len(f) /\ DOMAIN M(f) = DOMAIN f
        /\ \A k \in DOMAIN f : M(f)[k] = Mapped(g, f[k])
  <2> TAKE f \in Seq(Seq(S))
  <2>1. \A k \in DOMAIN f : Mapped(g, f[k]) \in Seq(T)
    <3> TAKE k \in DOMAIN f
    <3>1. f[k] \in Seq(S)
      OBVIOUS
    <3> QED
      BY <3>1, MappedType
  <2>2. DOMAIN f = 1 .. Len(f) /\ Len(f) \in Nat
    OBVIOUS
  <2> DEFINE m == M(f)
  <2>3. m = [k \in 1 .. Len(f) |-> Mapped(g, f[k])]
    BY <2>2
  <2> HIDE DEF m
  <2>4. m \in Seq(Seq(T)) /\ Len(m) = Len(f) /\ DOMAIN m = DOMAIN f
    <3>1. m = [k \in 1 .. Len(f) |-> m[k]] /\ \A k \in 1 .. Len(f) : m[k] \in Seq(T)
      BY <2>1, <2>2, <2>3
    <3> QED
      BY <2>2, <3>1, FunctionSeq
  <2>5. \A k \in DOMAIN f : m[k] = Mapped(g, f[k])
    BY <2>2, <2>3
  <2> QED
    BY <2>4, <2>5 DEF m
<1> HIDE DEF M
<1>1. 0 \in N
  <2> SUFFICES ASSUME NEW f \in Seq(Seq(S)), Len(f) = 0
               PROVE  Mapped(g, FlattenSeq(f)) = FlattenSeq(M(f))
    OBVIOUS
  <2>1. f = <<>> /\ M(f) = <<>>
    <3>1. f = <<>>
      OBVIOUS
    <3>2. M(f) \in Seq(Seq(T)) /\ Len(M(f)) = 0
      BY <1>0
    <3> QED
      BY <3>1, <3>2
  <2>2. FlattenSeq(<<>>) = <<>>
    BY DEF FlattenSeq
  <2> QED
    BY <2>1, <2>2, MappedNone
<1>2. ASSUME NEW n \in Nat, n \in N
      PROVE  n + 1 \in N
  <2> SUFFICES ASSUME NEW f \in Seq(Seq(S)), Len(f) = n + 1
               PROVE  Mapped(g, FlattenSeq(f)) = FlattenSeq(M(f))
    OBVIOUS
  <2> DEFINE front == SubSeq(f, 1, n)
             last == f[n + 1]
  <2>1. /\ front \in Seq(Seq(S)) /\ Len(front) = n /\ last \in Seq(S) /\ n + 1 \in DOMAIN f
        /\ \A i \in 1 .. n : i \in DOMAIN f /\ i \in DOMAIN front /\ f[i] = front[i]
    OBVIOUS
  <2> HIDE DEF front
  <2>2. FlattenSeq(f) = FlattenSeq(front) \o last
    BY <2>1, FlattenNext
  <2>3. Mapped(g, FlattenSeq(front)) = FlattenSeq(M(front))
    BY <1>2, <2>1
  <2>4. FlattenSeq(M(f)) = FlattenSeq(M(front)) \o Mapped(g, last)
    <3>1. /\ M(f) \in Seq(Seq(T)) /\ M(front) \in Seq(Seq(T))
          /\ Len(M(f)) = n + 1 /\ Len(M(front)) = n
      BY <1>0, <2>1
    <3>2. \A i \in 1 .. n : M(f)[i] = M(front)[i]
      BY <1>0, <2>1
    <3>3. M(f)[n + 1] = Mapped(g, last)
      BY <1>0, <2>1
    <3> QED
      BY <3>1, <3>2, <3>3, FlattenNext
  <2> HIDE DEF last
  <2>5. Mapped(g, FlattenSeq(front) \o last) = Mapped(g, FlattenSeq(front)) \o Mapped(g, last)
    <3> DEFINE flat == FlattenSeq(front)
    <3>1. flat \in Seq(S) /\ last \in Seq(S)
      BY <2>1, FlattenType
    <3> HIDE DEF flat
    <3>2. Mapped(g, flat \o last) = Mapped(g, flat) \o Mapped(g, last)
      BY <3>1, MappedConcat, SMTT(30)
    <3> QED
      BY <3>2 DEF flat
  <2> QED
    BY <2>2, <2>3, <2>4, <2>5
<1> HIDE DEF N
<1>3. Len(F) \in Nat
  OBVIOUS
<1>4. Len(F) \in N
  BY <1>1, <1>2, <1>3, SetInduction
<1> QED
  BY <1>4 DEF N, M

(* Mapped twice.                                                           *)
LEMMA MappedTwice ==
  ASSUME NEW S, NEW T, NEW U, NEW g, Maps(g, S, T), NEW h, Maps(h, T, U),
         NEW s \in Seq(S)
  PROVE  Mapped(h, Mapped(g, s)) = Mapped([x \in S |-> Mapped(h, g[x])], s)
<1> DEFINE F == Each(g, s)
           both == [x \in S |-> Mapped(h, g[x])]
<1>1. F \in Seq(Seq(T)) /\ DOMAIN F = DOMAIN s
  BY EachType
<1>5. \A k \in DOMAIN s : F[k] = g[s[k]]
  BY EachType
<1> HIDE DEF F
<1>2. Mapped(h, FlattenSeq(F)) = FlattenSeq([k \in DOMAIN F |-> Mapped(h, F[k])])
  BY <1>1, MappedFlatten
<1>3. \A k \in DOMAIN s : s[k] \in S
  OBVIOUS
<1>4. [k \in DOMAIN F |-> Mapped(h, F[k])] = Each(both, s)
  BY <1>1, <1>3, <1>5 DEF Each
<1> QED
  BY <1>2, <1>4 DEF F, Mapped

(* Sequences of one element in a row are the sequence of these.            *)
LEMMA FlattenSingles ==
  ASSUME NEW S, NEW s \in Seq(S)
  PROVE  FlattenSeq([k \in DOMAIN s |-> <<s[k]>>]) = s
<1> DEFINE Singles(u) == [k \in DOMAIN u |-> <<u[k]>>]
           N == {n \in Nat : \A u \in Seq(S) : Len(u) = n => FlattenSeq(Singles(u)) = u}
<1>0. \A u \in Seq(S) :
        /\ Singles(u) \in Seq(Seq(S)) /\ Len(Singles(u)) = Len(u)
        /\ \A k \in 1 .. Len(u) : Singles(u)[k] = <<u[k]>>
  <2> TAKE u \in Seq(S)
  <2>1. DOMAIN u = 1 .. Len(u) /\ Len(u) \in Nat /\ \A k \in 1 .. Len(u) : u[k] \in S
    OBVIOUS
  <2> DEFINE e == Singles(u)
  <2>2. e = [k \in 1 .. Len(u) |-> e[k]] /\ \A k \in 1 .. Len(u) : e[k] = <<u[k]>>
    BY <2>1
  <2> HIDE DEF e
  <2>3. \A k \in 1 .. Len(u) : e[k] \in Seq(S)
    <3> TAKE k \in 1 .. Len(u)
    <3>1. <<u[k]>> \in Seq(S)
      BY <2>1
    <3> QED
      BY <2>2, <3>1
  <2>4. e \in Seq(Seq(S)) /\ Len(e) = Len(u)
    BY <2>1, <2>2, <2>3, FunctionSeq
  <2> QED
    BY <2>2, <2>4 DEF e
<1> HIDE DEF Singles
<1>1. 0 \in N
  <2> SUFFICES ASSUME NEW u \in Seq(S), Len(u) = 0
               PROVE  FlattenSeq(Singles(u)) = u
    OBVIOUS
  <2>1. Singles(u) = <<>> /\ u = <<>>
    <3>1. Singles(u) \in Seq(Seq(S)) /\ Len(Singles(u)) = 0
      BY <1>0
    <3> QED
      BY <3>1
  <2>2. FlattenSeq(<<>>) = <<>>
    BY DEF FlattenSeq
  <2> QED
    BY <2>1, <2>2
<1>2. ASSUME NEW n \in Nat, n \in N
      PROVE  n + 1 \in N
  <2> SUFFICES ASSUME NEW u \in Seq(S), Len(u) = n + 1
               PROVE  FlattenSeq(Singles(u)) = u
    OBVIOUS
  <2> DEFINE front == SubSeq(u, 1, n)
             last == u[n + 1]
  <2>1. /\ front \in Seq(S) /\ Len(front) = n /\ last \in S
        /\ \A i \in 1 .. n : u[i] = front[i] /\ i \in 1 .. Len(u)
    OBVIOUS
  <2>2. u = front \o <<last>>
    <3>1. u = Append(front, last)
      <4> HIDE DEF front
      <4> QED
        BY <2>1
    <3> QED
      BY <2>1, <3>1
  <2> HIDE DEF front, last
  <2>3. FlattenSeq(Singles(front)) = front
    BY <1>2, <2>1
  <2>4. /\ Singles(u) \in Seq(Seq(S)) /\ Singles(front) \in Seq(Seq(S))
        /\ Len(Singles(u)) = n + 1 /\ Len(Singles(front)) = n
    BY <1>0, <2>1
  <2>5. \A i \in 1 .. n : Singles(u)[i] = Singles(front)[i]
    BY <1>0, <2>1
  <2>6. Singles(u)[n + 1] = <<last>>
    <3>1. n + 1 \in 1 .. Len(u)
      OBVIOUS
    <3> QED
      BY <1>0, <3>1 DEF last
  <2>7. FlattenSeq(Singles(u)) = FlattenSeq(Singles(front)) \o <<last>>
    BY <2>4, <2>5, <2>6, FlattenNext
  <2> QED
    BY <2>2, <2>3, <2>7
<1> HIDE DEF N
<1>3. Len(s) \in Nat
  OBVIOUS
<1>4. Len(s) \in N
  BY <1>1, <1>2, <1>3, SetInduction
<1> QED
  BY <1>4 DEF N, Singles

-----------------------------------------------------------------------------
LEMMA OneMore ==
  ASSUME NEW T, NEW s \in Seq(T), NEW k \in DOMAIN s
  PROVE  /\ SubSeq(s, 1, k - 1) \in Seq(T) /\ s[k] \in T
         /\ SubSeq(s, 1, k) = Append(SubSeq(s, 1, k - 1), s[k])
<1>1. /\ k \in Nat /\ k - 1 \in Nat /\ k <= Len(s) /\ Len(s) \in Nat /\ s[k] \in T
  OBVIOUS
<1> DEFINE a == SubSeq(s, 1, k - 1)
           b == SubSeq(s, 1, k)
<1>2. a \in Seq(T) /\ Len(a) = k - 1 /\ \A i \in 1 .. (k - 1) : a[i] = s[i]
  BY <1>1
<1>3. b \in Seq(T) /\ Len(b) = k /\ \A i \in 1 .. k : b[i] = s[i]
  BY <1>1
<1> HIDE DEF a, b
<1>4. b = Append(a, s[k])
  BY <1>1, <1>2, <1>3
<1> QED
  BY <1>1, <1>2, <1>4 DEF a, b

LEMMA NoneAndAll ==
  ASSUME NEW T, NEW s \in Seq(T)
  PROVE  SubSeq(s, 1, 0) = <<>> /\ SubSeq(s, 1, Len(s)) = s
  OBVIOUS

(* Two sequences that differ in one place are the same around it.          *)
SameBut(u, v, j) == Len(v) = Len(u) /\ \A i \in DOMAIN u : i # j => v[i] = u[i]

LEMMA SameAround ==
  ASSUME NEW T, NEW u \in Seq(T), NEW v \in Seq(T), NEW j \in DOMAIN u, SameBut(u, v, j)
  PROVE  /\ j \in DOMAIN v /\ Through(v, j - 1) = Through(u, j - 1)
         /\ Behind(v, j) = Behind(u, j)
<1> DEFINE n == Len(u)
<1>1. /\ n \in Nat /\ j \in 1 .. n /\ DOMAIN u = 1 .. n /\ DOMAIN v = 1 .. n
      /\ j - 1 \in Nat /\ j - 1 <= n /\ Len(v) = n
  BY DEF SameBut
<1> HIDE DEF n
<1>2. ASSUME NEW w \in Seq(T), Len(w) = n
      PROVE  /\ Through(w, j - 1) \in Seq(T) /\ Len(Through(w, j - 1)) = j - 1
             /\ \A i \in 1 .. (j - 1) : Through(w, j - 1)[i] = w[i]
             /\ Behind(w, j) \in Seq(T) /\ Len(Behind(w, j)) = n - j
             /\ \A i \in 1 .. (n - j) : Behind(w, j)[i] = w[i + j]
  <2>1. j \in DOMAIN w
    BY <1>1, <1>2
  <2>2. /\ Behind(w, j) \in Seq(T) /\ Len(Behind(w, j)) = n - j
        /\ \A i \in 1 .. (n - j) : Behind(w, j)[i] = w[i + j]
    BY <1>2, <2>1, BehindAt
  <2>3. j - 1 \in 0 .. Len(w)
    BY <1>1, <1>2
  <2>4. /\ SubSeq(w, 1, j - 1) \in Seq(T) /\ Len(SubSeq(w, 1, j - 1)) = j - 1
    BY <2>3, CutAnywhere
  <2>5. \A i \in 1 .. (j - 1) : SubSeq(w, 1, j - 1)[i] = w[i]
    BY <1>1, <1>2
  <2> QED
    BY <2>2, <2>4, <2>5 DEF Through
<1>3. \A i \in 1 .. (j - 1) : i \in DOMAIN u /\ i # j
  BY <1>1
<1>4. \A i \in 1 .. (n - j) : i + j \in DOMAIN u /\ i + j # j
  BY <1>1
<1>5. Len(u) = n
  BY DEF n
<1> DEFINE a == Through(u, j - 1)
           b == Behind(u, j)
           c == Through(v, j - 1)
           d == Behind(v, j)
<1>6. /\ a \in Seq(T) /\ Len(a) = j - 1 /\ \A i \in 1 .. (j - 1) : a[i] = u[i]
      /\ b \in Seq(T) /\ Len(b) = n - j /\ \A i \in 1 .. (n - j) : b[i] = u[i + j]
  BY <1>2, <1>5
<1>7. /\ c \in Seq(T) /\ Len(c) = j - 1 /\ \A i \in 1 .. (j - 1) : c[i] = v[i]
      /\ d \in Seq(T) /\ Len(d) = n - j /\ \A i \in 1 .. (n - j) : d[i] = v[i + j]
  BY <1>1, <1>2
<1> HIDE DEF a, b, c, d
<1>h. \A i \in DOMAIN u : i # j => v[i] = u[i]
  BY DEF SameBut
<1>8. c = a
  <2>1. \A i \in 1 .. Len(c) : c[i] = a[i]
    BY <1>h, <1>3, <1>6, <1>7
  <2> QED
    BY <1>6, <1>7, <2>1, SeqEqual
<1>9. d = b
  <2>1. \A i \in 1 .. Len(d) : d[i] = b[i]
    BY <1>h, <1>4, <1>6, <1>7
  <2> QED
    BY <1>6, <1>7, <2>1, SeqEqual
<1>10. j \in DOMAIN v
  BY <1>1
<1> QED
  BY <1>8, <1>9, <1>10 DEF a, b, c, d

LEMMA FlattenNothing ==
  ASSUME NEW T, NEW u \in Seq(T), \A i \in DOMAIN u : u[i] = <<>>
  PROVE  FlattenSeq(u) = <<>>
<1> DEFINE E == Seq({})
           n == Len(u)
<1>1. n \in Nat /\ DOMAIN u = 1 .. n /\ u = [i \in 1 .. n |-> u[i]]
  OBVIOUS
<1>2. <<>> \in E
  OBVIOUS
<1> HIDE DEF E, n
<1>3. \A i \in 1 .. n : u[i] \in E
  BY <1>1, <1>2
<1>4. u \in Seq(E)
  BY <1>1, <1>3, FunctionSeq
<1>5. FlattenSeq(u) \in Seq({})
  BY <1>4, FlattenType DEF E
<1> QED
  BY <1>5

NothingBehind(u, j) == \A i \in DOMAIN u : i > j => u[i] = <<>>

LEMMA BehindNothing ==
  ASSUME NEW T, NEW u \in Seq(T), NEW j \in DOMAIN u, NothingBehind(u, j)
  PROVE  \A i \in DOMAIN Behind(u, j) : Behind(u, j)[i] = <<>>
<1> DEFINE b == Behind(u, j)
           n == Len(u)
<1>1. n \in Nat /\ j \in 1 .. n /\ DOMAIN u = 1 .. n
  OBVIOUS
<1>2. b \in Seq(T) /\ Len(b) = n - j /\ \A i \in 1 .. (n - j) : b[i] = u[i + j]
  BY BehindAt
<1> HIDE DEF b, n
<1>3. \A i \in 1 .. (n - j) : i + j \in DOMAIN u /\ i + j > j
  BY <1>1
<1>4. \A i \in DOMAIN b : b[i] = <<>>
  BY <1>2, <1>3 DEF NothingBehind
<1> QED
  BY <1>4 DEF b

LEMMA GlueInOrder ==
  ASSUME NEW S, NEW x \in Seq(S), NEW y \in Seq(S), NEW z \in Seq(S)
  PROVE  Glue(x, Glue(y, z)) = Glue(Glue(x, y), z)
<1>1. (x \o y) \o z = x \o (y \o z)
  BY ConcatInOrder
<1> QED
  BY <1>1, Zenon DEF Glue

(* Something is put behind one sequence and what follows is empty.         *)
LEMMA AddedAtLast ==
  ASSUME NEW S, NEW u \in Seq(Seq(S)), NEW v \in Seq(Seq(S)), NEW j \in DOMAIN u,
         SameBut(u, v, j), NothingBehind(u, j), NEW e \in Seq(S), v[j] = Glue(u[j], e)
  PROVE  FlattenSeq(v) = Glue(FlattenSeq(u), e)
<1> DEFINE a == Through(u, j - 1)
           b == Behind(u, j)
           T == Seq(S)
<1>1. u \in Seq(T) /\ v \in Seq(T)
  OBVIOUS
<1>2. \A p, q, r \in T : Glue(p, Glue(q, r)) = Glue(Glue(p, q), r)
  BY GlueInOrder
<1>3. \A p, q \in T : Glue(p, q) \in T /\ Glue(p, <<>>) = p
  BY DEF Glue
<1>4. \A p \in Seq(T) : FlattenSeq(p) \in T
  BY FlattenType
<1>5. ASSUME NEW w \in Seq(T), NEW k \in DOMAIN w
      PROVE  FlattenSeq(w) = Glue(Glue(FlattenSeq(Through(w, k - 1)), w[k]), FlattenSeq(Behind(w, k)))
  BY FlattenSplit DEF Glue
<1> HIDE DEF T
<1>6. a \in Seq(T) /\ b \in Seq(T) /\ u[j] \in T /\ e \in T
  BY <1>1, SplitAt DEF T
<1>7. j \in DOMAIN v /\ Through(v, j - 1) = a /\ Behind(v, j) = b
  BY <1>1, SameAround
<1>8. \A i \in DOMAIN b : b[i] = <<>>
  BY <1>1, BehindNothing
<1> HIDE DEF a, b
<1>9. FlattenSeq(b) = <<>>
  BY <1>6, <1>8, FlattenNothing
<1> DEFINE x == FlattenSeq(a)
           y == u[j]
<1>10. x \in T /\ y \in T
  BY <1>4, <1>6
<1>11. FlattenSeq(u) = Glue(Glue(x, y), <<>>)
  BY <1>1, <1>5, <1>9 DEF a, b
<1>12. FlattenSeq(v) = Glue(Glue(x, Glue(y, e)), <<>>)
  BY <1>1, <1>5, <1>7, <1>9
<1> HIDE DEF x, y
<1>13. Glue(x, y) \in T /\ Glue(Glue(x, y), <<>>) = Glue(x, y)
  BY <1>3, <1>10
<1>14. Glue(x, Glue(y, e)) = Glue(Glue(x, y), e)
  BY <1>2, <1>6, <1>10
<1>15. Glue(Glue(Glue(x, y), e), <<>>) = Glue(Glue(x, y), e)
  BY <1>3, <1>6, <1>13
<1> QED
  BY <1>11, <1>12, <1>13, <1>14, <1>15
=============================================================================
