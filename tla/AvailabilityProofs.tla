-------------------------- MODULE AvailabilityProofs --------------------------
(***************************************************************************)
(* That the windows are the shift less the time off, for every shift,      *)
(* every zone and every set of blocks, that what is offered can be booked  *)
(* and that what is accepted is open: the properties the run               *)
(* Availability_booking checks on a small instance.                        *)
(*                                                                         *)
(* The loops of subtractBlocks are functions on the number of blocks done; *)
(* that such a function exists, and what it keeps, is shown by induction   *)
(* on a set of numbers (Induction, Iterates).                              *)
(***************************************************************************)
EXTENDS Availability, FiniteSetTheorems, WellFoundedInduction, TLAPS

Interval == [start: Int, end: Int]

------------------------------------------------------------------------------
(* Loops.                                                                   *)

LEMMA Induction ==
  ASSUME NEW N \in Nat, NEW K, 0 \in K,
         \A n \in 0..(N - 1) : n \in K => n + 1 \in K
  PROVE  0..N \subseteq K
<1>. SUFFICES ASSUME NEW x \in 0..N, x \notin K  PROVE FALSE
  OBVIOUS
<1>. DEFINE bad == {n \in 0..N : n \notin K}
            R == OpToRel(<, Nat)
<1>1. bad \subseteq Nat /\ bad # {}
  OBVIOUS
<1>2. IsWellFoundedOn(R, Nat)
  BY NatLessThanWellFounded
<1>. HIDE DEF R, bad
<1>3. PICK m \in bad : \A y \in bad : ~ (<<y, m>> \in R)
  BY <1>1, <1>2, WFMin
<1>. USE DEF bad
<1>4. m \in 1..N /\ m - 1 \in 0..(N - 1)
  BY <1>3
<1>5. m - 1 \in K
  <2>1. <<m - 1, m>> \in R
    BY <1>4 DEF R, OpToRel
  <2>2. m - 1 \in 0..N
    BY <1>4
  <2>. QED  BY <2>1, <2>2, <1>3
<1>6. (m - 1) + 1 = m
  BY <1>4
<1>. QED  BY <1>3, <1>4, <1>5, <1>6

\* A loop over a sequence s that starts from a and does F with each element.
Loop(f, a, s, F) == f[0] = a /\ \A n \in 1..Len(s) : f[n] = F[<<f[n - 1], s[n]>>]
LEMMA Iterates ==
  ASSUME NEW A, NEW a \in A, NEW E, NEW s \in Seq(E), NEW F \in [A \X E -> A]
  PROVE  \E f \in [0..Len(s) -> A] : Loop(f, a, s, F)
<1>. DEFINE N == Len(s)
            Upto(k, f) == f \in [0..k -> A] /\ \A n \in 0..k : f[n] = IF n = 0 THEN a ELSE F[<<f[n - 1], s[n]>>]
            K == {k \in 0..N : \E f : Upto(k, f)}
<1>1. N \in Nat /\ \A n \in 1..N : s[n] \in E
  OBVIOUS
<1>. HIDE DEF N
<1>2. 0 \in K
  <2>1. Upto(0, [n \in 0..0 |-> a])
    OBVIOUS
  <2>. HIDE DEF Upto
  <2>. QED  BY <2>1, <1>1
<1>3. ASSUME NEW k \in 0..(N - 1), k \in K  PROVE k + 1 \in K
  <2>1. PICK f : Upto(k, f)
    BY <1>3
  <2>2. f \in [0..k -> A] /\ f[k] \in A /\ s[k + 1] \in E
    BY <2>1, <1>1
  <2>. DEFINE v == F[<<f[k], s[k + 1]>>]
              g == [n \in 0..(k + 1) |-> IF n = k + 1 THEN v ELSE f[n]]
  <2>3. v \in A
    BY <2>2
  <2>. HIDE DEF v
  <2>4. g \in [0..(k + 1) -> A]
    BY <2>2, <2>3
  <2>5. ASSUME NEW n \in 0..(k + 1)  PROVE g[n] = IF n = 0 THEN a ELSE F[<<g[n - 1], s[n]>>]
    <3>1. CASE n = k + 1
      <4>1. g[n] = v /\ g[n - 1] = f[k] /\ n # 0 /\ s[n] = s[k + 1]
        BY <3>1
      <4>. QED  BY <4>1 DEF v
    <3>2. CASE n # k + 1
      <4>1. n \in 0..k /\ g[n] = f[n] /\ (n # 0 => g[n - 1] = f[n - 1])
        BY <3>2
      <4>. QED  BY <4>1, <2>1
    <3>. QED  BY <3>1, <3>2
  <2>6. Upto(k + 1, g)
    BY <2>4, <2>5
  <2>. HIDE DEF Upto, g
  <2>. QED  BY <2>6, <1>1
<1>4. N \in K
  <2>. HIDE DEF K
  <2>1. 0..N \subseteq K
    BY <1>1, <1>2, <1>3, Induction
  <2>. QED  BY <2>1, <1>1
<1>5. PICK f : Upto(N, f)
  BY <1>4
<1>6. f[0] = a /\ \A n \in 1..N : f[n] = F[<<f[n - 1], s[n]>>]
  <2>1. ASSUME NEW n \in 1..N  PROVE n \in 0..N /\ n # 0
    BY <1>1
  <2>2. 0 \in 0..N
    BY <1>1
  <2>. HIDE DEF K
  <2>. QED  BY <1>5, <2>1, <2>2
<1>. QED  BY <1>5, <1>6 DEF N, Loop

\* Merging keeps a sequence of intervals one.
LEMMA MergeType ==
  ASSUME NEW q \in Seq(Interval), NEW cur \in Interval
  PROVE  Merge(q, cur) \in Seq(Interval)
<1>1. CASE q = <<>> \/ cur.start > Last(q).end
  BY <1>1 DEF Merge
<1>2. CASE q # <<>> /\ ~(cur.start > Last(q).end)
  <2>1. Len(q) \in 1..Len(q) /\ q[Len(q)] \in Interval
    BY <1>2
  <2>2. [q EXCEPT ![Len(q)].end = cur.end] \in Seq(Interval)
    BY <2>1 DEF Interval
  <2>. QED  BY <1>2, <2>2 DEF Merge
<1>. QED  BY <1>1, <1>2

\* The loop of Merged.
LEMMA MergedLoop ==
  ASSUME NEW blocks \in Seq(Interval)
  PROVE  \E m \in [0..Len(blocks) -> Seq(Interval)] :
           /\ m[0] = <<>>
           /\ \A n \in 1..Len(blocks) : m[n] = Merge(m[n - 1], blocks[n])
           /\ Merged(blocks) = m[Len(blocks)]
<1>. DEFINE A == Seq(Interval)
            N == Len(blocks)
            F == [p \in A \X Interval |-> Merge(p[1], p[2])]
            m == CHOOSE f : f = [n \in 0..N |-> IF n = 0 THEN <<>> ELSE Merge(f[n - 1], blocks[n])]
<1>0. N \in Nat /\ \A n \in 1..N : blocks[n] \in Interval
  OBVIOUS
<1>1. F \in [A \X Interval -> A]
  BY MergeType
<1>2. PICK g \in [0..Len(blocks) -> A] : Loop(g, <<>>, blocks, F)
  <2>1. <<>> \in A
    OBVIOUS
  <2>. HIDE DEF F, A
  <2>. QED  BY <1>1, <2>1, Iterates
<1>. HIDE DEF F
<1>3. ASSUME NEW n \in 1..N  PROVE F[<<g[n - 1], blocks[n]>>] = Merge(g[n - 1], blocks[n])
  <2>1. g[n - 1] \in A /\ blocks[n] \in Interval
    BY <1>0
  <2>. HIDE DEF A
  <2>. QED  BY <2>1 DEF F
<1>. HIDE DEF A
<1>4. g = [n \in 0..N |-> IF n = 0 THEN <<>> ELSE Merge(g[n - 1], blocks[n])]
  <2>1. ASSUME NEW n \in 0..N
        PROVE g[n] = IF n = 0 THEN <<>> ELSE Merge(g[n - 1], blocks[n])
    <3>1. n = 0 \/ n \in 1..N
      BY <1>0
    <3>. QED  BY <1>2, <1>3, <3>1 DEF Loop
  <2>. QED  BY <1>2, <2>1
<1>. HIDE DEF N
<1>5. m = [n \in 0..N |-> IF n = 0 THEN <<>> ELSE Merge(m[n - 1], blocks[n])]
  BY <1>4
<1>6. Merged(blocks) = m[N]
  BY DEF Merged, N
<1>. HIDE DEF m
<1>7. m[0] = <<>> /\ \A n \in 1..N : m[n] = Merge(m[n - 1], blocks[n])
  BY <1>5, <1>0
<1>. DEFINE K == {n \in 0..N : m[n] \in A}
<1>8. 0 \in K
  <2>1. <<>> \in A
    BY DEF A
  <2>. QED  BY <1>7, <1>0, <2>1
<1>9. ASSUME NEW n \in 0..(N - 1), n \in K  PROVE n + 1 \in K
  <2>1. n + 1 \in 1..N /\ (n + 1) - 1 = n /\ n + 1 \in 0..N
    BY <1>0
  <2>2. m[n + 1] = Merge(m[n], blocks[n + 1]) /\ m[n] \in A /\ blocks[n + 1] \in Interval
    BY <2>1, <1>7, <1>9, <1>0
  <2>. QED  BY <2>1, <2>2, MergeType DEF A
<1>10. m \in [0..N -> A]
  <2>. HIDE DEF K
  <2>1. 0..N \subseteq K
    BY <1>0, <1>8, <1>9, Induction
  <2>2. \A n \in 0..N : m[n] \in A
    BY <2>1 DEF K
  <2>. QED  BY <2>2, <1>5
<1>. QED  BY <1>6, <1>7, <1>10 DEF N, A

\* What is carved, and the cursor.
Carving == [out: Seq(Interval), cursor: Int]

LEMMA CarveType ==
  ASSUME NEW acc \in Carving, NEW b \in Interval
  PROVE  Carve(acc, b) \in Carving
<1>1. acc.out \in Seq(Interval) /\ acc.cursor \in Int /\ b.start \in Int /\ b.end \in Int
  BY DEF Carving, Interval
<1>2. [start |-> acc.cursor, end |-> b.start] \in Interval
  BY <1>1 DEF Interval
<1>3. Append(acc.out, [start |-> acc.cursor, end |-> b.start]) \in Seq(Interval)
  BY <1>1, <1>2
<1>. QED  BY <1>1, <1>3 DEF Carve, Carving

\* The loop of Carved.
LEMMA CarvedLoop ==
  ASSUME NEW start \in Int, NEW blocks \in Seq(Interval)
  PROVE  \E c \in [0..Len(blocks) -> Carving] :
           /\ c[0] = [out |-> <<>>, cursor |-> start]
           /\ \A n \in 1..Len(blocks) : c[n] = Carve(c[n - 1], blocks[n])
           /\ Carved(start, blocks) = c[Len(blocks)]
<1>. DEFINE a == [out |-> <<>>, cursor |-> start]
            N == Len(blocks)
            F == [p \in Carving \X Interval |-> Carve(p[1], p[2])]
            c == CHOOSE f : f = [n \in 0..N |-> IF n = 0 THEN a ELSE Carve(f[n - 1], blocks[n])]
<1>0. N \in Nat /\ \A n \in 1..N : blocks[n] \in Interval
  OBVIOUS
<1>a. a \in Carving
  BY DEF Carving
<1>1. F \in [Carving \X Interval -> Carving]
  BY CarveType
<1>2. PICK g \in [0..N -> Carving] : Loop(g, a, blocks, F)
  <2>. HIDE DEF F, a
  <2>. QED  BY <1>1, <1>a, Iterates
<1>. HIDE DEF F
<1>3. ASSUME NEW n \in 1..N  PROVE F[<<g[n - 1], blocks[n]>>] = Carve(g[n - 1], blocks[n])
  <2>1. g[n - 1] \in Carving /\ blocks[n] \in Interval
    BY <1>0
  <2>. QED  BY <2>1 DEF F
<1>4. g = [n \in 0..N |-> IF n = 0 THEN a ELSE Carve(g[n - 1], blocks[n])]
  <2>. HIDE DEF a
  <2>1. ASSUME NEW n \in 0..N
        PROVE g[n] = IF n = 0 THEN a ELSE Carve(g[n - 1], blocks[n])
    <3>1. n = 0 \/ n \in 1..N
      BY <1>0
    <3>. QED  BY <1>2, <1>3, <3>1 DEF Loop
  <2>. QED  BY <1>2, <2>1
<1>6. Carved(start, blocks) = c[N]
  BY DEF Carved
<1>. HIDE DEF N, a
<1>5. c = [n \in 0..N |-> IF n = 0 THEN a ELSE Carve(c[n - 1], blocks[n])]
  BY <1>4
<1>. HIDE DEF c
<1>7. c[0] = a /\ \A n \in 1..N : c[n] = Carve(c[n - 1], blocks[n])
  BY <1>5, <1>0
<1>. DEFINE K == {n \in 0..N : c[n] \in Carving}
<1>8. 0 \in K
  BY <1>7, <1>0, <1>a
<1>9. ASSUME NEW n \in 0..(N - 1), n \in K  PROVE n + 1 \in K
  <2>1. n + 1 \in 1..N /\ (n + 1) - 1 = n /\ n + 1 \in 0..N
    BY <1>0
  <2>2. c[n + 1] = Carve(c[n], blocks[n + 1]) /\ c[n] \in Carving /\ blocks[n + 1] \in Interval
    BY <2>1, <1>7, <1>9, <1>0
  <2>. QED  BY <2>1, <2>2, CarveType
<1>10. c \in [0..N -> Carving]
  <2>. HIDE DEF K
  <2>1. 0..N \subseteq K
    BY <1>0, <1>8, <1>9, Induction
  <2>2. \A n \in 0..N : c[n] \in Carving
    BY <2>1 DEF K
  <2>. QED  BY <2>2, <1>5
<1>. QED  BY <1>6, <1>7, <1>10 DEF N, a

------------------------------------------------------------------------------
(* subtractBlocks.                                                          *)

At(t, i) == i.start <= t /\ t < i.end
Covers(q, t) == \E k \in DOMAIN q : At(t, q[k])
\* Intervals that are not empty, in order and with a gap between them.
Apart(q) ==
  /\ \A k \in DOMAIN q : q[k].start < q[k].end
  /\ \A k, l \in DOMAIN q : k < l => q[k].end < q[l].start
Between(q, lo, hi) == \A k \in DOMAIN q : lo <= q[k].start /\ q[k].end <= hi

\* One more interval behind the others.
LEMMA AppendApart ==
  ASSUME NEW q \in Seq(Interval), Apart(q), NEW i \in Interval, i.start < i.end,
         \A k \in DOMAIN q : q[k].end < i.start
  PROVE  /\ Append(q, i) \in Seq(Interval) /\ Apart(Append(q, i))
         /\ \A t \in Int : Covers(Append(q, i), t) <=> Covers(q, t) \/ At(t, i)
         /\ \A lo, hi \in Int : Between(q, lo, hi) /\ lo <= i.start /\ i.end <= hi
              => Between(Append(q, i), lo, hi)
<1>. DEFINE r == Append(q, i)
<1>1. /\ r \in Seq(Interval) /\ DOMAIN r = 1..(Len(q) + 1) /\ DOMAIN q = 1..Len(q) /\ Len(q) \in Nat
      /\ r[Len(q) + 1] = i /\ \A k \in 1..Len(q) : r[k] = q[k]
  OBVIOUS
<1>. HIDE DEF r
<1>2. \A k \in DOMAIN r : k = Len(q) + 1 \/ k \in DOMAIN q
  BY <1>1
<1>3. Apart(r)
  <2>1. ASSUME NEW k \in DOMAIN r  PROVE r[k].start < r[k].end
    BY <1>1, <1>2 DEF Apart
  <2>2. ASSUME NEW k \in DOMAIN r, NEW l \in DOMAIN r, k < l  PROVE r[k].end < r[l].start
    <3>1. k \in DOMAIN q /\ r[k] = q[k]
      BY <1>1, <2>2
    <3>. QED  BY <1>1, <1>2, <3>1, <2>2 DEF Apart
  <2>. QED  BY <2>1, <2>2 DEF Apart
<1>4. ASSUME NEW t \in Int  PROVE Covers(r, t) <=> Covers(q, t) \/ At(t, i)
  BY <1>1, <1>2 DEF Covers
<1>5. ASSUME NEW lo \in Int, NEW hi \in Int, Between(q, lo, hi), lo <= i.start, i.end <= hi
      PROVE  Between(r, lo, hi)
  BY <1>1, <1>2, <1>5 DEF Between
<1>. QED  BY <1>1, <1>3, <1>4, <1>5 DEF r

\* One block merged into those before it.
LEMMA MergeStep ==
  ASSUME NEW q \in Seq(Interval), Apart(q), NEW cur \in Interval, cur.start < cur.end,
         q # <<>> => q[Len(q)].start <= cur.start
  PROVE  /\ Apart(Merge(q, cur))
         /\ Merge(q, cur) # <<>>
         /\ Merge(q, cur)[Len(Merge(q, cur))].start <= cur.start
         /\ \A t \in Int : Covers(Merge(q, cur), t) <=> Covers(q, t) \/ At(t, cur)
         /\ \A lo, hi \in Int : Between(q, lo, hi) /\ lo <= cur.start /\ cur.end <= hi
              => Between(Merge(q, cur), lo, hi)
<1>. DEFINE n == Len(q)
<1>0. /\ n \in Nat /\ DOMAIN q = 1..n /\ cur.start \in Int /\ cur.end \in Int
      /\ \A k \in 1..n : q[k].start \in Int /\ q[k].end \in Int
      /\ Last(q) = q[n]
      /\ q # <<>> => n \in 1..n
  <2>1. n \in Nat /\ DOMAIN q = 1..n /\ \A k \in 1..n : q[k] \in Interval
    OBVIOUS
  <2>2. q # <<>> => n \in 1..n
    OBVIOUS
  <2>. QED  BY <2>1, <2>2 DEF Interval, Last
<1>. HIDE DEF n
<1>1. CASE q = <<>> \/ cur.start > Last(q).end
  <2>1. Merge(q, cur) = Append(q, cur)
    BY <1>1 DEF Merge
  <2>2. ASSUME NEW k \in DOMAIN q  PROVE q[k].end < cur.start
    <3>1. n \in 1..n /\ q[n].end < cur.start
      BY <1>0, <1>1
    <3>2. CASE k < n
      <4>1. q[k].end < q[n].start /\ q[n].start < q[n].end
        BY <1>0, <3>1, <3>2 DEF Apart
      <4>. QED  BY <1>0, <3>1, <4>1
    <3>. QED  BY <3>1, <3>2, <1>0
  <2>3. Append(q, cur) # <<>> /\ Append(q, cur)[Len(Append(q, cur))] = cur
    <3>1. Len(Append(q, cur)) = Len(q) + 1 /\ Append(q, cur)[Len(q) + 1] = cur
      OBVIOUS
    <3>. QED  BY <3>1
  <2>. QED  BY <1>0, <2>1, <2>2, <2>3, AppendApart
<1>2. CASE q # <<>> /\ ~(cur.start > Last(q).end) /\ cur.end > Last(q).end
  <2>. DEFINE r == [q EXCEPT ![n].end = cur.end]
  <2>1. Merge(q, cur) = r
    BY <1>2 DEF Merge, n
  <2>2. n \in 1..n /\ cur.start <= q[n].end /\ q[n].end < cur.end /\ q[n].start <= cur.start
    BY <1>0, <1>2 DEF n
  <2>3. /\ r \in Seq(Interval) /\ Len(r) = n /\ DOMAIN r = 1..n
        /\ r[n].start = q[n].start /\ r[n].end = cur.end
        /\ \A k \in 1..(n - 1) : r[k] = q[k]
    <3>1. q[n] \in Interval
      BY <2>2, <1>0
    <3>2. [q[n] EXCEPT !.end = cur.end] = [start |-> q[n].start, end |-> cur.end]
      BY <3>1 DEF Interval
    <3>3. r = [q EXCEPT ![n] = [start |-> q[n].start, end |-> cur.end]]
      BY <3>2
    <3>4. [start |-> q[n].start, end |-> cur.end] \in Interval
      BY <1>0, <2>2 DEF Interval
    <3>. DEFINE v == [start |-> q[n].start, end |-> cur.end]
    <3>5. v.start = q[n].start /\ v.end = cur.end /\ v \in Interval
      BY <3>4
    <3>6. r = [q EXCEPT ![n] = v]
      BY <3>3
    <3>. HIDE DEF r, v
    <3>7. r \in Seq(Interval) /\ Len(r) = n /\ DOMAIN r = 1..n /\ r[n] = v
      BY <3>5, <3>6, <2>2, <1>0 DEF n
    <3>8. \A k \in 1..(n - 1) : r[k] = q[k]
      BY <3>6, <2>2, <1>0
    <3>. QED  BY <3>5, <3>7, <3>8
  <2>. HIDE DEF r
  <2>4. \A k \in 1..n : k = n \/ (k \in 1..(n - 1) /\ r[k] = q[k] /\ k < n)
    BY <2>3, <1>0
  <2>5. Apart(r)
    <3>1. ASSUME NEW k \in 1..n  PROVE r[k].start < r[k].end
      <4>1. CASE k = n
        BY <4>1, <2>2, <2>3, <1>0
      <4>2. CASE k # n
        BY <4>2, <2>4, <1>0 DEF Apart
      <4>. QED  BY <4>1, <4>2
    <3>2. ASSUME NEW k \in 1..n, NEW l \in 1..n, k < l  PROVE r[k].end < r[l].start
      <4>0. k # n
        BY <1>0, <3>2
      <4>1. r[k] = q[k] /\ q[k].end < q[l].start
        BY <1>0, <2>4, <3>2, <4>0 DEF Apart
      <4>2. r[l].start = q[l].start
        BY <2>3, <2>4
      <4>. QED  BY <4>1, <4>2
    <3>. QED  BY <3>1, <3>2, <2>3 DEF Apart
  <2>6. ASSUME NEW t \in Int  PROVE Covers(r, t) <=> Covers(q, t) \/ At(t, cur)
    <3>1. At(t, r[n]) <=> At(t, q[n]) \/ At(t, cur)
      BY <2>2, <2>3, <1>0 DEF At
    <3>2. Covers(r, t) <=> At(t, r[n]) \/ \E k \in 1..(n - 1) : At(t, q[k])
      BY <2>2, <2>3, <2>4, <1>0 DEF Covers
    <3>3. Covers(q, t) <=> At(t, q[n]) \/ \E k \in 1..(n - 1) : At(t, q[k])
      BY <2>2, <2>4, <1>0 DEF Covers
    <3>. QED  BY <3>1, <3>2, <3>3
  <2>7. ASSUME NEW lo \in Int, NEW hi \in Int, Between(q, lo, hi), lo <= cur.start, cur.end <= hi
        PROVE  Between(r, lo, hi)
    <3>1. lo <= q[n].start
      BY <2>2, <2>7, <1>0 DEF Between
    <3>2. ASSUME NEW k \in 1..n  PROVE lo <= r[k].start /\ r[k].end <= hi
      <4>1. CASE k = n
        BY <4>1, <3>1, <2>3, <2>7
      <4>2. CASE k # n
        BY <4>2, <2>4, <2>7, <1>0 DEF Between
      <4>. QED  BY <4>1, <4>2
    <3>. QED  BY <3>2, <2>3 DEF Between
  <2>8. r # <<>> /\ r[Len(r)].start <= cur.start
    BY <2>2, <2>3, <1>0
  <2>. QED  BY <2>1, <2>5, <2>6, <2>7, <2>8
<1>3. CASE q # <<>> /\ ~(cur.start > Last(q).end) /\ ~(cur.end > Last(q).end)
  <2>1. Merge(q, cur) = q
    BY <1>3 DEF Merge
  <2>2. n \in 1..n /\ q[n].start <= cur.start /\ cur.end <= q[n].end
    BY <1>0, <1>3 DEF n
  <2>3. ASSUME NEW t \in Int, At(t, cur)  PROVE Covers(q, t)
    BY <2>2, <2>3, <1>0 DEF At, Covers
  <2>. QED  BY <2>1, <2>2, <2>3, <1>3 DEF n
<1>. QED  BY <1>1, <1>2, <1>3

\* What the first loop makes of blocks in order of their starts.
LEMMA MergedFacts ==
  ASSUME NEW blocks \in Seq(Interval), NEW lo \in Int, NEW hi \in Int,
         \A k \in DOMAIN blocks : blocks[k].start < blocks[k].end,
         \A k, l \in DOMAIN blocks : k < l => blocks[k].start <= blocks[l].start,
         Between(blocks, lo, hi)
  PROVE  /\ Merged(blocks) \in Seq(Interval)
         /\ Apart(Merged(blocks)) /\ Between(Merged(blocks), lo, hi)
         /\ \A t \in Int : Covers(Merged(blocks), t) <=> Covers(blocks, t)
<1>. DEFINE N == Len(blocks)
<1>0. N \in Nat /\ DOMAIN blocks = 1..N /\ \A n \in 1..N : blocks[n] \in Interval
  OBVIOUS
<1>1. PICK m \in [0..N -> Seq(Interval)] :
             /\ m[0] = <<>>
             /\ \A n \in 1..N : m[n] = Merge(m[n - 1], blocks[n])
             /\ Merged(blocks) = m[N]
  BY MergedLoop
<1>. HIDE DEF N
<1>. DEFINE Done(n, t) == \E k \in 1..n : At(t, blocks[k])
            Good(n) == /\ Apart(m[n]) /\ Between(m[n], lo, hi)
                       /\ \A t \in Int : Covers(m[n], t) <=> Done(n, t)
                       /\ m[n] # <<>> => n # 0 /\ m[n][Len(m[n])].start <= blocks[n].start
            K == {n \in 0..N : Good(n)}
<1>2. 0 \in K
  <2>1. Apart(<<>>) /\ Between(<<>>, lo, hi) /\ \A t \in Int : ~Covers(<<>>, t)
    BY DEF Apart, Between, Covers
  <2>2. \A t : ~Done(0, t)
    OBVIOUS
  <2>. HIDE DEF Done
  <2>3. Good(0)
    BY <1>1, <2>1, <2>2
  <2>. HIDE DEF Good
  <2>. QED  BY <2>3, <1>0
<1>3. ASSUME NEW n \in 0..(N - 1), n \in K  PROVE n + 1 \in K
  <2>. DEFINE cur == blocks[n + 1]
  <2>1. n + 1 \in 1..N /\ (n + 1) - 1 = n /\ n + 1 \in 0..N /\ n \in 0..N
    BY <1>0
  <2>2. m[n + 1] = Merge(m[n], cur) /\ m[n] \in Seq(Interval) /\ cur \in Interval
    BY <2>1, <1>0, <1>1
  <2>3. cur.start < cur.end /\ lo <= cur.start /\ cur.end <= hi
    BY <2>1, <1>0 DEF Between
  <2>4. Good(n)
    BY <1>3
  <2>5. m[n] # <<>> => m[n][Len(m[n])].start <= cur.start
    <3>1. HAVE m[n] # <<>>
    <3>2. m[n][Len(m[n])].start <= blocks[n].start /\ n \in 1..N
      BY <2>1, <2>4, <3>1
    <3>3. blocks[n].start <= cur.start
      BY <2>1, <3>2, <1>0
    <3>4. m[n][Len(m[n])].start \in Int /\ blocks[n].start \in Int /\ cur.start \in Int
      <4>1. Len(m[n]) \in DOMAIN m[n]
        BY <2>2, <3>1
      <4>2. m[n][Len(m[n])] \in Interval /\ blocks[n] \in Interval
        BY <2>2, <4>1, <3>2, <1>0
      <4>. QED  BY <2>2, <4>2 DEF Interval
    <3>. QED  BY <3>2, <3>3, <3>4
  <2>6. \A t \in Int : Done(n + 1, t) <=> Done(n, t) \/ At(t, cur)
    <3>1. \A k \in 1..(n + 1) : k \in 1..n \/ k = n + 1
      BY <2>1
    <3>2. n + 1 \in 1..(n + 1) /\ \A k \in 1..n : k \in 1..(n + 1)
      BY <2>1
    <3>. QED  BY <3>1, <3>2
  <2>. HIDE DEF cur, Done
  <2>7. Good(n + 1)
    <3>1. /\ Apart(m[n + 1]) /\ m[n + 1] # <<>>
          /\ m[n + 1][Len(m[n + 1])].start <= cur.start
          /\ \A t \in Int : Covers(m[n + 1], t) <=> Covers(m[n], t) \/ At(t, cur)
          /\ Between(m[n + 1], lo, hi)
      BY <2>2, <2>3, <2>4, <2>5, MergeStep
    <3>. QED  BY <3>1, <2>4, <2>6, <2>1 DEF cur
  <2>. HIDE DEF Good
  <2>. QED  BY <2>1, <2>7
<1>. HIDE DEF K
<1>4. 0..N \subseteq K
  BY <1>0, <1>2, <1>3, Induction
<1>5. Good(N)
  BY <1>4, <1>0 DEF K
<1>6. m[N] \in Seq(Interval)
  BY <1>0, <1>1
<1>7. \A t \in Int : Covers(blocks, t) <=> Done(N, t)
  BY <1>0 DEF Covers
<1>. HIDE DEF Done
<1>. QED  BY <1>1, <1>5, <1>6, <1>7

\* One block carved: no instant before the cursor is forgotten.
LEMMA CarveStep ==
  ASSUME NEW acc \in Carving, NEW b \in Interval, b.start < b.end, acc.cursor <= b.start,
         Apart(acc.out), \A k \in DOMAIN acc.out : acc.out[k].end < acc.cursor
  PROVE  /\ Carve(acc, b).cursor = b.end
         /\ Apart(Carve(acc, b).out)
         /\ \A k \in DOMAIN Carve(acc, b).out : Carve(acc, b).out[k].end < b.end
         /\ \A t \in Int : Covers(Carve(acc, b).out, t)
              <=> Covers(acc.out, t) \/ (acc.cursor <= t /\ t < b.start)
         /\ \A lo \in Int : lo <= acc.cursor /\ Between(acc.out, lo, acc.cursor)
              => Between(Carve(acc, b).out, lo, b.end)
<1>. DEFINE gap == [start |-> acc.cursor, end |-> b.start]
<1>1. acc.out \in Seq(Interval) /\ acc.cursor \in Int /\ b.start \in Int /\ b.end \in Int
  BY DEF Carving, Interval
<1>2. \A k \in DOMAIN acc.out : acc.out[k].start \in Int /\ acc.out[k].end \in Int
  <2>1. \A k \in DOMAIN acc.out : acc.out[k] \in Interval
    BY <1>1
  <2>. QED  BY <2>1 DEF Interval
<1>3. Carve(acc, b).cursor = b.end
  BY <1>1 DEF Carve
<1>4. CASE b.start > acc.cursor
  <2>1. Carve(acc, b).out = Append(acc.out, gap)
    BY <1>4 DEF Carve
  <2>2. gap \in Interval /\ gap.start = acc.cursor /\ gap.end = b.start
    BY <1>1 DEF Interval
  <2>. HIDE DEF gap
  <2>. DEFINE r == Append(acc.out, gap)
  <2>3. /\ Apart(r)
        /\ \A t \in Int : Covers(r, t) <=> Covers(acc.out, t) \/ At(t, gap)
    BY <1>1, <1>4, <2>2, AppendApart
  <2>4. \A lo, hi \in Int : Between(acc.out, lo, hi) /\ lo <= acc.cursor /\ b.start <= hi
              => Between(r, lo, hi)
    BY <1>1, <1>4, <2>2, AppendApart
  <2>5. ASSUME NEW k \in DOMAIN r  PROVE r[k].end < b.end
    <3>1. r[k] = gap \/ (k \in DOMAIN acc.out /\ r[k] = acc.out[k])
      BY <1>1, <2>2
    <3>. QED  BY <3>1, <2>2, <1>1, <1>2
  <2>6. \A t \in Int : At(t, gap) <=> (acc.cursor <= t /\ t < b.start)
    BY <2>2 DEF At
  <2>. HIDE DEF r
  <2>7. ASSUME NEW lo \in Int, lo <= acc.cursor, Between(acc.out, lo, acc.cursor)
        PROVE  Between(r, lo, b.end)
    <3>1. Between(acc.out, lo, b.end)
      BY <2>7, <1>1, <1>2 DEF Between
    <3>. QED  BY <2>4, <2>7, <3>1, <1>1
  <2>. QED  BY <1>3, <2>1, <2>3, <2>5, <2>6, <2>7 DEF r
<1>5. CASE ~(b.start > acc.cursor)
  <2>1. Carve(acc, b).out = acc.out
    BY <1>5 DEF Carve
  <2>2. b.start = acc.cursor
    BY <1>1, <1>5
  <2>3. ASSUME NEW lo \in Int, lo <= acc.cursor, Between(acc.out, lo, acc.cursor)
        PROVE  Between(acc.out, lo, b.end)
    BY <2>3, <1>1, <1>2 DEF Between
  <2>4. ASSUME NEW k \in DOMAIN acc.out  PROVE acc.out[k].end < b.end
    BY <1>1, <1>2, <2>2
  <2>5. \A t \in Int : ~(acc.cursor <= t /\ t < b.start)
    BY <1>1, <2>2
  <2>. QED  BY <1>3, <2>1, <2>3, <2>4, <2>5
<1>. QED  BY <1>4, <1>5

\* What the second loop makes of blocks that are apart.
LEMMA CarvedFacts ==
  ASSUME NEW q \in Seq(Interval), NEW lo \in Int, NEW hi \in Int, lo <= hi,
         Apart(q), Between(q, lo, hi)
  PROVE  /\ Carved(lo, q) \in Carving
         /\ lo <= Carved(lo, q).cursor /\ Carved(lo, q).cursor <= hi
         /\ Apart(Carved(lo, q).out)
         /\ \A k \in DOMAIN Carved(lo, q).out : Carved(lo, q).out[k].end < Carved(lo, q).cursor
         /\ Between(Carved(lo, q).out, lo, Carved(lo, q).cursor)
         /\ \A t \in Int : Covers(Carved(lo, q).out, t)
              <=> lo <= t /\ t < Carved(lo, q).cursor /\ ~Covers(q, t)
         /\ \A t \in Int : Covers(q, t) => t < Carved(lo, q).cursor
<1>. DEFINE N == Len(q)
<1>0. /\ N \in Nat /\ DOMAIN q = 1..N
      /\ \A n \in 1..N : q[n] \in Interval
  OBVIOUS
<1>1. PICK c \in [0..N -> Carving] :
             /\ c[0] = [out |-> <<>>, cursor |-> lo]
             /\ \A n \in 1..N : c[n] = Carve(c[n - 1], q[n])
             /\ Carved(lo, q) = c[N]
  BY CarvedLoop
<1>. HIDE DEF N
<1>a. \A n \in 1..N : q[n].start \in Int /\ q[n].end \in Int
  BY <1>0 DEF Interval
<1>. DEFINE Done(n, t) == \E k \in 1..n : At(t, q[k])
            Good(n) == /\ c[n].cursor = IF n = 0 THEN lo ELSE q[n].end
                       /\ Apart(c[n].out) /\ Between(c[n].out, lo, c[n].cursor)
                       /\ \A k \in DOMAIN c[n].out : c[n].out[k].end < c[n].cursor
                       /\ \A t \in Int : Covers(c[n].out, t)
                            <=> lo <= t /\ t < c[n].cursor /\ ~Done(n, t)
                       /\ \A t \in Int : Done(n, t) => t < c[n].cursor
            K == {n \in 0..N : Good(n)}
<1>2. 0 \in K
  <2>1. /\ Apart(<<>>) /\ \A t \in Int : ~Covers(<<>>, t)
        /\ Between(<<>>, lo, lo) /\ DOMAIN <<>> = {}
    BY DEF Apart, Between, Covers
  <2>2. \A t : ~Done(0, t)
    OBVIOUS
  <2>3. c[0].out = <<>> /\ c[0].cursor = lo
    BY <1>1
  <2>. HIDE DEF Done
  <2>4. Good(0)
    BY <2>1, <2>2, <2>3
  <2>. HIDE DEF Good
  <2>. QED  BY <2>4, <1>0
<1>3. ASSUME NEW n \in 0..(N - 1), n \in K  PROVE n + 1 \in K
  <2>. DEFINE b == q[n + 1]
  <2>1. n + 1 \in 1..N /\ (n + 1) - 1 = n /\ n + 1 \in 0..N /\ n \in 0..N /\ n + 1 # 0
    BY <1>0
  <2>2. c[n + 1] = Carve(c[n], b) /\ c[n] \in Carving /\ b \in Interval
    BY <2>1, <1>0, <1>1
  <2>3. b.start < b.end /\ lo <= b.start /\ b.start \in Int /\ b.end \in Int
    BY <2>1, <1>0, <1>a DEF Between, Apart
  <2>4. Good(n)
    BY <1>3
  <2>5. c[n].cursor \in Int /\ lo <= c[n].cursor /\ c[n].cursor <= b.start
    <3>1. CASE n = 0
      BY <3>1, <2>3, <2>4
    <3>2. CASE n # 0
      <4>1. n \in 1..N
        BY <2>1, <3>2, <1>0
      <4>2. q[n].end < b.start /\ lo <= q[n].start /\ q[n].start < q[n].end
        BY <4>1, <2>1, <1>0 DEF Apart, Between
      <4>3. c[n].cursor = q[n].end
        BY <2>4, <3>2
      <4>. QED  BY <4>1, <4>2, <4>3, <2>3, <1>a
    <3>. QED  BY <3>1, <3>2
  <2>6. \A t \in Int : Done(n + 1, t) <=> Done(n, t) \/ At(t, b)
    <3>1. \A k \in 1..(n + 1) : k \in 1..n \/ k = n + 1
      BY <2>1
    <3>2. n + 1 \in 1..(n + 1) /\ \A k \in 1..n : k \in 1..(n + 1)
      BY <2>1
    <3>. QED  BY <3>1, <3>2
  <2>. HIDE DEF b, Done
  <2>7. /\ c[n + 1].cursor = b.end
        /\ Apart(c[n + 1].out)
        /\ \A k \in DOMAIN c[n + 1].out : c[n + 1].out[k].end < b.end
        /\ \A t \in Int : Covers(c[n + 1].out, t)
              <=> Covers(c[n].out, t) \/ (c[n].cursor <= t /\ t < b.start)
        /\ Between(c[n + 1].out, lo, b.end)
    BY <2>2, <2>3, <2>4, <2>5, CarveStep
  <2>8. ASSUME NEW t \in Int
        PROVE  /\ Covers(c[n + 1].out, t) <=> lo <= t /\ t < b.end /\ ~Done(n + 1, t)
               /\ Done(n + 1, t) => t < b.end
    <3>1. /\ Covers(c[n].out, t) <=> lo <= t /\ t < c[n].cursor /\ ~Done(n, t)
          /\ Done(n, t) => t < c[n].cursor
      BY <2>4
    <3>2. At(t, b) <=> b.start <= t /\ t < b.end
      BY DEF At
    <3>3. Covers(c[n + 1].out, t) <=> Covers(c[n].out, t) \/ (c[n].cursor <= t /\ t < b.start)
      BY <2>7
    <3>4. Done(n + 1, t) <=> Done(n, t) \/ At(t, b)
      BY <2>6
    <3>. QED  BY <3>1, <3>2, <3>3, <3>4, <2>3, <2>5
  <2>9. Good(n + 1)
    BY <2>1, <2>7, <2>8 DEF b
  <2>. HIDE DEF Good
  <2>. QED  BY <2>1, <2>9
<1>. HIDE DEF K
<1>4. 0..N \subseteq K
  BY <1>0, <1>2, <1>3, Induction
<1>5. Good(N)
  BY <1>4, <1>0 DEF K
<1>6. c[N] \in Carving
  BY <1>0, <1>1
<1>7. \A t \in Int : Covers(q, t) <=> Done(N, t)
  BY <1>0 DEF Covers
<1>8. lo <= c[N].cursor /\ c[N].cursor <= hi
  <2>1. CASE N = 0
    BY <2>1, <1>5
  <2>2. CASE N # 0
    <3>1. N \in 1..N
      BY <2>2, <1>0
    <3>2. lo <= q[N].start /\ q[N].start < q[N].end /\ q[N].end <= hi
      BY <3>1, <1>0 DEF Apart, Between
    <3>3. c[N].cursor = q[N].end
      BY <2>2, <1>5
    <3>. QED  BY <3>1, <3>2, <3>3, <1>a
  <2>. QED  BY <2>1, <2>2
<1>. HIDE DEF Done
<1>. QED  BY <1>1, <1>5, <1>6, <1>7, <1>8

\* Sorted puts the intervals of a finite set in order of their starts: the place
\* of an interval is the number of those before it, and no two have the same.
LEMMA SortedFacts ==
  ASSUME NEW S, S \subseteq Interval, IsFiniteSet(S)
  PROVE  /\ Sorted(S) \in Seq(Interval)
         /\ \A b : (\E k \in DOMAIN Sorted(S) : Sorted(S)[k] = b) <=> b \in S
         /\ \A k, l \in DOMAIN Sorted(S) : k < l => Sorted(S)[k].start <= Sorted(S)[l].start
<1>. DEFINE N == Cardinality(S)
            Below(b) == {c \in S : Before(c, b)}
            rank == [b \in S |-> Cardinality(Below(b)) + 1]
<1>0. N \in Nat /\ \A b \in S : b.start \in Int /\ b.end \in Int
  BY FS_CardinalityType DEF Interval
<1>1. ASSUME NEW b \in S  PROVE IsFiniteSet(Below(b)) /\ Cardinality(Below(b)) \in Nat
  <2>1. Below(b) \in SUBSET S
    OBVIOUS
  <2>. HIDE DEF Below
  <2>2. IsFiniteSet(Below(b))
    BY <2>1, FS_Subset
  <2>. QED  BY <2>2, FS_CardinalityType
<1>2. ASSUME NEW a \in S, NEW b \in S, Before(a, b)
      PROVE  Cardinality(Below(a)) < Cardinality(Below(b))
  <2>1. Below(a) \in SUBSET Below(b)
    BY <1>0, <1>2 DEF Before
  <2>2. a \in Below(b) /\ a \notin Below(a)
    BY <1>0, <1>2 DEF Before
  <2>. HIDE DEF Below
  <2>3. Cardinality(Below(a)) <= Cardinality(Below(b)) /\ Cardinality(Below(a)) # Cardinality(Below(b))
    BY <1>1, <2>1, <2>2, FS_Subset
  <2>. QED  BY <1>1, <2>3
<1>3. ASSUME NEW a \in S, NEW b \in S, a # b  PROVE Before(a, b) \/ Before(b, a)
  <2>1. a.start # b.start \/ a.end # b.end
    BY <1>3 DEF Interval
  <2>. QED  BY <2>1, <1>0 DEF Before
<1>4. ASSUME NEW b \in S  PROVE Cardinality(Below(b)) + 1 \in 1..N
  <2>1. Below(b) \in SUBSET S /\ b \notin Below(b)
    BY <1>0 DEF Before
  <2>. HIDE DEF Below, N
  <2>2. Cardinality(Below(b)) <= N /\ Cardinality(Below(b)) # N
    BY <2>1, FS_Subset DEF N
  <2>. QED  BY <1>0, <1>1, <2>2
<1>5. rank \in Injection(S, 1..N)
  <2>1. rank \in [S -> 1..N]
    BY <1>4
  <2>2. ASSUME NEW a \in S, NEW b \in S, rank[a] = rank[b]  PROVE a = b
    <3>. HIDE DEF Below
    <3>1. Cardinality(Below(a)) = Cardinality(Below(b))
      BY <1>1, <2>2
    <3>2. ~Before(a, b) /\ ~Before(b, a)
      BY <1>1, <1>2, <3>1
    <3>. QED  BY <1>3, <3>2
  <2>. HIDE DEF rank
  <2>. QED  BY <2>1, <2>2 DEF Injection, IsInjective
<1>6. rank \in Surjection(S, 1..N)
  <2>1. IsFiniteSet(1..N) /\ Cardinality(1..N) = N
    BY <1>0, FS_Interval
  <2>. HIDE DEF rank
  <2>. QED  BY <1>5, <2>1, FS_Injection
<1>7. ASSUME NEW n \in 1..N
      PROVE  \E b \in S : Cardinality(Below(b)) = n - 1
  <2>1. PICK b \in S : rank[b] = n
    <3>. HIDE DEF rank
    <3>. QED  BY <1>6 DEF Surjection
  <2>. HIDE DEF Below
  <2>. QED  BY <2>1, <1>1
<1>8. /\ DOMAIN Sorted(S) = 1..N
      /\ \A n \in 1..N : Sorted(S)[n] = CHOOSE b \in S : Cardinality(Below(b)) = n - 1
  BY DEF Sorted
<1>9. ASSUME NEW n \in 1..N
      PROVE  Sorted(S)[n] \in S /\ Cardinality(Below(Sorted(S)[n])) = n - 1
  <2>. HIDE DEF Below
  <2>. QED  BY <1>7, <1>8
<1>10. Sorted(S) \in Seq(Interval)
  <2>. DEFINE pick == [n \in 1..N |-> CHOOSE b \in S : Cardinality(Below(b)) = n - 1]
  <2>1. Sorted(S) = pick
    BY DEF Sorted
  <2>2. \A n \in 1..N : pick[n] \in Interval
    BY <1>9, <2>1
  <2>3. pick \in [1..N -> Interval]
    BY <2>2
  <2>. HIDE DEF pick, N
  <2>. QED  BY <1>0, <2>1, <2>3
<1>11. ASSUME NEW b \in S  PROVE \E k \in 1..N : Sorted(S)[k] = b
  <2>1. PICK n \in 1..N : n = Cardinality(Below(b)) + 1
    BY <1>4
  <2>. DEFINE a == Sorted(S)[n]
  <2>. HIDE DEF Below
  <2>2. a \in S /\ Cardinality(Below(a)) = Cardinality(Below(b))
    BY <1>1, <1>9, <2>1
  <2>. HIDE DEF a
  <2>3. ~Before(a, b) /\ ~Before(b, a)
    BY <1>1, <1>2, <2>2
  <2>4. a = b
    BY <1>3, <2>2, <2>3
  <2>. QED  BY <2>1, <2>4 DEF a
<1>12. ASSUME NEW k \in 1..N, NEW l \in 1..N, k < l
       PROVE  Sorted(S)[k].start <= Sorted(S)[l].start
  <2>. DEFINE a == Sorted(S)[k]
              b == Sorted(S)[l]
  <2>. HIDE DEF Below
  <2>1. a \in S /\ b \in S /\ Cardinality(Below(a)) = k - 1 /\ Cardinality(Below(b)) = l - 1
    BY <1>9
  <2>. HIDE DEF a, b
  <2>2. a # b /\ ~Before(b, a)
    BY <1>2, <1>12, <2>1, <1>0
  <2>3. Before(a, b)
    BY <1>3, <2>1, <2>2
  <2>4. a.start <= b.start
    BY <1>0, <2>1, <2>3 DEF Before
  <2>. QED  BY <2>4 DEF a, b
<1>. HIDE DEF N, Below
<1>. QED  BY <1>8, <1>9, <1>10, <1>11, <1>12

\* The time off that meets the shift, cut to it.
LEMMA ClippedFacts ==
  ASSUME IsFiniteSet(timeOff), timeOff \subseteq Interval, \A b \in timeOff : b.start < b.end,
         NEW base \in Interval, base.start < base.end
  PROVE  /\ Clipped(base) \in Seq(Interval)
         /\ \A k \in DOMAIN Clipped(base) : Clipped(base)[k].start < Clipped(base)[k].end
         /\ \A k, l \in DOMAIN Clipped(base) : k < l => Clipped(base)[k].start <= Clipped(base)[l].start
         /\ Between(Clipped(base), base.start, base.end)
         /\ \A t \in Int : At(t, base) =>
              (Covers(Clipped(base), t) <=> \E b \in timeOff : At(t, b))
<1>. DEFINE listed == ListTimeOff(base)
            S == {Clip(base, b) : b \in listed}
<1>1. /\ base.start \in Int /\ base.end \in Int
      /\ \A b \in timeOff : b.start \in Int /\ b.end \in Int
  BY DEF Interval
<1>2. ASSUME NEW b \in listed
      PROVE  /\ Clip(base, b) \in Interval
             /\ Clip(base, b).start < Clip(base, b).end
             /\ base.start <= Clip(base, b).start /\ Clip(base, b).end <= base.end
             /\ \A t \in Int : At(t, Clip(base, b)) <=> At(t, b) /\ At(t, base)
  <2>1. b \in timeOff /\ b.end > base.start /\ b.start < base.end /\ b.start < b.end
    BY DEF ListTimeOff
  <2>2. Clip(base, b) \in Interval
    BY <1>1, <2>1 DEF Clip, Interval
  <2>3. /\ Clip(base, b).start = IF b.start < base.start THEN base.start ELSE b.start
        /\ Clip(base, b).end = IF b.end > base.end THEN base.end ELSE b.end
    BY DEF Clip
  <2>. QED  BY <1>1, <2>1, <2>2, <2>3 DEF At
<1>3. IsFiniteSet(S)
  <2>. DEFINE f == [b \in listed |-> Clip(base, b)]
  <2>1. IsFiniteSet(listed)
    <3>1. listed \in SUBSET timeOff
      BY DEF ListTimeOff
    <3>. QED  BY <3>1, FS_Subset
  <2>. HIDE DEF listed
  <2>2. f \in Surjection(listed, S)
    BY DEF Surjection
  <2>. HIDE DEF f, S
  <2>. QED  BY <2>1, <2>2, FS_Surjection
<1>4. S \subseteq Interval
  <2>. HIDE DEF listed
  <2>. QED  BY <1>2
<1>5. Clipped(base) = Sorted(S)
  BY DEF Clipped
<1>. HIDE DEF S
<1>. DEFINE q == Clipped(base)
<1>6. /\ q \in Seq(Interval)
      /\ \A b : (\E k \in DOMAIN q : q[k] = b) <=> b \in S
      /\ \A k, l \in DOMAIN q : k < l => q[k].start <= q[l].start
  BY <1>3, <1>4, <1>5, SortedFacts
<1>. HIDE DEF q, listed
<1>7. \A k \in DOMAIN q : \E b \in listed : q[k] = Clip(base, b)
  BY <1>6 DEF S
<1>8. \A b \in listed : \E k \in DOMAIN q : q[k] = Clip(base, b)
  BY <1>6 DEF S
<1>9. ASSUME NEW t \in Int, At(t, base)
      PROVE  Covers(q, t) <=> \E b \in timeOff : At(t, b)
  <2>1. ASSUME Covers(q, t)  PROVE \E b \in timeOff : At(t, b)
    <3>1. PICK k \in DOMAIN q : At(t, q[k])
      BY <2>1 DEF Covers
    <3>2. PICK b \in listed : q[k] = Clip(base, b)
      BY <1>7
    <3>3. At(t, b) /\ b \in timeOff
      BY <3>1, <3>2, <1>2 DEF listed, ListTimeOff
    <3>. QED  BY <3>3
  <2>2. ASSUME NEW b \in timeOff, At(t, b)  PROVE Covers(q, t)
    <3>1. b \in listed
      BY <1>1, <1>9, <2>2 DEF listed, ListTimeOff, At
    <3>2. PICK k \in DOMAIN q : q[k] = Clip(base, b)
      BY <1>8, <3>1
    <3>3. At(t, q[k])
      BY <1>2, <1>9, <2>2, <3>1, <3>2
    <3>. QED  BY <3>3 DEF Covers
  <2>. QED  BY <2>1, <2>2
<1>10. Between(q, base.start, base.end)
  BY <1>2, <1>7 DEF Between
<1>11. \A k \in DOMAIN q : q[k].start < q[k].end
  BY <1>2, <1>7
<1>. QED  BY <1>6, <1>9, <1>10, <1>11 DEF q

\* subtractBlocks leaves of the shift what no block covers.
LEMMA SubtractFacts ==
  ASSUME IsFiniteSet(timeOff), timeOff \subseteq Interval, \A b \in timeOff : b.start < b.end,
         NEW base \in Interval, base.start < base.end
  PROVE  /\ SubtractBlocks(base) \in Seq(Interval)
         /\ Apart(SubtractBlocks(base)) /\ Between(SubtractBlocks(base), base.start, base.end)
         /\ \A t \in Int : Covers(SubtractBlocks(base), t)
              <=> At(t, base) /\ \A b \in timeOff : ~At(t, b)
<1>. DEFINE blocks == Clipped(base)
            q == Merged(blocks)
            acc == Carved(base.start, q)
            rest == [start |-> acc.cursor, end |-> base.end]
<1>0. base.start \in Int /\ base.end \in Int
  BY DEF Interval
<1>1. /\ blocks \in Seq(Interval)
      /\ \A k \in DOMAIN blocks : blocks[k].start < blocks[k].end
      /\ \A k, l \in DOMAIN blocks : k < l => blocks[k].start <= blocks[l].start
      /\ Between(blocks, base.start, base.end)
      /\ \A t \in Int : At(t, base) => (Covers(blocks, t) <=> \E b \in timeOff : At(t, b))
  BY ClippedFacts
<1>. HIDE DEF blocks
<1>2. /\ q \in Seq(Interval) /\ Apart(q) /\ Between(q, base.start, base.end)
      /\ \A t \in Int : Covers(q, t) <=> Covers(blocks, t)
  BY <1>0, <1>1, MergedFacts
<1>. HIDE DEF q
<1>3. /\ acc \in Carving
      /\ base.start <= acc.cursor /\ acc.cursor <= base.end
      /\ Apart(acc.out)
      /\ \A k \in DOMAIN acc.out : acc.out[k].end < acc.cursor
      /\ Between(acc.out, base.start, acc.cursor)
      /\ \A t \in Int : Covers(acc.out, t)
           <=> base.start <= t /\ t < acc.cursor /\ ~Covers(q, t)
      /\ \A t \in Int : Covers(q, t) => t < acc.cursor
  BY <1>0, <1>2, CarvedFacts
<1>4. SubtractBlocks(base) = IF base.end > acc.cursor THEN Append(acc.out, rest) ELSE acc.out
  BY DEF SubtractBlocks, acc, q, blocks
<1>. HIDE DEF acc
<1>5. acc.out \in Seq(Interval) /\ acc.cursor \in Int
  BY <1>3 DEF Carving
<1>6. \A k \in DOMAIN acc.out : acc.out[k].start \in Int /\ acc.out[k].end \in Int
  <2>1. \A k \in DOMAIN acc.out : acc.out[k] \in Interval
    BY <1>5
  <2>. QED  BY <2>1 DEF Interval
<1>7. Between(acc.out, base.start, base.end)
  BY <1>0, <1>3, <1>5, <1>6 DEF Between
<1>8. ASSUME NEW t \in Int  PROVE At(t, base) => (Covers(q, t) <=> \E b \in timeOff : At(t, b))
  BY <1>1, <1>2
<1>9. CASE base.end > acc.cursor
  <2>1. rest \in Interval /\ rest.start = acc.cursor /\ rest.end = base.end
    BY <1>0, <1>5 DEF Interval
  <2>. HIDE DEF rest
  <2>2. /\ Append(acc.out, rest) \in Seq(Interval) /\ Apart(Append(acc.out, rest))
        /\ \A t \in Int : Covers(Append(acc.out, rest), t) <=> Covers(acc.out, t) \/ At(t, rest)
        /\ Between(Append(acc.out, rest), base.start, base.end)
    BY <1>0, <1>3, <1>5, <1>7, <1>9, <2>1, AppendApart
  <2>3. ASSUME NEW t \in Int
        PROVE  Covers(acc.out, t) \/ At(t, rest) <=> At(t, base) /\ \A b \in timeOff : ~At(t, b)
    <3>1. At(t, rest) <=> acc.cursor <= t /\ t < base.end
      BY <2>1 DEF At
    <3>2. At(t, base) <=> base.start <= t /\ t < base.end
      BY DEF At
    <3>3. /\ Covers(acc.out, t) <=> base.start <= t /\ t < acc.cursor /\ ~Covers(q, t)
          /\ Covers(q, t) => t < acc.cursor
      BY <1>3
    <3>4. Covers(acc.out, t) \/ At(t, rest) <=> At(t, base) /\ ~Covers(q, t)
      BY <3>1, <3>2, <3>3, <1>0, <1>3, <1>5
    <3>. QED  BY <3>4, <1>8
  <2>. QED  BY <1>4, <1>9, <2>2, <2>3
<1>10. CASE ~(base.end > acc.cursor)
  <2>1. acc.cursor = base.end
    BY <1>0, <1>3, <1>5, <1>10
  <2>2. ASSUME NEW t \in Int
        PROVE  Covers(acc.out, t) <=> At(t, base) /\ \A b \in timeOff : ~At(t, b)
    <3>1. Covers(acc.out, t) <=> At(t, base) /\ ~Covers(q, t)
      BY <1>3, <2>1 DEF At
    <3>. QED  BY <3>1, <1>8
  <2>. QED  BY <1>3, <1>4, <1>5, <1>7, <1>10, <2>2
<1>. QED  BY <1>9, <1>10

------------------------------------------------------------------------------
(* The state.                                                               *)

\* Time off is finitely many blocks, and a request looks at no other dates than
\* those validateBookingWithinAvailability computes of its start.
IInv ==
  /\ TypeOK
  /\ IsFiniteSet(timeOff)
  /\ request.phase = "checking" => request.dates \subseteq CandidateDates(request.slot)

LEMMA RequestFacts ==
  ASSUME TypeOK
  PROVE  /\ request.phase \in {"none", "checking", "accepted"}
         /\ request.phase = "none" <=> request = NoRequest
         /\ request.phase # "none" =>
              /\ request \in [phase: {"checking", "accepted"}, slot: Bookings, dates: SUBSET Int]
              /\ request.slot \in Bookings /\ request.dates \subseteq Int
<1>1. request \in {NoRequest} \union
        [phase: {"checking", "accepted"}, slot: Bookings, dates: SUBSET Int]
  BY DEF TypeOK
<1>. QED  BY <1>1 DEF NoRequest

\* One answer about one date.
LEMMA JudgeStep ==
  ASSUME IInv, NEW windows, Judge(windows), failures' \in 0..MaxFailures
  PROVE  IInv'
<1>1. /\ request.phase = "checking"
      /\ request' = IF FitsWindow(request.slot, windows)
                    THEN [request EXCEPT !.phase = "accepted"]
                    ELSE [request EXCEPT !.dates = @ \ {NextDate}]
      /\ UNCHANGED <<zone, services, hours, timeOff, booked, now>>
  BY DEF Judge
<1>2. /\ request \in [phase: {"checking", "accepted"}, slot: Bookings, dates: SUBSET Int]
      /\ request.dates \subseteq CandidateDates(request.slot)
  BY <1>1, RequestFacts DEF IInv
<1>3. request' \in [phase: {"checking", "accepted"}, slot: Bookings, dates: SUBSET Int]
  <2>1. CASE FitsWindow(request.slot, windows)
    BY <1>1, <1>2, <2>1
  <2>2. CASE ~FitsWindow(request.slot, windows)
    BY <1>1, <1>2, <2>2
  <2>. QED  BY <2>1, <2>2
<1>4. request'.phase = "checking" => request'.slot = request.slot /\ request'.dates \subseteq request.dates
  <2>1. CASE FitsWindow(request.slot, windows)
    BY <1>1, <1>2, <2>1
  <2>2. CASE ~FitsWindow(request.slot, windows)
    BY <1>1, <1>2, <2>2
  <2>. QED  BY <2>1, <2>2
<1>5. TypeOK'
  BY <1>1, <1>3 DEF IInv, TypeOK
<1>6. request'.phase = "checking" => request'.dates \subseteq CandidateDates(request'.slot)
  <2>1. HAVE request'.phase = "checking"
  <2>2. request'.slot = request.slot /\ request'.dates \subseteq request.dates
    BY <1>4, <2>1
  <2>. QED  BY <1>2, <2>2
<1>. QED  BY <1>1, <1>5, <1>6 DEF IInv, CandidateDates

\* IInv is inductive.
THEOREM AvailabilityInductive == Spec => []IInv
<1>1. Init => IInv
  <2>1. ASSUME Init  PROVE TypeOK
    <3>1. hours \in [0..Week - 1 -> Shifts \union {Closed}]
      BY <2>1, AvailabilityAssumption DEF Init
    <3>. QED  BY <2>1, <3>1, AvailabilityAssumption DEF Init, TypeOK
  <2>. QED  BY <2>1, FS_EmptySet DEF Init, IInv, NoRequest
<1>2. IInv /\ [Next]_vars => IInv'
  <2>. SUFFICES ASSUME IInv, [Next]_vars  PROVE IInv'
    OBVIOUS
  <2>. USE AvailabilityAssumption
  <2>0. TypeOK /\ IsFiniteSet(timeOff)
    BY DEF IInv
  <2>1. CASE Tick
    BY <2>0, <2>1 DEF Tick, IInv, TypeOK, CandidateDates
  <2>2. ASSUME NEW z \in Zones, UpdateProfile(z)  PROVE IInv'
    BY <2>0, <2>2 DEF UpdateProfile, IInv, TypeOK, CandidateDates
  <2>3. ASSUME NEW d \in Durations, CreateService(d)  PROVE IInv'
    BY <2>0, <2>3 DEF CreateService, IInv, TypeOK, CandidateDates
  <2>4. ASSUME NEW day \in 0..Week - 1, NEW shift \in Shifts \union {Closed},
               UpsertWorkingHours(day, shift)
        PROVE  IInv'
    BY <2>0, <2>4 DEF UpsertWorkingHours, IInv, TypeOK, CandidateDates
  <2>5. ASSUME NEW b \in Blocks, CreateTimeOff(b)  PROVE IInv'
    <3>1. IsFiniteSet(timeOff \union {b})
      BY <2>0, FS_AddElement
    <3>. QED  BY <2>0, <2>5, <3>1 DEF CreateTimeOff, IInv, TypeOK, CandidateDates
  <2>6. ASSUME NEW b \in Blocks, DeleteTimeOff(b)  PROVE IInv'
    <3>1. IsFiniteSet(timeOff \ {b})
      BY <2>0, FS_RemoveElement
    <3>. QED  BY <2>0, <2>6, <3>1 DEF DeleteTimeOff, IInv, TypeOK, CandidateDates
  <2>7. ASSUME NEW slot \in Bookings, BeginRequest(slot)  PROVE IInv'
    <3>1. request' = [phase |-> "checking", slot |-> slot, dates |-> CandidateDates(slot)]
      BY <2>7 DEF BeginRequest
    <3>2. CandidateDates(slot) \subseteq Int
      <4>1. slot.start \in Int /\ Day \in Nat \ {0}
        OBVIOUS
      <4>. QED  BY <4>1 DEF CandidateDates
    <3>3. request' \in [phase: {"checking", "accepted"}, slot: Bookings, dates: SUBSET Int]
      BY <3>1, <3>2
    <3>4. TypeOK'
      BY <2>0, <2>7, <3>3 DEF BeginRequest, TypeOK
    <3>5. request'.dates = CandidateDates(slot) /\ request'.slot = slot
      BY <3>1
    <3>. QED  BY <2>0, <2>7, <3>4, <3>5 DEF BeginRequest, IInv, CandidateDates
  <2>8. ASSUME NEW slot \in Bookings, CancelBooking(slot)  PROVE IInv'
    BY <2>0, <2>8 DEF CancelBooking, IInv, TypeOK, CandidateDates
  <2>9. CASE CheckDate
    BY <2>0, <2>9, JudgeStep DEF CheckDate, TypeOK
  <2>10. CASE CheckDateWithoutTimeOff
    <3>1. failures' \in 0..MaxFailures
      BY <2>0, <2>10 DEF CheckDateWithoutTimeOff, FailRead, TypeOK
    <3>. QED  BY <2>10, <3>1, JudgeStep DEF CheckDateWithoutTimeOff
  <2>11. CASE CheckDateWithoutProfile
    <3>1. failures' \in 0..MaxFailures
      BY <2>0, <2>11 DEF CheckDateWithoutProfile, FailRead, TypeOK
    <3>. QED  BY <2>11, <3>1, JudgeStep DEF CheckDateWithoutProfile
  <2>12. CASE CheckDateFails
    <3>1. failures' \in 0..MaxFailures
      BY <2>0, <2>12 DEF CheckDateFails, FailRead, TypeOK
    <3>. QED  BY <2>12, <3>1, JudgeStep DEF CheckDateFails
  <2>13. CASE RefuseRequest
    BY <2>0, <2>13 DEF RefuseRequest, IInv, TypeOK, NoRequest
  <2>14. CASE InsertBooking
    <3>1. request.slot \in Bookings
      BY <2>0, <2>14, RequestFacts DEF InsertBooking
    <3>2. booked' \subseteq Bookings
      BY <2>0, <2>14, <3>1 DEF InsertBooking, TypeOK
    <3>. QED  BY <2>0, <2>14, <3>2 DEF InsertBooking, IInv, TypeOK, NoRequest
  <2>15. CASE UNCHANGED vars
    BY <2>0, <2>15 DEF vars, IInv, TypeOK, CandidateDates
  <2>. QED  BY <2>1, <2>2, <2>3, <2>4, <2>5, <2>6, <2>7, <2>8, <2>9, <2>10, <2>11, <2>12, <2>13,
               <2>14, <2>15 DEF Next
<1>. QED  BY <1>1, <1>2, PTL DEF Spec

\* The state keeps its types.
THEOREM AvailabilityTypes == Spec => []TypeOK
<1>1. IInv => TypeOK
  BY DEF IInv
<1>. QED  BY <1>1, AvailabilityInductive, PTL

\* A shift, in whichever zone, is an interval.
LEMMA ShiftFacts ==
  ASSUME TypeOK, NEW z \in Zones, NEW date \in Int
  PROVE  /\ Midnight(date, z) \in Int
         /\ ShiftIn(z, date) \in Interval
         /\ IsWorking(date) => ShiftIn(z, date).start < ShiftIn(z, date).end
         /\ Midnight(date, z) <= ShiftIn(z, date).start
         /\ ShiftIn(z, date).end <= Midnight(date, z) + Day
<1>1. Weekday(date) \in 0..Week - 1
  BY AvailabilityAssumption DEF Weekday
<1>2. hours[Weekday(date)] \in Shifts \union {Closed}
  BY <1>1 DEF TypeOK
<1>3. Day \in Nat \ {0} /\ z \in Int
  BY AvailabilityAssumption
<1>4. Midnight(date, z) \in Int
  BY <1>3 DEF Midnight
<1>. DEFINE s == hours[Weekday(date)]
<1>5. /\ s.start \in 0..Day /\ s.end \in 0..Day
      /\ s # Closed => s.start < s.end
  BY <1>2, <1>3, AvailabilityAssumption DEF Closed
<1>6. /\ ShiftIn(z, date).start = Midnight(date, z) + s.start
      /\ ShiftIn(z, date).end = Midnight(date, z) + s.end
      /\ ShiftIn(z, date) = [start |-> Midnight(date, z) + s.start, end |-> Midnight(date, z) + s.end]
  BY DEF ShiftIn
<1>7. IsWorking(date) => s # Closed
  BY DEF IsWorking
<1>. HIDE DEF s
<1>. QED  BY <1>3, <1>4, <1>5, <1>6, <1>7 DEF Interval

\* The UTC date of an instant lies within a day of every local date it is in.
LEMMA CloseDates ==
  ASSUME NEW D \in Nat \ {0}, NEW t \in Int, NEW d \in Int, (d - 1) * D < t, t < (d + 2) * D
  PROVE  t \div D \in {d - 1, d, d + 1}
  OBVIOUS

\* validateBookingWithinAvailability looks at every date on which a slot could be.
LEMMA CandidatesSuffice ==
  ASSUME NEW z \in Zones, NEW date \in Int, NEW slot, slot.start \in Int,
         Midnight(date, z) <= slot.start, slot.start < Midnight(date, z) + Day
  PROVE  date \in CandidateDates(slot)
<1>. DEFINE q == slot.start \div Day
<1>0. Day \in Nat \ {0} /\ z \in Int /\ -Day < z /\ z < Day
  BY AvailabilityAssumption
<1>1. (date - 1) * Day < slot.start /\ slot.start < (date + 2) * Day
  <2>1. date * Day \in Int /\ (date - 1) * Day = date * Day - Day
        /\ (date + 2) * Day = date * Day + 2 * Day
    BY <1>0
  <2>2. date * Day - z <= slot.start /\ slot.start < date * Day - z + Day
    BY DEF Midnight
  <2>. DEFINE x == date * Day
  <2>. HIDE DEF x
  <2>3. x \in Int /\ x - Day < slot.start /\ slot.start < x + 2 * Day
    BY <1>0, <2>1, <2>2 DEF x
  <2>. QED  BY <2>1, <2>3 DEF x
<1>2. q \in {date - 1, date, date + 1}
  BY <1>0, <1>1, CloseDates
<1>. HIDE DEF q
<1>3. \E i \in {-1, 0, 1} : date = q + i
  <2>1. CASE q = date - 1
    BY <2>1
  <2>2. CASE q = date
    BY <2>2
  <2>3. CASE q = date + 1
    BY <2>3
  <2>. QED  BY <1>2, <2>1, <2>2, <2>3
<1>. QED  BY <1>3 DEF CandidateDates, q

\* The windows of a date, taken in whichever zone.
LEMMA FreeFacts ==
  ASSUME IInv, NEW z \in Zones, NEW date \in Int, IsWorking(date)
  PROVE  /\ SubtractBlocks(ShiftIn(z, date)) \in Seq(Interval)
         /\ Apart(SubtractBlocks(ShiftIn(z, date)))
         /\ Between(SubtractBlocks(ShiftIn(z, date)), ShiftIn(z, date).start, ShiftIn(z, date).end)
         /\ \A t \in Int : Covers(SubtractBlocks(ShiftIn(z, date)), t)
              <=> At(t, ShiftIn(z, date)) /\ \A b \in timeOff : ~At(t, b)
<1>. DEFINE base == ShiftIn(z, date)
<1>1. /\ IsFiniteSet(timeOff) /\ timeOff \subseteq Interval
      /\ \A b \in timeOff : b.start < b.end
  BY AvailabilityAssumption DEF IInv, TypeOK, Interval
<1>2. base \in Interval /\ base.start < base.end
  BY ShiftFacts DEF IInv
<1>. HIDE DEF base
<1>3. /\ SubtractBlocks(base) \in Seq(Interval) /\ Apart(SubtractBlocks(base))
      /\ Between(SubtractBlocks(base), base.start, base.end)
      /\ \A t \in Int : Covers(SubtractBlocks(base), t)
           <=> At(t, base) /\ \A b \in timeOff : ~At(t, b)
  BY <1>1, <1>2, SubtractFacts
<1>. QED  BY <1>3 DEF base

LEMMA WindowFacts ==
  ASSUME IInv, NEW z \in Zones, NEW date \in Int, NEW w \in WindowsIn(z, date)
  PROVE  /\ IsWorking(date)
         /\ w \in Interval
         /\ ShiftIn(z, date).start <= w.start /\ w.end <= ShiftIn(z, date).end
         /\ SubtractBlocks(ShiftIn(z, date)) # <<>> =>
              \A b \in timeOff, t \in Int : At(t, w) => ~At(t, b)
<1>. DEFINE base == ShiftIn(z, date)
            free == SubtractBlocks(base)
<1>1. IsWorking(date)
  BY DEF WindowsIn
<1>2. /\ free \in Seq(Interval) /\ Between(free, base.start, base.end)
      /\ \A t \in Int : Covers(free, t) <=> At(t, base) /\ \A b \in timeOff : ~At(t, b)
  BY <1>1, FreeFacts
<1>3. base \in Interval
  BY ShiftFacts DEF IInv
<1>4. free # <<>> => w \in ToSet(free)
  BY <1>1 DEF WindowsIn
<1>5. free = <<>> => w = base
  BY <1>1 DEF WindowsIn
<1>. HIDE DEF base, free
<1>6. CASE free # <<>>
  <2>1. PICK k \in DOMAIN free : free[k] = w
    BY <1>4, <1>6 DEF ToSet
  <2>2. w \in Interval /\ base.start <= w.start /\ w.end <= base.end
    BY <1>2, <2>1 DEF Between
  <2>3. ASSUME NEW b \in timeOff, NEW t \in Int, At(t, w)  PROVE ~At(t, b)
    <3>1. Covers(free, t)
      BY <2>1, <2>3 DEF Covers
    <3>. QED  BY <1>2, <3>1
  <2>. QED  BY <1>1, <2>2, <2>3 DEF base, free
<1>7. CASE free = <<>>
  BY <1>1, <1>3, <1>5, <1>7 DEF base, free, Interval
<1>. QED  BY <1>6, <1>7

------------------------------------------------------------------------------
(* The theorems.                                                            *)

\* What windows_utc of an answer says is the shift less the time off, instant
\* by instant, and its windows are in order, apart and not empty: for the loops
\* of subtractBlocks on any number of blocks.
THEOREM SubtractionIsExact == Spec => []WindowsAreTheShiftLessTimeOff
<1>1. IInv => WindowsAreTheShiftLessTimeOff
  <2>. SUFFICES ASSUME IInv, NEW date \in Dates, IsWorking(date)
                PROVE  /\ UNION {Instants(w) : w \in ToSet(WindowsUTC(date))}
                            = {t \in Instants(Shift(date)) : \A b \in timeOff : t \notin Instants(b)}
                       /\ \A i \in DOMAIN WindowsUTC(date) :
                            WindowsUTC(date)[i].start < WindowsUTC(date)[i].end
                       /\ \A i, j \in DOMAIN WindowsUTC(date) :
                            i < j => WindowsUTC(date)[i].end < WindowsUTC(date)[j].start
    BY DEF WindowsAreTheShiftLessTimeOff
  <2>. DEFINE base == Shift(date)
              windows == WindowsUTC(date)
  <2>1. date \in Int /\ zone \in Zones
    BY AvailabilityAssumption DEF Dates, IInv, TypeOK
  <2>2. /\ windows \in Seq(Interval) /\ Apart(windows)
        /\ \A t \in Int : Covers(windows, t) <=> At(t, base) /\ \A b \in timeOff : ~At(t, b)
    BY <2>1, FreeFacts DEF WindowsUTC, Shift
  <2>3. base \in Interval
    BY <2>1, ShiftFacts DEF Shift, IInv
  <2>4. timeOff \subseteq Interval
    BY AvailabilityAssumption DEF IInv, TypeOK, Interval
  <2>. HIDE DEF base, windows
  <2>5. ASSUME NEW i \in Interval, NEW t  PROVE t \in Instants(i) <=> t \in Int /\ At(t, i)
    BY DEF Instants, At, Interval
  <2>6. \A k \in DOMAIN windows : windows[k] \in Interval
    BY <2>2
  <2>7. ASSUME NEW t
        PROVE  t \in UNION {Instants(w) : w \in ToSet(windows)} <=> t \in Int /\ Covers(windows, t)
    <3>1. ToSet(windows) = {windows[k] : k \in DOMAIN windows}
      BY DEF ToSet
    <3>2. t \in UNION {Instants(w) : w \in ToSet(windows)}
            <=> \E k \in DOMAIN windows : t \in Instants(windows[k])
      BY <3>1
    <3>. QED  BY <2>5, <2>6, <3>2 DEF Covers
  <2>8. ASSUME NEW t
        PROVE  t \in {u \in Instants(base) : \A b \in timeOff : u \notin Instants(b)}
                 <=> t \in Int /\ At(t, base) /\ \A b \in timeOff : ~At(t, b)
    BY <2>3, <2>4, <2>5
  <2>9. UNION {Instants(w) : w \in ToSet(windows)}
          = {t \in Instants(base) : \A b \in timeOff : t \notin Instants(b)}
    BY <2>2, <2>7, <2>8
  <2>. QED  BY <2>2, <2>9 DEF Apart, base, windows
<1>. QED  BY <1>1, AvailabilityInductive, PTL

\* Every slot that Slots offers passes validateBookingWithinAvailability, and
\* meets no booked appointment: whichever zone the business is in, the local
\* date is one of the three UTC dates around the start.
THEOREM OffersAreBookable == Spec => []OfferedIsBookable
<1>1. IInv => OfferedIsBookable
  <2>. SUFFICES ASSUME IInv, NEW date \in Dates, NEW d \in DurationsNow, NEW slot \in Slots(date, d)
                PROVE  WouldAccept(slot) /\ \A b \in booked : ~Overlaps(slot, b)
    BY DEF OfferedIsBookable
  <2>1. date \in Int /\ zone \in Zones
    BY AvailabilityAssumption DEF Dates, IInv, TypeOK
  <2>2. d \in Nat \ {0}
    BY AvailabilityAssumption DEF DurationsNow, IInv, TypeOK
  <2>a. PICK w \in Windows(date) : \E t \in AvailableSlots(w, d) : slot = Lasting(d, t)
    BY DEF Slots
  <2>3. PICK t \in AvailableSlots(w, d) : slot = Lasting(d, t)
    BY <2>a
  <2>. DEFINE base == ShiftIn(zone, date)
  <2>4. w \in Interval /\ base.start <= w.start /\ w.end <= base.end
    BY <2>1, WindowFacts DEF Windows
  <2>5. w.start \in Int /\ w.end \in Int
    BY <2>4 DEF Interval
  <2>6. t \in w.start .. w.end - d /\ \A b \in booked : ~Overlaps(Lasting(d, t), b)
    BY DEF AvailableSlots
  <2>7. /\ t \in Int /\ w.start <= t /\ t + d <= w.end
        /\ slot.start = t /\ slot.end = t + d
    BY <2>2, <2>3, <2>5, <2>6 DEF Lasting
  <2>8. /\ Midnight(date, zone) \in Int /\ base \in Interval
        /\ Midnight(date, zone) <= base.start /\ base.end <= Midnight(date, zone) + Day
    BY <2>1, ShiftFacts DEF IInv
  <2>. HIDE DEF base
  <2>9. base.start \in Int /\ base.end \in Int /\ Day \in Nat
    BY <2>8, AvailabilityAssumption DEF Interval
  <2>10. Midnight(date, zone) <= slot.start /\ slot.start < Midnight(date, zone) + Day
    BY <2>2, <2>4, <2>5, <2>7, <2>8, <2>9
  <2>11. date \in CandidateDates(slot)
    BY <2>1, <2>7, <2>10, CandidatesSuffice
  <2>12. FitsWindow(slot, Windows(date))
    BY <2>3, <2>7 DEF FitsWindow, Inside
  <2>. QED  BY <2>3, <2>6, <2>11, <2>12 DEF WouldAccept
<1>. QED  BY <1>1, AvailabilityInductive, PTL

\* What one answer accepts, were it the answer of the business's zone or, after
\* a failed read, of UTC.
LEMMA FitsAreOpen ==
  ASSUME IInv, NEW z \in Zones, NEW date \in Int, NEW slot \in Bookings,
         FitsWindow(slot, WindowsIn(z, date))
  PROVE  /\ IsWorking(date)
         /\ Inside(slot, ShiftIn(z, date))
         /\ SubtractBlocks(ShiftIn(z, date)) # <<>> => \A b \in timeOff : ~Overlaps(slot, b)
<1>. DEFINE base == ShiftIn(z, date)
<1>1. PICK w \in WindowsIn(z, date) : Inside(slot, w)
  BY DEF FitsWindow
<1>2. /\ IsWorking(date) /\ w \in Interval
      /\ base.start <= w.start /\ w.end <= base.end
      /\ SubtractBlocks(base) # <<>> => \A b \in timeOff, t \in Int : At(t, w) => ~At(t, b)
  BY WindowFacts
<1>3. base \in Interval
  BY ShiftFacts DEF IInv
<1>. HIDE DEF base
<1>4. /\ slot.start \in Int /\ slot.end \in Int /\ slot.start < slot.end
      /\ w.start \in Int /\ w.end \in Int /\ base.start \in Int /\ base.end \in Int
      /\ w.start <= slot.start /\ slot.end <= w.end
  BY <1>1, <1>2, <1>3, AvailabilityAssumption DEF Interval, Inside
<1>5. Inside(slot, base)
  BY <1>2, <1>4 DEF Inside
<1>6. ASSUME SubtractBlocks(base) # <<>>, NEW b \in timeOff  PROVE ~Overlaps(slot, b)
  <2>1. b.start \in Int /\ b.end \in Int /\ b.start < b.end
    BY AvailabilityAssumption DEF IInv, TypeOK
  <2>. DEFINE t == IF slot.start < b.start THEN b.start ELSE slot.start
  <2>2. t \in Int
    BY <2>1, <1>4
  <2>3. Overlaps(slot, b) => At(t, w) /\ At(t, b)
    BY <2>1, <1>4 DEF Overlaps, At
  <2>. HIDE DEF t
  <2>. QED  BY <1>2, <1>6, <2>2, <2>3
<1>. QED  BY <1>2, <1>5, <1>6 DEF base

\* The date a request asks for next is one of its candidates.
LEMMA NextIsCandidate ==
  ASSUME IInv, request.phase = "checking", request.dates # {}
  PROVE  NextDate \in CandidateDates(request.slot) /\ NextDate \in Int /\ request.slot \in Bookings
<1>1. /\ request.slot \in Bookings /\ request.dates \subseteq Int
      /\ request.dates \subseteq CandidateDates(request.slot)
  BY RequestFacts DEF IInv
<1>. DEFINE q == request.slot.start \div Day
<1>2. q \in Int /\ CandidateDates(request.slot) = {q + i : i \in {-1, 0, 1}}
  <2>1. request.slot.start \in Int /\ Day \in Nat \ {0}
    BY <1>1, AvailabilityAssumption
  <2>. QED  BY <2>1 DEF CandidateDates
<1>. HIDE DEF q
<1>3. request.dates \subseteq {q - 1, q, q + 1}
  BY <1>1, <1>2
<1>4. \E d \in request.dates : \A e \in request.dates : d <= e
  <2>1. CASE q - 1 \in request.dates
    BY <1>2, <1>3, <2>1
  <2>2. CASE q - 1 \notin request.dates /\ q \in request.dates
    BY <1>2, <1>3, <2>2
  <2>3. CASE q - 1 \notin request.dates /\ q \notin request.dates
    BY <1>2, <1>3, <2>3
  <2>. QED  BY <2>1, <2>2, <2>3
<1>5. NextDate \in request.dates
  BY <1>4 DEF NextDate
<1>. QED  BY <1>1, <1>5

\* A request is accepted for an interval that is open, as the answer that
\* accepts it has read the hours and the time off.
THEOREM AcceptanceIsOpen == Spec => AcceptedIsOpen
<1>. DEFINE Accepts == request.phase = "checking" /\ request'.phase = "accepted"
            Open == \E date \in CandidateDates(request.slot) :
              /\ IsWorking(date)
              /\ \E z \in {zone} \union (IF failures' = failures THEN {} ELSE {UTC}) :
                   Inside(request.slot, ShiftIn(z, date))
              /\ failures' = failures /\ WindowsUTC(date) # <<>> =>
                   \A b \in timeOff : ~Overlaps(request.slot, b)
<1>1. IInv /\ [Next]_vars => [Accepts => Open]_vars
  <2>. SUFFICES ASSUME IInv, [Next]_vars, Accepts  PROVE Open
    OBVIOUS
  <2>0. zone \in Zones /\ UTC \in Zones /\ failures \in Nat
    BY AvailabilityAssumption DEF IInv, TypeOK
  <2>a. request.phase = "checking" /\ request'.phase = "accepted" /\ request' # request
    OBVIOUS
  <2>1. ASSUME NEW windows, Judge(windows)
        PROVE  /\ FitsWindow(request.slot, windows)
               /\ request.dates # {}
    <3>1. /\ request.dates # {}
          /\ ~FitsWindow(request.slot, windows) =>
               request' = [request EXCEPT !.dates = @ \ {NextDate}]
      BY <2>1 DEF Judge
    <3>2. [request EXCEPT !.dates = @ \ {NextDate}].phase = request.phase
      <4>1. request \in [phase: {"checking", "accepted"}, slot: Bookings, dates: SUBSET Int]
        BY <2>a, RequestFacts DEF IInv
      <4>. QED  BY <4>1
    <3>. QED  BY <2>a, <3>1, <3>2
  <2>2. CASE CheckDate
    <3>1. Judge(WindowsIn(zone, NextDate)) /\ failures' = failures
      BY <2>2 DEF CheckDate, Windows
    <3>2. FitsWindow(request.slot, WindowsIn(zone, NextDate)) /\ request.dates # {}
      BY <2>1, <3>1
    <3>3. NextDate \in CandidateDates(request.slot) /\ NextDate \in Int /\ request.slot \in Bookings
      BY <2>a, <3>2, NextIsCandidate
    <3>4. /\ IsWorking(NextDate) /\ Inside(request.slot, ShiftIn(zone, NextDate))
          /\ WindowsUTC(NextDate) # <<>> => \A b \in timeOff : ~Overlaps(request.slot, b)
      BY <2>0, <3>2, <3>3, FitsAreOpen DEF WindowsUTC, Shift
    <3>. QED  BY <3>3, <3>4
  <2>3. CASE CheckDateWithoutTimeOff
    <3>1. /\ Judge(IF IsWorking(NextDate) THEN {Shift(NextDate)} ELSE {})
          /\ failures' = failures + 1
      BY <2>3 DEF CheckDateWithoutTimeOff, FailRead
    <3>2. /\ FitsWindow(request.slot, IF IsWorking(NextDate) THEN {Shift(NextDate)} ELSE {})
          /\ request.dates # {}
      BY <2>1, <3>1
    <3>3. NextDate \in CandidateDates(request.slot)
      BY <2>a, <3>2, NextIsCandidate
    <3>4. IsWorking(NextDate) /\ Inside(request.slot, ShiftIn(zone, NextDate))
      BY <3>2 DEF FitsWindow, Shift
    <3>5. failures' # failures
      BY <2>0, <3>1
    <3>. QED  BY <3>3, <3>4, <3>5
  <2>4. CASE CheckDateWithoutProfile
    <3>1. Judge(WindowsIn(UTC, NextDate)) /\ failures' = failures + 1
      BY <2>4 DEF CheckDateWithoutProfile, FailRead
    <3>2. FitsWindow(request.slot, WindowsIn(UTC, NextDate)) /\ request.dates # {}
      BY <2>1, <3>1
    <3>3. NextDate \in CandidateDates(request.slot) /\ NextDate \in Int /\ request.slot \in Bookings
      BY <2>a, <3>2, NextIsCandidate
    <3>4. IsWorking(NextDate) /\ Inside(request.slot, ShiftIn(UTC, NextDate))
      BY <2>0, <3>2, <3>3, FitsAreOpen
    <3>5. failures' # failures
      BY <2>0, <3>1
    <3>. QED  BY <3>3, <3>4, <3>5
  <2>5. CASE CheckDateFails
    BY <2>1, <2>5 DEF CheckDateFails, FitsWindow
  <2>6. CASE \E slot \in Bookings : BeginRequest(slot)
    BY <2>a, <2>6 DEF BeginRequest, NoRequest
  <2>7. CASE RefuseRequest \/ InsertBooking
    BY <2>a, <2>7 DEF RefuseRequest, InsertBooking, NoRequest
  <2>8. CASE \/ Tick
             \/ \E z \in Zones : UpdateProfile(z)
             \/ \E d \in Durations : CreateService(d)
             \/ \E day \in 0..Week - 1, shift \in Shifts \union {Closed} : UpsertWorkingHours(day, shift)
             \/ \E b \in Blocks : CreateTimeOff(b) \/ DeleteTimeOff(b)
             \/ \E slot \in Bookings : CancelBooking(slot)
             \/ UNCHANGED vars
    BY <2>a, <2>8 DEF Tick, UpdateProfile, CreateService, UpsertWorkingHours, CreateTimeOff,
         DeleteTimeOff, CancelBooking, vars
  <2>. QED  BY <2>2, <2>3, <2>4, <2>5, <2>6, <2>7, <2>8 DEF Next
<1>2. AcceptedIsOpen <=> [][Accepts => Open]_vars
  BY DEF AcceptedIsOpen
<1>. HIDE DEF Accepts, Open
<1>. QED  BY <1>1, <1>2, AvailabilityInductive, PTL DEF Spec

===============================================================================
