------------------------- MODULE SegmentPlanProofs -------------------------
(***************************************************************************)
(* Facts about module SegmentPlan: what the plan of a fresh download is,   *)
(* what snapshots keep, and what the progress counter counts.              *)
(***************************************************************************)
EXTENDS SegmentPlan, FiniteSets, FiniteSetTheorems, WellFoundedInduction, TLAPS

\* A segment keeps its type when one of its fields is replaced.
LEMMA SegmentFields ==
  ASSUME NEW s \in SegmentRec
  PROVE  /\ \A b \in BOOLEAN : [s EXCEPT !.active = b] \in SegmentRec
         /\ \A d \in Nat : [s EXCEPT !.done = d] \in SegmentRec
         /\ \A e \in Nat : [s EXCEPT !.end = e] \in SegmentRec
BY DEF SegmentRec

\* Snapshots and their restoration are sequences of the right records, with
\* the same domain.
LEMMA SnapshotsType ==
  ASSUME NEW plan \in Seq(SegmentRec)
  PROVE  /\ Snapshots(plan) \in Seq(SnapshotRec)
         /\ DOMAIN Snapshots(plan) = DOMAIN plan
<1>1. \A i \in DOMAIN plan : plan[i] \in SegmentRec
  OBVIOUS
<1>2. \A i \in DOMAIN plan :
        [start |-> plan[i].start, end |-> plan[i].end, done |-> plan[i].done]
          \in SnapshotRec
  BY <1>1 DEF SegmentRec, SnapshotRec
<1>3. QED
  BY <1>2 DEF Snapshots

\* The plan read back from a control file is a plan, with as many segments.
LEMMA FromSnapshotsType ==
  ASSUME NEW snaps \in Seq(SnapshotRec)
  PROVE  /\ FromSnapshots(snaps) \in Seq(SegmentRec)
         /\ DOMAIN FromSnapshots(snaps) = DOMAIN snaps
<1>1. \A i \in DOMAIN snaps : snaps[i] \in SnapshotRec
  OBVIOUS
<1>2. \A i \in DOMAIN snaps :
        [start |-> snaps[i].start, end |-> snaps[i].end, done |-> snaps[i].done,
         active |-> FALSE] \in SegmentRec
  BY <1>1 DEF SegmentRec, SnapshotRec
<1>3. QED
  BY <1>2 DEF FromSnapshots

\* Division with remainder.
LEMMA DivMod ==
  \A a \in Nat, d \in Nat \ {0} :
    /\ a = d * (a \div d) + (a % d)
    /\ a \div d \in Nat
    /\ (a % d) \in Nat
    /\ (a % d) < d
OBVIOUS

\* Multiplication is monotone.
LEMMA TimesMonotone ==
  ASSUME NEW i \in Nat, NEW j \in Nat, NEW b \in Nat, i <= j
  PROVE  i * b <= j * b
OBVIOUS

\* The arithmetic of an even split: count pieces, the first extra of them one
\* byte longer, begin at StartOf(i), in order, and end at total.
LEMMA EvenSplitArithmetic ==
  ASSUME NEW total \in Nat \ {0}, NEW n \in Nat, NEW minSplit \in Nat
  PROVE  LET count == EvenCount(total, n, minSplit)
             base  == total \div count
             extra == total % count
         IN  /\ count \in Nat \ {0} /\ base \in Nat \ {0} /\ extra \in Nat
             /\ extra < count /\ total = count * base + extra
<1> DEFINE d == Larger(minSplit, 1)
           m == Larger(total \div d, 1)
           count == EvenCount(total, n, minSplit)
           base == total \div count
<1>1. d \in Nat \ {0}
  BY DEF Larger
<1> HIDE DEF d
<1>2. total \div d \in Nat /\ total \div d <= total
  <2>1. /\ total = d * (total \div d) + (total % d)
        /\ total \div d \in Nat
        /\ (total % d) \in Nat
    BY <1>1, DivMod
  <2>2. 1 * (total \div d) <= d * (total \div d)
    BY <1>1, <2>1, TimesMonotone
  <2>3. QED
    BY <2>1, <2>2, <1>1
<1>3. m \in Nat /\ 1 <= m /\ m <= total
  BY <1>2 DEF Larger
<1>4. count \in Nat /\ 1 <= count /\ count <= total
  BY <1>3 DEF EvenCount, Larger, Smaller, d
<1> HIDE DEF count
<1>5. /\ total = count * base + (total % count)
      /\ base \in Nat
      /\ (total % count) \in Nat
      /\ (total % count) < count
  BY <1>4, DivMod
<1>6. 1 <= base
  <2>1. SUFFICES ASSUME base = 0 PROVE FALSE
    BY <1>5
  <2>2. count * base = 0
    BY <2>1, <1>4
  <2>3. QED
    BY <2>2, <1>5, <1>4
<1>7. QED
  <2>1. count \in Nat \ {0} /\ base \in Nat \ {0}
    BY <1>4, <1>5, <1>6
  <2>2. QED
    BY <2>1, <1>5, Zenon DEF count

\* The pieces of an even split begin in order, each at least base long.
LEMMA PieceStarts ==
  ASSUME NEW base \in Nat \ {0}, NEW extra \in Nat,
         NEW i \in Nat \ {0}, NEW j \in Nat, i <= j
  PROVE  /\ (i - 1) * base + Smaller(i - 1, extra) \in Nat
         /\ j * base + Smaller(j, extra) \in Nat
         /\ (i - 1) * base + Smaller(i - 1, extra) < j * base + Smaller(j, extra)
<1>1. (i - 1) * base \in Nat /\ j * base \in Nat
  OBVIOUS
<1>2. (i - 1) * base <= (j - 1) * base
  BY TimesMonotone
<1>3. (j - 1) * base = j * base - base
  OBVIOUS
<1>4. /\ Smaller(i - 1, extra) \in Nat
      /\ Smaller(j, extra) \in Nat
      /\ Smaller(i - 1, extra) <= Smaller(j, extra)
  BY DEF Smaller
<1>5. QED
  BY <1>1, <1>2, <1>3, <1>4

\* Every offset below total lies in one of count pieces.
LEMMA PieceOf ==
  ASSUME NEW base \in Nat \ {0}, NEW extra \in Nat, NEW count \in Nat \ {0},
         extra < count, NEW p \in Nat, p < count * base + extra
  PROVE  \E i \in 1 .. count :
           /\ (i - 1) * base + Smaller(i - 1, extra) <= p
           /\ p < i * base + Smaller(i, extra)
<1>1. CASE p < extra * (base + 1)
  <2> DEFINE b == base + 1
             q == p \div b
             r == p % b
  <2>1. b \in Nat \ {0}
    OBVIOUS
  <2>2. p = b * q + r /\ q \in Nat /\ r \in Nat /\ r < b
    BY <2>1, DivMod
  <2> HIDE DEF q, r
  <2>3. q < extra
    <3>1. SUFFICES ASSUME extra <= q PROVE FALSE
      BY <2>2
    <3>2. extra * b <= q * b
      BY <3>1, <2>1, <2>2, TimesMonotone
    <3>3. QED
      BY <3>2, <2>2, <2>1, <1>1
  <2> DEFINE i == q + 1
             lo == (i - 1) * base + Smaller(i - 1, extra)
             hi == i * base + Smaller(i, extra)
  <2>4. i \in 1 .. count
    BY <2>2, <2>3
  <2>5. /\ lo = q * base + q
        /\ hi = q * base + base + q + 1
        /\ q * base \in Nat
        /\ b * q = q * base + q
    <3>1. /\ i - 1 = q
          /\ Smaller(i - 1, extra) = q
          /\ Smaller(i, extra) = q + 1
      BY <2>2, <2>3 DEF Smaller
    <3>2. QED
      BY <3>1, <2>2
  <2>6. b = base + 1
    OBVIOUS
  <2> HIDE DEF b, lo, hi
  <2>7. lo <= p /\ p < hi
    BY <2>2, <2>5, <2>6
  <2> HIDE DEF i
  <2>8. /\ (i - 1) * base + Smaller(i - 1, extra) <= p
        /\ p < i * base + Smaller(i, extra)
    BY <2>7 DEF lo, hi
  <2>9. WITNESS i \in 1 .. count
  <2>10. QED
    BY <2>8
<1>2. CASE extra * (base + 1) <= p
  <2> DEFINE e == extra * (base + 1)
             q == (p - e) \div base
             r == (p - e) % base
             i == extra + q + 1
  <2>1. e \in Nat /\ e = extra * base + extra /\ p - e \in Nat
    BY <1>2
  <2> HIDE DEF e
  <2>2. p - e = base * q + r /\ q \in Nat /\ r \in Nat /\ r < base
    BY <2>1, DivMod
  <2> HIDE DEF q, r
  <2>3. extra + q < count
    <3>1. SUFFICES ASSUME count <= extra + q PROVE FALSE
      BY <2>2
    <3>2. count * base <= (extra + q) * base
      BY <3>1, <2>2, TimesMonotone
    <3>3. (extra + q) * base = extra * base + base * q
      BY <2>2
    <3>4. QED
      BY <3>2, <3>3, <2>1, <2>2
  <2>4. i - 1 = extra + q /\ i \in 1 .. count
    BY <2>2, <2>3
  <2>5. Smaller(i - 1, extra) = extra /\ Smaller(i, extra) = extra
    BY <2>2, <2>4 DEF Smaller
  <2>6. /\ (i - 1) * base = extra * base + base * q
        /\ i * base = extra * base + base * q + base
    BY <2>2, <2>4
  <2> HIDE DEF i
  <2>7. QED
    BY <2>1, <2>2, <2>4, <2>5, <2>6
<1>3. QED
  BY <1>1, <1>2

\* An even split is a plan of untouched segments that covers [0, total), each
\* offset once.
LEMMA SplitEvenSound ==
  ASSUME NEW total \in Nat \ {0}, NEW n \in Nat, NEW minSplit \in Nat
  PROVE  LET plan == SplitEven(total, n, minSplit)
         IN  /\ plan \in Seq(SegmentRec)
             /\ plan # << >>
             /\ \A i \in DOMAIN plan :
                  /\ plan[i].done = 0
                  /\ plan[i].active = FALSE
                  /\ plan[i].start <= plan[i].end
                  /\ plan[i].end < total
             /\ \A p \in 0 .. total - 1 :
                  /\ \E i \in DOMAIN plan : plan[i].start <= p /\ p <= plan[i].end
                  /\ \A i, j \in DOMAIN plan :
                       (/\ plan[i].start <= p /\ p <= plan[i].end
                        /\ plan[j].start <= p /\ p <= plan[j].end) => i = j
<1> DEFINE count == EvenCount(total, n, minSplit)
           base == total \div count
           extra == total % count
           StartOf(i) == (i - 1) * base + Smaller(i - 1, extra)
           plan == SplitEven(total, n, minSplit)
<1>1. /\ count \in Nat \ {0} /\ base \in Nat \ {0} /\ extra \in Nat
      /\ extra < count /\ total = count * base + extra
  BY EvenSplitArithmetic, Zenon
<1>2. plan = [i \in 1 .. count |-> NewSegment(StartOf(i), StartOf(i + 1) - 1)]
  BY DEF SplitEven
<1> HIDE DEF plan, count, base, extra
<1>3. \A i, j \in 1 .. count : i <= j =>
        /\ StartOf(i) \in Nat /\ StartOf(j + 1) \in Nat
        /\ StartOf(i) < StartOf(j + 1)
  <2> SUFFICES ASSUME NEW i \in 1 .. count, NEW j \in 1 .. count, i <= j
               PROVE  /\ StartOf(i) \in Nat /\ StartOf(j + 1) \in Nat
                      /\ StartOf(i) < StartOf(j + 1)
    OBVIOUS
  <2>1. i \in Nat \ {0} /\ j \in Nat /\ j + 1 - 1 = j
    BY <1>1
  <2>2. QED
    BY <1>1, <2>1, PieceStarts
<1>4. StartOf(count + 1) = total
  BY <1>1 DEF Smaller
<1>5. \A i, j \in 1 .. count : i < j => StartOf(i + 1) <= StartOf(j)
  <2> SUFFICES ASSUME NEW i \in 1 .. count, NEW j \in 1 .. count, i < j
               PROVE  StartOf(i + 1) <= StartOf(j)
    OBVIOUS
  <2>1. i \in Nat /\ j - 1 \in Nat /\ i <= j - 1 /\ i + 1 - 1 = i
    BY <1>1
  <2>2. i * base <= (j - 1) * base /\ i * base \in Nat /\ (j - 1) * base \in Nat
    BY <1>1, <2>1, TimesMonotone
  <2>3. /\ Smaller(i, extra) \in Nat /\ Smaller(j - 1, extra) \in Nat
        /\ Smaller(i, extra) <= Smaller(j - 1, extra)
    BY <1>1, <2>1 DEF Smaller
  <2>4. QED
    BY <2>1, <2>2, <2>3
<1>6. \A i \in 1 .. count : StartOf(i + 1) <= total
  <2> SUFFICES ASSUME NEW i \in 1 .. count PROVE StartOf(i + 1) <= total
    OBVIOUS
  <2>1. CASE i = count
    BY <2>1, <1>4, <1>1
  <2>2. CASE i < count
    <3>1. i + 1 \in 1 .. count /\ count \in 1 .. count
      BY <1>1, <2>2
    <3>2. StartOf(i + 1) < StartOf(count + 1) /\ StartOf(i + 1) \in Nat
      BY <3>1, <1>3
    <3>3. QED
      BY <3>2, <1>4
  <2>3. QED
    BY <2>1, <2>2, <1>1
<1>7. \A p \in 0 .. total - 1 : \E i \in 1 .. count :
        StartOf(i) <= p /\ p <= StartOf(i + 1) - 1
  <2> SUFFICES ASSUME NEW p \in 0 .. total - 1
               PROVE  \E i \in 1 .. count :
                        StartOf(i) <= p /\ p <= StartOf(i + 1) - 1
    OBVIOUS
  <2>1. p \in Nat /\ p < count * base + extra
    BY <1>1
  <2>2. PICK i \in 1 .. count :
          /\ (i - 1) * base + Smaller(i - 1, extra) <= p
          /\ p < i * base + Smaller(i, extra)
    BY <1>1, <2>1, PieceOf
  <2> DEFINE lo == (i - 1) * base + Smaller(i - 1, extra)
             hi == i * base + Smaller(i, extra)
  <2>3. StartOf(i) = lo /\ lo <= p
    BY <2>2
  <2>4. StartOf(i + 1) = hi /\ p < hi
    <3>1. i + 1 - 1 = i
      BY <1>1
    <3>2. StartOf(i + 1) = (i + 1 - 1) * base + Smaller(i + 1 - 1, extra)
      OBVIOUS
    <3>3. StartOf(i + 1) = hi
      BY <3>1, <3>2
    <3>4. p < hi
      BY <2>2
    <3>5. QED
      BY <3>3, <3>4
  <2>5. hi \in Nat
    BY <1>1 DEF Smaller
  <2> HIDE DEF lo, hi, StartOf
  <2>6. QED
    BY <2>3, <2>4, <2>5
<1> HIDE DEF StartOf
<1>8. /\ DOMAIN plan = 1 .. count
      /\ \A i \in 1 .. count :
           /\ plan[i].start = StartOf(i)
           /\ plan[i].end = StartOf(i + 1) - 1
           /\ plan[i].done = 0
           /\ plan[i].active = FALSE
           /\ plan[i] = NewSegment(StartOf(i), StartOf(i + 1) - 1)
  BY <1>2 DEF NewSegment
<1>9. \A i \in 1 .. count :
        /\ StartOf(i) \in Nat /\ StartOf(i + 1) \in Nat
        /\ StartOf(i) < StartOf(i + 1)
  BY <1>3, <1>1
<1>10. plan \in Seq(SegmentRec) /\ plan # << >>
  <2>1. \A i \in 1 .. count : plan[i] \in SegmentRec
    <3> SUFFICES ASSUME NEW i \in 1 .. count PROVE plan[i] \in SegmentRec
      OBVIOUS
    <3>1. StartOf(i) \in Nat /\ StartOf(i + 1) - 1 \in Nat
      BY <1>9
    <3>2. NewSegment(StartOf(i), StartOf(i + 1) - 1) \in SegmentRec
      BY <3>1 DEF NewSegment, SegmentRec
    <3>3. QED
      BY <3>2, <1>8
  <2>2. plan = [i \in 1 .. count |-> plan[i]]
    BY <1>2
  <2>3. plan \in Seq(SegmentRec)
    BY <2>1, <2>2, <1>1
  <2>4. 1 \in DOMAIN plan
    BY <1>8, <1>1
  <2>5. QED
    BY <2>3, <2>4
<1>11. \A i \in DOMAIN plan :
         /\ plan[i].done = 0
         /\ plan[i].active = FALSE
         /\ plan[i].start <= plan[i].end
         /\ plan[i].end < total
  BY <1>8, <1>9, <1>6, <1>1
<1>12. \A p \in 0 .. total - 1 :
         \E i \in DOMAIN plan : plan[i].start <= p /\ p <= plan[i].end
  BY <1>7, <1>8
<1>13. ASSUME NEW p \in 0 .. total - 1, NEW i \in DOMAIN plan,
              NEW j \in DOMAIN plan,
              plan[i].start <= p /\ p <= plan[i].end,
              plan[j].start <= p /\ p <= plan[j].end
       PROVE  i = j
  <2>1. i \in 1 .. count /\ j \in 1 .. count
    BY <1>8
  <2>2. /\ StartOf(i) <= p /\ p < StartOf(i + 1)
        /\ StartOf(j) <= p /\ p < StartOf(j + 1)
    BY <1>8, <1>9, <1>13
  <2>3. ~(i < j) /\ ~(j < i)
    BY <1>5, <1>9, <2>1, <2>2
  <2>4. QED
    BY <2>1, <2>3, <1>1
<1>14. QED
  BY <1>10, <1>11, <1>12, <1>13, Zenon DEF plan

---------------------------------------------------------------------------
(* What the progress counter adds up. *)

\* What SumFunctionOnSet stands for: it takes the elements of the set out one
\* by one, in the order in which CHOOSE names them.
LEMMA SumUnfolds ==
  ASSUME NEW f, NEW S
  PROVE  SumFunctionOnSet(f, S) =
           (CHOOSE iter : iter = [s \in SUBSET S |->
              IF s = {} THEN 0
              ELSE f[CHOOSE x \in s : TRUE] + iter[s \ {CHOOSE x \in s : TRUE}]])[S]
BY DEF SumFunctionOnSet, FoldFunctionOnSet, MapThenFoldSet

\* When f counts parts that do not meet, its sum is the size of their union.
LEMMA SumOfParts ==
  ASSUME NEW S, IsFiniteSet(S), NEW W, IsFiniteSet(W), NEW D \in [S -> SUBSET W],
         \A x, y \in S : x # y => D[x] \cap D[y] = {},
         NEW f, \A x \in S : f[x] = Cardinality(D[x])
  PROVE  SumFunctionOnSet(f, S) = Cardinality(UNION {D[x] : x \in S})
<1> DEFINE Joined(s) == UNION {D[x] : x \in s}
           Size(s) == Cardinality(Joined(s))
           First(s) == CHOOSE x \in s : TRUE
           Fold(g) == [s \in SUBSET S |->
                         IF s = {} THEN 0 ELSE f[First(s)] + g[s \ {First(s)}]]
           sizes == [s \in SUBSET S |-> Size(s)]
           iter == CHOOSE g : g = Fold(g)
<1>1. Size({}) = 0
  <2>1. UNION {D[x] : x \in {}} = {}
    OBVIOUS
  <2>2. QED
    BY <2>1, FS_EmptySet
<1>2. ASSUME NEW s \in SUBSET S, s # {}
      PROVE  /\ First(s) \in s
             /\ Size(s) = f[First(s)] + Size(s \ {First(s)})
  <2>1. First(s) \in s
    BY <1>2
  <2> DEFINE x == First(s)
  <2> HIDE DEF First
  <2>2. f[x] = Cardinality(D[x])
    BY <2>1
  <2>3. Size(s) = Cardinality(D[x]) + Size(s \ {x})
    <3> DEFINE rest == Joined(s \ {x})
    <3>1. Joined(s) = D[x] \cup rest /\ D[x] \cap rest = {}
      BY <2>1
    <3>2. D[x] \in SUBSET W /\ rest \in SUBSET W
      BY <2>1
    <3> HIDE DEF x, Joined, rest
    <3>3. IsFiniteSet(D[x]) /\ IsFiniteSet(rest)
      BY <3>2, FS_Subset
    <3>4. Cardinality(D[x] \cup rest) =
            Cardinality(D[x]) + Cardinality(rest) - Cardinality(D[x] \cap rest)
      BY <3>3, FS_Union
    <3>5. Cardinality(D[x] \cap rest) = 0
      BY <3>1, FS_EmptySet, Zenon
    <3>6. Cardinality(D[x]) \in Nat /\ Cardinality(rest) \in Nat
      BY <3>3, FS_CardinalityType
    <3>7. Cardinality(D[x] \cup rest) = Cardinality(D[x]) + Cardinality(rest)
      BY <3>4, <3>5, <3>6
    <3>8. QED
      BY <3>1, <3>7, Zenon DEF rest
  <2> HIDE DEF Size
  <2>4. QED
    BY <2>1, <2>2, <2>3
<1> HIDE DEF Size, Joined, First
<1>3. sizes = Fold(sizes)
  <2>1. ASSUME NEW s \in SUBSET S
        PROVE  sizes[s] = IF s = {} THEN 0
                          ELSE f[First(s)] + sizes[s \ {First(s)}]
    BY <1>1, <1>2
  <2>2. QED
    BY <2>1
<1>4. iter = Fold(iter)
  <2> HIDE DEF sizes, Fold
  <2>1. \E g : g = Fold(g)
    BY <1>3
  <2>2. QED
    BY <2>1
<1>5. SumFunctionOnSet(f, S) = iter[S]
  BY SumUnfolds DEF First
<1> HIDE DEF iter
<1>6. iter[S] = Size(S)
  <2> DEFINE Wrong == {s \in SUBSET S : iter[s] # Size(s)}
             Order == StrictSubsetOrdering(S)
  <2>1. SUFFICES ASSUME Wrong # {} PROVE FALSE
    OBVIOUS
  <2>2. IsWellFoundedOn(Order, SUBSET S)
    BY FS_StrictSubsetOrderingWellFounded, FS_FiniteSubsetsOfFinite
  <2>3. Wrong \subseteq SUBSET S
    OBVIOUS
  <2> HIDE DEF Wrong
  <2>4. PICK s \in Wrong : \A t \in Wrong : << t, s >> \notin Order
    BY <2>1, <2>2, <2>3, WFMin
  <2>5. s \in SUBSET S /\ iter[s] # Size(s)
    BY <2>4 DEF Wrong
  <2>6. iter[s] = IF s = {} THEN 0 ELSE f[First(s)] + iter[s \ {First(s)}]
    BY <1>4, <2>5
  <2>7. s # {}
    BY <2>5, <2>6, <1>1
  <2> DEFINE t == s \ {First(s)}
  <2>8. First(s) \in s /\ Size(s) = f[First(s)] + Size(t)
    BY <1>2, <2>5, <2>7
  <2>9. t \in SUBSET S /\ << t, s >> \in Order
    BY <2>5, <2>8 DEF StrictSubsetOrdering
  <2>10. iter[t] = Size(t)
    BY <2>4, <2>9 DEF Wrong
  <2>11. QED
    BY <2>5, <2>6, <2>7, <2>8, <2>10
<1>7. QED
  BY <1>5, <1>6 DEF Size, Joined

\* The bytes in [0, total) that a segment counts: from its start on, and not
\* past its end.
BytesOf(s, total) ==
  {p \in 0 .. total - 1 : s.start <= p /\ p < s.start + EffectiveDone(s)}

\* A segment that counts nothing behind total counts as many bytes as there are
\* in the set of those it has.
LEMMA SegmentCounts ==
  ASSUME NEW s \in SegmentRec, NEW total \in Nat, s.start <= s.end,
         s.done > 0 => Cursor(s) <= total
  PROVE  /\ IsFiniteSet(BytesOf(s, total))
         /\ EffectiveDone(s) \in Nat
         /\ EffectiveDone(s) = Cardinality(BytesOf(s, total))
         /\ \A p \in BytesOf(s, total) : s.start <= p /\ p <= s.end
<1> DEFINE first == s.start
           last == s.start + EffectiveDone(s) - 1
<1>1. /\ s.start \in Nat /\ s.end \in Nat /\ s.done \in Nat
      /\ EffectiveDone(s) \in Nat /\ EffectiveDone(s) <= s.done
      /\ s.start + EffectiveDone(s) <= s.end + 1
  BY DEF SegmentRec, EffectiveDone, SegLength
<1>2. EffectiveDone(s) > 0 => s.start + EffectiveDone(s) <= total
  BY <1>1 DEF Cursor
<1>3. BytesOf(s, total) = first .. last
  BY <1>1, <1>2 DEF BytesOf
<1>4. first \in Int /\ last \in Int
  BY <1>1
<1>5. /\ IsFiniteSet(first .. last)
      /\ Cardinality(first .. last) = IF first > last THEN 0 ELSE last - first + 1
  BY <1>4, FS_Interval
<1>6. (IF first > last THEN 0 ELSE last - first + 1) = EffectiveDone(s)
  BY <1>1
<1>7. \A p \in BytesOf(s, total) : s.start <= p /\ p <= s.end
  BY <1>1 DEF BytesOf
<1>8. QED
  BY <1>1, <1>3, <1>5, <1>6, <1>7

\* What the progress bar shows is the number of bytes the segments have, each
\* counted once: a plan in which no byte belongs to two segments counts none
\* twice, and so never more than there are.
THEOREM TotalDoneCounts ==
  ASSUME NEW plan \in Seq(SegmentRec), NEW total \in Nat,
         \A i \in DOMAIN plan :
           /\ plan[i].start <= plan[i].end
           /\ plan[i].done > 0 => Cursor(plan[i]) <= total,
         \A p \in 0 .. total - 1 : \A i, j \in DOMAIN plan :
           (/\ plan[i].start <= p /\ p <= plan[i].end
            /\ plan[j].start <= p /\ p <= plan[j].end) => i = j
  PROVE  /\ TotalDone(plan) =
              Cardinality(UNION {BytesOf(plan[i], total) : i \in DOMAIN plan})
         /\ TotalDone(plan) \in Nat
         /\ TotalDone(plan) <= total
<1> DEFINE S == DOMAIN plan
           W == 0 .. total - 1
           f == [i \in S |-> EffectiveDone(plan[i])]
           D == [i \in S |-> BytesOf(plan[i], total)]
           all == UNION {D[i] : i \in S}
<1>1. IsFiniteSet(S)
  <2>1. S = 1 .. Len(plan) /\ Len(plan) \in Nat
    OBVIOUS
  <2>2. QED
    BY <2>1, FS_Interval
<1>2. IsFiniteSet(W) /\ Cardinality(W) = total
  <2>1. 0 \in Int /\ total - 1 \in Int
    OBVIOUS
  <2>2. /\ IsFiniteSet(0 .. total - 1)
        /\ Cardinality(0 .. total - 1) = IF 0 > total - 1 THEN 0 ELSE total - 1 - 0 + 1
    BY <2>1, FS_Interval
  <2>3. QED
    BY <2>2
<1>3. D \in [S -> SUBSET W]
  BY DEF BytesOf
<1>4. \A i \in S : f[i] = Cardinality(D[i])
  BY SegmentCounts
<1>5. ASSUME NEW i \in S, NEW j \in S, i # j PROVE D[i] \cap D[j] = {}
  <2>1. SUFFICES ASSUME NEW p \in W, p \in D[i], p \in D[j] PROVE FALSE
    BY <1>3
  <2>2. plan[i] \in SegmentRec /\ plan[j] \in SegmentRec
    OBVIOUS
  <2>3. /\ plan[i].start <= p /\ p <= plan[i].end
        /\ plan[j].start <= p /\ p <= plan[j].end
    BY <2>1, <2>2, SegmentCounts
  <2>4. QED
    BY <2>3, <1>5
<1>6. SumFunctionOnSet(f, S) = Cardinality(all)
  <2> HIDE DEF f, D, W, S
  <2>1. QED
    BY <1>1, <1>2, <1>3, <1>4, <1>5, SumOfParts
<1>7. TotalDone(plan) = SumFunctionOnSet(f, S)
  BY DEF TotalDone, SumFunction
<1>8. all \in SUBSET W
  BY <1>3
<1>9. Cardinality(all) \in Nat /\ Cardinality(all) <= total
  <2> HIDE DEF all, W
  <2>1. QED
    BY <1>2, <1>8, FS_Subset, FS_CardinalityType
<1>10. all = UNION {BytesOf(plan[i], total) : i \in DOMAIN plan}
  OBVIOUS
<1>11. QED
  <2> HIDE DEF all, f, S
  <2>1. QED
    BY <1>6, <1>7, <1>9, <1>10
===========================================================================
