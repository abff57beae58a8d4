--------------------------- MODULE DrawingProofs ----------------------------
(***************************************************************************)
(* What is drawn.  The trail fits into its room, the rings of a chart show *)
(* all of the folders they are about, and a transition goes from what is on*)
(* display to the chart that is there, for every scan and every way through*)
(* it (AnalyzerChart); and what a paint leaves on the screen is what is to *)
(* be seen (Painting).                                                     *)
(*                                                                         *)
(* The loops of the layouts are recursive functions.  An invariant of a    *)
(* loop is proved by induction over its rounds, as a predicate about what  *)
(* is there after k of them.                                               *)
(***************************************************************************)
EXTENDS AnalyzerChart, Painting, ScanForestProofs

-----------------------------------------------------------------------------
(***************************************************************************)
(* The trail.                                                              *)
(***************************************************************************)

\* Where the items of a trail stand.
LEMMA TrailOf ==
  ASSUME NEW t \in Trees, NEW n \in Nodes(t)
  PROVE  LET tr == TrailTo(t, n)
         IN  /\ IsFiniteSet(Above[t][n]) /\ Cardinality(Above[t][n]) \in Nat \ {0}
             /\ DOMAIN tr = 1 .. 1 + Unscanned + Cardinality(Above[t][n])
             /\ tr \in Seq([kind : {"Overview", "UnscannedPrefix", "ScanNode"},
                            node : Nodes(t) \cup {invalid_node}])
             /\ Len(tr) = 1 + Unscanned + Cardinality(Above[t][n])
             /\ \A i \in DOMAIN tr :
                  /\ i <= Unscanned + 1 => tr[i].kind \in {"Overview", "UnscannedPrefix"}
                  /\ i > Unscanned + 1 => tr[i].kind = "ScanNode" /\ tr[i].node \in Above[t][n]
<1>. DEFINE A == Above[t][n]
            way == Ascending(A)
            head == <<[kind |-> "Overview", node |-> invalid_node]>>
            prefix == [k \in 1 .. Unscanned |-> [kind |-> "UnscannedPrefix", node |-> invalid_node]]
            rest == [k \in DOMAIN way |-> [kind |-> "ScanNode", node |-> way[k]]]
            Items == [kind : {"Overview", "UnscannedPrefix", "ScanNode"},
                      node : Nodes(t) \cup {invalid_node}]
            c == Cardinality(A)
<1>1. A \in SUBSET Nodes(t) /\ n \in A
  BY AboveSelf DEF Above
<1>2. IsFiniteSet(A) /\ A \in SUBSET Int
  <2>1. IsFiniteSet(Nodes(t))
    BY TreeIsFinite
  <2>2. Nodes(t) \in SUBSET Int
    BY TreeFacts
  <2>. QED
    BY <1>1, <2>1, <2>2, FS_Subset
<1>3. c \in Nat \ {0}
  <2>1. c \in Nat
    BY <1>2, FS_CardinalityType
  <2>2. c # 0
    BY <1>1, <1>2, FS_EmptySet
  <2>. QED
    BY <2>1, <2>2
<1>4. way \in [1 .. c -> A]
  BY <1>2, AscendingFacts
<1>5. Unscanned \in Nat
  BY TrailAssumption
<1>6. TrailTo(t, n) = head \o prefix \o rest
  BY DEF TrailTo, Ascending
<1>. HIDE DEF way, A, c
<1>7. DOMAIN way = 1 .. c
  BY <1>4
<1>8. head \in Seq(Items) /\ Len(head) = 1
  OBVIOUS
<1>9. prefix \in Seq(Items) /\ Len(prefix) = Unscanned
  <2>1. prefix \in [1 .. Unscanned -> Items]
    OBVIOUS
  <2>. HIDE DEF prefix, Items
  <2>. QED
    BY <1>5, <2>1, NumberedSeq
<1>10. rest \in Seq(Items) /\ Len(rest) = c
  <2>1. rest \in [1 .. c -> Items]
    BY <1>1, <1>4, <1>7
  <2>. HIDE DEF rest, Items
  <2>. QED
    BY <1>3, <2>1, NumberedSeq
<1>11. \A k \in 1 .. c : rest[k].kind = "ScanNode" /\ rest[k].node \in A
  BY <1>4, <1>7
<1>12. \A k \in 1 .. Unscanned : prefix[k].kind = "UnscannedPrefix"
  OBVIOUS
<1>13. head[1].kind = "Overview"
  OBVIOUS
<1>. HIDE DEF head, prefix, rest, Items
<1>. DEFINE front == head \o prefix
<1>14. /\ front \in Seq(Items) /\ Len(front) = 1 + Unscanned
       /\ \A i \in 1 .. 1 : front[i] = head[i]
       /\ \A i \in 1 .. Unscanned : front[1 + i] = prefix[i]
  <2>1. front \in Seq(Items) /\ IsJoined(front, head, prefix)
    BY <1>8, <1>9, Joined
  <2>. HIDE DEF front
  <2>. QED
    BY <1>8, <1>9, <2>1 DEF IsJoined
<1>. HIDE DEF front
<1>15. /\ front \o rest \in Seq(Items) /\ Len(front \o rest) = 1 + Unscanned + c
       /\ DOMAIN (front \o rest) = 1 .. 1 + Unscanned + c
       /\ \A i \in 1 .. 1 + Unscanned : (front \o rest)[i] = front[i]
       /\ \A i \in 1 .. c : (front \o rest)[1 + Unscanned + i] = rest[i]
  <2>. DEFINE all == front \o rest
  <2>1. all \in Seq(Items) /\ IsJoined(all, front, rest)
    BY <1>10, <1>14, Joined
  <2>. HIDE DEF all
  <2>2. /\ all \in Seq(Items) /\ Len(all) = 1 + Unscanned + c
        /\ DOMAIN all = 1 .. 1 + Unscanned + c
        /\ \A i \in 1 .. 1 + Unscanned : all[i] = front[i]
        /\ \A i \in 1 .. c : all[1 + Unscanned + i] = rest[i]
    BY <1>10, <1>14, <2>1 DEF IsJoined
  <2>. QED
    BY <2>2 DEF all
<1>16. TrailTo(t, n) = front \o rest
  BY <1>6 DEF front
<1>17. ASSUME NEW i \in 1 .. 1 + Unscanned + c
       PROVE  /\ i <= Unscanned + 1 => TrailTo(t, n)[i].kind \in {"Overview", "UnscannedPrefix"}
              /\ i > Unscanned + 1 => /\ TrailTo(t, n)[i].kind = "ScanNode"
                                      /\ TrailTo(t, n)[i].node \in A
  <2>1. CASE i = 1
    BY <1>5, <1>13, <1>14, <1>15, <1>16, <2>1
  <2>2. CASE i \in 2 .. Unscanned + 1
    <3>1. i - 1 \in 1 .. Unscanned /\ 1 + (i - 1) = i
      BY <1>5, <2>2
    <3>2. front[1 + (i - 1)] = prefix[i - 1]
      BY <1>14, <3>1
    <3>3. TrailTo(t, n)[i] = front[i]
      BY <1>5, <1>15, <1>16, <2>2
    <3>. QED
      BY <1>5, <1>12, <2>2, <3>1, <3>2, <3>3
  <2>3. CASE i > Unscanned + 1
    <3>1. i - (Unscanned + 1) \in 1 .. c /\ 1 + Unscanned + (i - (Unscanned + 1)) = i
      BY <1>3, <1>5, <2>3
    <3>2. (front \o rest)[1 + Unscanned + (i - (Unscanned + 1))] = rest[i - (Unscanned + 1)]
      BY <1>15, <3>1
    <3>3. TrailTo(t, n)[i] = rest[i - (Unscanned + 1)]
      BY <1>16, <3>1, <3>2
    <3>. QED
      BY <1>5, <1>11, <2>3, <3>1, <3>3
  <2>. QED
    BY <1>3, <1>5, <2>1, <2>2, <2>3
<1>. QED
  BY <1>2, <1>3, <1>15, <1>16, <1>17 DEF A, c, Items

\* The smaller and the larger of two numbers.
LEMMA OfTwo ==
  ASSUME NEW a \in Int, NEW b \in Int
  PROVE  /\ Min({a, b}) = IF a <= b THEN a ELSE b
         /\ Max({a, b}) = IF a <= b THEN b ELSE a
<1>1. \A x \in {a, b} : x = a \/ x = b
  OBVIOUS
<1>2. (IF a <= b THEN a ELSE b) \in {a, b} /\ \A y \in {a, b} : (IF a <= b THEN a ELSE b) <= y
  BY <1>1
<1>3. (IF a <= b THEN b ELSE a) \in {a, b} /\ \A y \in {a, b} : (IF a <= b THEN b ELSE a) >= y
  BY <1>1
<1>4. ASSUME NEW x \in {a, b}, \A y \in {a, b} : x <= y
      PROVE  x = IF a <= b THEN a ELSE b
  BY <1>4
<1>5. ASSUME NEW x \in {a, b}, \A y \in {a, b} : x >= y
      PROVE  x = IF a <= b THEN b ELSE a
  BY <1>5
<1>6. Min({a, b}) = IF a <= b THEN a ELSE b
  <2>1. \E x \in {a, b} : \A y \in {a, b} : x <= y
    BY <1>2
  <2>2. Min({a, b}) \in {a, b} /\ \A y \in {a, b} : Min({a, b}) <= y
    BY <2>1 DEF Min
  <2>. QED
    BY <1>4, <2>2
<1>7. Max({a, b}) = IF a <= b THEN b ELSE a
  <2>1. \E x \in {a, b} : \A y \in {a, b} : x >= y
    BY <1>3
  <2>2. Max({a, b}) \in {a, b} /\ \A y \in {a, b} : Max({a, b}) >= y
    BY <2>1 DEF Max
  <2>. QED
    BY <1>5, <2>2
<1>. QED
  BY <1>6, <1>7

\* Segments side by side.
AreSideBySide(s, space) ==
  /\ \A k \in DOMAIN s : /\ s[k].from \in Nat /\ s[k].to \in Nat
                         /\ s[k].from <= s[k].to /\ s[k].to <= space
  /\ \A k \in 2 .. Len(s) : s[k].from = s[k - 1].to
  /\ \A j, k \in DOMAIN s : j < k => s[j].to <= s[k].from

\* The items that parts or segments stand for.
ItemsOf(parts) == {parts[k].item : k \in 1 .. Len(parts)}

\* The segments s of N parts.
AreSegmentsOf(s, parts, N, space) ==
  /\ DOMAIN s = 1 .. N
  /\ s \in Seq([item : ItemsOf(parts), from : Nat, to : Nat])
  /\ Len(s) = N
  /\ \A k \in 1 .. N : s[k].item = parts[k].item
  /\ AreSideBySide(s, space)

\* The places of the parts of a trail.
LEMMA SegmentsSideBySide ==
  ASSUME NEW N \in Nat, NEW parts, Len(parts) = N, DOMAIN parts = 1 .. N,
         \A k \in 1 .. N : parts[k].width \in Nat,
         NEW space \in Nat, NEW s, s = SideBySide(parts, space)
  PROVE  AreSegmentsOf(s, parts, N, space)
<1>. DEFINE step == [p \in (0 .. space) \X (1 .. N) |-> Min({space, p[1] + parts[p[2]].width})]
            W(f) == [k \in 0 .. N |-> IF k = 0 THEN 0 ELSE Min({space, f[k - 1] + parts[k].width})]
            at == CHOOSE f : f = W(f)
<1>1. ASSUME NEW x \in 0 .. space, NEW k \in 1 .. N
      PROVE  /\ Min({space, x + parts[k].width}) \in x .. space
             /\ step[<<x, k>>] = Min({space, x + parts[k].width})
  <2>1. x + parts[k].width \in Int /\ x + parts[k].width >= x /\ x <= space /\ space \in Int
    BY <1>1
  <2>2. Min({space, x + parts[k].width})
          = IF space <= x + parts[k].width THEN space ELSE x + parts[k].width
    BY <2>1, OfTwo
  <2>3. step[<<x, k>>] = Min({space, x + parts[k].width})
    <3>1. <<x, k>> \in (0 .. space) \X (1 .. N) /\ <<x, k>>[1] = x /\ <<x, k>>[2] = k
      BY <1>1
    <3>. QED
      BY <3>1
  <2>. DEFINE w == x + parts[k].width
  <2>4. (IF space <= w THEN space ELSE w) \in x .. space
    <3>1. w \in Int /\ w >= x /\ x <= space /\ x \in Int /\ space \in Int
      BY <2>1, <1>1
    <3>. HIDE DEF w, step, W, at
    <3>. QED
      BY <3>1
  <2>. HIDE DEF step, W, at
  <2>. QED
    BY <2>2, <2>3, <2>4
<1>. HIDE DEF step, at
<1>2. \E f \in [0 .. N -> 0 .. space] : f = W(f)
  <2>1. 0 \in 0 .. space /\ \A x \in 0 .. space, k \in 1 .. N : step[<<x, k>>] \in 0 .. space
    <3>1. ASSUME NEW x \in 0 .. space, NEW k \in 1 .. N PROVE step[<<x, k>>] \in 0 .. space
      <4>1. Min({space, x + parts[k].width}) \in x .. space
        BY <1>1
      <4>2. step[<<x, k>>] = Min({space, x + parts[k].width})
        BY <1>1
      <4>. QED
        BY <4>1, <4>2
    <3>. QED
      BY <3>1
  <2>2. PICK f : IsRecursion(f, N, 0 .. space, 0, step)
    BY <2>1, RecursionExists
  <2>3. ASSUME NEW k \in 0 .. N
        PROVE  f[k] = IF k = 0 THEN 0 ELSE Min({space, f[k - 1] + parts[k].width})
    <3>1. CASE k = 0
      BY <2>2, <3>1 DEF IsRecursion
    <3>2. CASE k \in 1 .. N
      <4>1. k - 1 \in 0 .. N /\ k # 0
        BY <3>2
      <4>2. f \in [0 .. N -> 0 .. space] /\ \A m \in 1 .. N : f[m] = step[<<f[m - 1], m>>]
        <5>. HIDE DEF W
        <5>. QED
          BY <2>2 DEF IsRecursion
      <4>3. f[k - 1] \in 0 .. space /\ f[k] = step[<<f[k - 1], k>>]
        <5>. HIDE DEF W
        <5>. QED
          BY <3>2, <4>1, <4>2
      <4>. QED
        BY <1>1, <3>2, <4>1, <4>3
    <3>. QED
      BY <3>1, <3>2
  <2>4. f = W(f)
    <3>1. f = [k \in 0 .. N |-> f[k]]
      BY <2>2 DEF IsRecursion
    <3>. QED
      BY <2>3, <3>1
  <2>5. f \in [0 .. N -> 0 .. space]
    BY <2>2 DEF IsRecursion
  <2>. HIDE DEF W
  <2>. QED
    BY <2>4, <2>5
<1>3. at = W(at)
  <2>. HIDE DEF W
  <2>. QED
    BY <1>2 DEF at
<1>4. /\ at[0] = 0
      /\ \A k \in 1 .. N : at[k] = Min({space, at[k - 1] + parts[k].width})
  <2>1. ASSUME NEW k \in 0 .. N
        PROVE  at[k] = IF k = 0 THEN 0 ELSE Min({space, at[k - 1] + parts[k].width})
    BY <1>3 DEF W
  <2>2. 0 \in 0 .. N /\ \A k \in 1 .. N : k \in 0 .. N /\ k # 0
    OBVIOUS
  <2>. QED
    BY <2>1, <2>2
<1>. HIDE DEF W
<1>5. \A k \in 0 .. N : at[k] \in 0 .. space
  <2>. DEFINE Good == {k \in Nat : k <= N => at[k] \in 0 .. space}
  <2>1. 0 \in Good
    BY <1>4
  <2>2. ASSUME NEW k \in Good PROVE k + 1 \in Good
    <3>. SUFFICES ASSUME k + 1 <= N PROVE at[k + 1] \in 0 .. space
      OBVIOUS
    <3>1. k \in Nat /\ k + 1 \in 1 .. N /\ (k + 1) - 1 = k /\ at[k] \in 0 .. space
      OBVIOUS
    <3>2. at[k + 1] = Min({space, at[k] + parts[k + 1].width})
      BY <1>4, <3>1
    <3>3. Min({space, at[k] + parts[k + 1].width}) \in at[k] .. space
      BY <1>1, <3>1
    <3>. QED
      BY <3>1, <3>2, <3>3
  <2>3. Good = Nat
    <3>1. Good \in SUBSET Nat
      OBVIOUS
    <3>. HIDE DEF Good
    <3>. QED
      BY <2>1, <2>2, <3>1, AllNumbers
  <2>. QED
    BY <2>3
<1>6. \A k \in 1 .. N : at[k - 1] <= at[k]
  <2>. SUFFICES ASSUME NEW k \in 1 .. N PROVE at[k - 1] <= at[k]
    OBVIOUS
  <2>1. k - 1 \in 0 .. N /\ at[k - 1] \in 0 .. space
    BY <1>5
  <2>2. Min({space, at[k - 1] + parts[k].width}) \in at[k - 1] .. space
    BY <1>1, <2>1
  <2>. QED
    BY <1>4, <2>1, <2>2
<1>7. \A j \in 0 .. N : \A k \in 0 .. N : j <= k => at[j] <= at[k]
  <2>. SUFFICES ASSUME NEW j \in 0 .. N PROVE \A k \in 0 .. N : j <= k => at[j] <= at[k]
    OBVIOUS
  <2>. DEFINE Good == {k \in Nat : k \in j .. N => at[j] <= at[k]}
  <2>1. 0 \in Good
    BY <1>5
  <2>2. ASSUME NEW k \in Good PROVE k + 1 \in Good
    <3>. SUFFICES ASSUME k + 1 \in j .. N PROVE at[j] <= at[k + 1]
      OBVIOUS
    <3>1. CASE k + 1 = j
      BY <1>5, <3>1
    <3>2. CASE k \in j .. N
      <4>1. k \in Nat /\ at[j] <= at[k]
        BY <3>2
      <4>4. k + 1 \in 1 .. N /\ (k + 1) - 1 = k
        <5>. HIDE DEF Good
        <5>. QED
          BY <4>1, <3>2
      <4>2. at[k] <= at[k + 1]
        BY <1>6, <4>4
      <4>3. at[j] \in Int /\ at[k] \in Int /\ at[k + 1] \in Int
        BY <1>5, <3>2, <4>4
      <4>. QED
        BY <4>1, <4>2, <4>3
    <3>. QED
      BY <3>1, <3>2
  <2>3. Good = Nat
    <3>1. Good \in SUBSET Nat
      OBVIOUS
    <3>. HIDE DEF Good
    <3>. QED
      BY <2>1, <2>2, <3>1, AllNumbers
  <2>. QED
    BY <2>3
<1>8. s = [k \in DOMAIN parts |-> [item |-> parts[k].item, from |-> at[k - 1], to |-> at[k]]]
  BY DEF SideBySide, at, W
<1>9. ASSUME NEW k \in 1 .. N
      PROVE  /\ s[k] = [item |-> parts[k].item, from |-> at[k - 1], to |-> at[k]]
             /\ s[k].item = parts[k].item /\ s[k].from = at[k - 1] /\ s[k].to = at[k]
             /\ at[k - 1] \in 0 .. space /\ at[k] \in 0 .. space /\ at[k - 1] <= at[k]
  <2>1. s[k] = [item |-> parts[k].item, from |-> at[k - 1], to |-> at[k]]
    BY <1>8
  <2>. QED
    BY <1>5, <1>6, <2>1
<1>. DEFINE Labels == {parts[k].item : k \in 1 .. N}
            T == [item : Labels, from : Nat, to : Nat]
<1>10. s \in Seq(T) /\ Len(s) = N /\ DOMAIN s = 1 .. N
  <2>1. ASSUME NEW k \in 1 .. N PROVE s[k] \in T
    <3>1. parts[k].item \in Labels
      OBVIOUS
    <3>. DEFINE a == at[k - 1]
                b == at[k]
                x == parts[k].item
    <3>2. a \in Nat /\ b \in Nat
      <4>1. a \in 0 .. space /\ b \in 0 .. space
        BY <1>9
      <4>. HIDE DEF a, b, T, Labels
      <4>. QED
        BY <4>1
    <3>3. s[k] = [item |-> x, from |-> a, to |-> b]
      BY <1>9
    <3>. HIDE DEF Labels, a, b, x
    <3>. QED
      BY <3>1, <3>2, <3>3 DEF x
  <2>2. s = [k \in 1 .. N |-> s[k]]
    BY <1>8
  <2>. HIDE DEF T
  <2>3. s \in [1 .. N -> T]
    BY <2>1, <2>2
  <2>. QED
    BY <2>3, NumberedSeq
<1>11. AreSideBySide(s, space)
  <2>. HIDE DEF T, Labels
  <2>1. ASSUME NEW k \in 1 .. N
        PROVE  /\ s[k].from \in Nat /\ s[k].to \in Nat
               /\ s[k].from <= s[k].to /\ s[k].to <= space
    <3>1. s[k].from = at[k - 1] /\ s[k].to = at[k]
      BY <1>9
    <3>2. at[k - 1] \in 0 .. space /\ at[k] \in 0 .. space /\ at[k - 1] <= at[k]
      BY <1>9
    <3>. QED
      BY <3>1, <3>2
  <2>2. ASSUME NEW k \in 2 .. N PROVE s[k].from = s[k - 1].to
    <3>1. k \in 1 .. N /\ k - 1 \in 1 .. N
      OBVIOUS
    <3>2. s[k].from = at[k - 1]
      BY <1>9, <3>1
    <3>3. s[k - 1].to = at[k - 1]
      BY <1>9, <3>1
    <3>. QED
      BY <3>2, <3>3
  <2>3. ASSUME NEW j \in 1 .. N, NEW k \in 1 .. N, j < k PROVE s[j].to <= s[k].from
    <3>1. j \in 0 .. N /\ k - 1 \in 0 .. N /\ j <= k - 1
      BY <2>3
    <3>2. at[j] <= at[k - 1]
      BY <1>7, <3>1
    <3>3. s[k].from = at[k - 1] /\ s[j].to = at[j]
      BY <1>9
    <3>. QED
      BY <3>2, <3>3
  <2>. QED
    BY <1>10, <2>1, <2>2, <2>3 DEF AreSideBySide
<1>. QED
  BY <1>9, <1>10, <1>11 DEF ItemsOf, AreSegmentsOf

\* The widths of a trail have a sum.
LEMMA WidthsAdd ==
  ASSUME NEW R, IsFiniteSet(R), NEW width \in [R -> Nat]
  PROVE  TotalWidth(width) \in Nat
<1>1. Summable(width, R) /\ DOMAIN width = R /\ R \in SUBSET R
  BY DEF Summable
<1>2. SumFunctionOnSet(width, R) \in Nat
  BY <1>1, SumFacts
<1>. QED
  BY <1>1, <1>2 DEF TotalWidth, SumFunction

\* An item that gives up width keeps some.
LEMMA ReducedWidths ==
  ASSUME NEW R, IsFiniteSet(R), NEW width \in [R -> Nat], NEW i \in R, NEW available \in Int
  PROVE  Reduced(width, i, available) \in [R -> Nat]
<1>. DEFINE excess == TotalWidth(width) - available
            spare == width[i] - minimumSegmentWidth
            cut == IF spare < excess THEN spare ELSE excess
<1>1. excess \in Int
  BY WidthsAdd
<1>2. width[i] \in Nat /\ spare = width[i] - 44
  BY DEF minimumSegmentWidth
<1>. DEFINE w == width[i]
<1>3. cut > 0 => w - cut \in Nat
  <2>1. w \in Nat /\ spare = w - 44 /\ excess \in Int
    BY <1>1, <1>2
  <2>. HIDE DEF w, spare, excess
  <2>. QED
    BY <2>1
<1>4. cut > 0 => [width EXCEPT ![i] = width[i] - cut] \in [R -> Nat]
  <2>. HIDE DEF cut
  <2>. QED
    BY <1>3
<1>5. Reduced(width, i, available) = IF cut > 0 THEN [width EXCEPT ![i] = width[i] - cut] ELSE width
  BY DEF Reduced
<1>. HIDE DEF cut
<1>. QED
  BY <1>4, <1>5

\* So do all of them.
LEMMA ReducedInOrderWidths ==
  ASSUME NEW R, IsFiniteSet(R), NEW width \in [R -> Nat], NEW order \in Seq(R),
         NEW available \in Int
  PROVE  ReducedInOrder(width, order, available) \in [R -> Nat]
<1>. DEFINE N == Len(order)
            S == [R -> Nat]
            step == [p \in S \X (1 .. N) |-> Reduced(p[1], order[p[2]], available)]
            W(f) == [k \in 0 .. N |-> IF k = 0 THEN width
                                      ELSE Reduced(f[k - 1], order[k], available)]
            reduced == CHOOSE f : f = W(f)
<1>1. N \in Nat /\ \A k \in 1 .. N : order[k] \in R
  BY LenProperties, ElementOfSeq
<1>2. ASSUME NEW x \in S, NEW k \in 1 .. N
      PROVE  /\ Reduced(x, order[k], available) \in S
             /\ step[<<x, k>>] = Reduced(x, order[k], available)
  <2>1. Reduced(x, order[k], available) \in S
    BY <1>1, ReducedWidths
  <2>2. <<x, k>> \in S \X (1 .. N) /\ <<x, k>>[1] = x /\ <<x, k>>[2] = k
    OBVIOUS
  <2>. HIDE DEF S, W, reduced
  <2>. QED
    BY <2>1, <2>2
<1>. HIDE DEF step, reduced, S
<1>3. \E f : f \in [0 .. N -> S] /\ f = W(f)
  <2>1. width \in S /\ \A x \in S, k \in 1 .. N : step[<<x, k>>] \in S
    BY <1>2 DEF S
  <2>2. PICK f : IsRecursion(f, N, S, width, step)
    BY <1>1, <2>1, RecursionExists
  <2>3. ASSUME NEW k \in 0 .. N
        PROVE  f[k] = IF k = 0 THEN width ELSE Reduced(f[k - 1], order[k], available)
    <3>1. CASE k = 0
      BY <2>2, <3>1 DEF IsRecursion
    <3>2. CASE k \in 1 .. N
      <4>1. k # 0 /\ k - 1 \in 0 .. N
        BY <1>1, <3>2
      <4>2. f[k] = step[<<f[k - 1], k>>] /\ f[k - 1] \in S
        BY <2>2, <3>2, <4>1 DEF IsRecursion
      <4>. QED
        BY <1>2, <3>2, <4>1, <4>2
    <3>. QED
      BY <1>1, <3>1, <3>2
  <2>4. f = W(f)
    <3>1. f = [k \in 0 .. N |-> f[k]]
      BY <2>2 DEF IsRecursion
    <3>. QED
      BY <2>3, <3>1
  <2>5. f \in [0 .. N -> S]
    BY <2>2 DEF IsRecursion
  <2>. HIDE DEF W
  <2>. QED
    BY <2>4, <2>5
<1>4. reduced = W(reduced)
  <2>. HIDE DEF W
  <2>. QED
    BY <1>3 DEF reduced
<1>5. /\ reduced[0] = width
      /\ \A k \in 1 .. N : reduced[k] = Reduced(reduced[k - 1], order[k], available)
  <2>1. ASSUME NEW k \in 0 .. N
        PROVE  reduced[k] = IF k = 0 THEN width ELSE Reduced(reduced[k - 1], order[k], available)
    BY <1>4 DEF W
  <2>2. 0 \in 0 .. N /\ \A k \in 1 .. N : k \in 0 .. N /\ k # 0
    BY <1>1
  <2>. QED
    BY <2>1, <2>2
<1>. DEFINE Good == {k \in Nat : k <= N => reduced[k] \in S}
<1>6. 0 \in Good
  BY <1>5 DEF S
<1>7. ASSUME NEW k \in Good PROVE k + 1 \in Good
  <2>. SUFFICES ASSUME k + 1 <= N PROVE reduced[k + 1] \in S
    OBVIOUS
  <2>1. k \in Nat /\ k + 1 \in 1 .. N /\ (k + 1) - 1 = k /\ reduced[k] \in S
    BY <1>1
  <2>2. reduced[k + 1] = Reduced(reduced[k], order[k + 1], available)
    BY <1>5, <2>1
  <2>. QED
    BY <1>2, <2>1, <2>2
<1>8. Good = Nat
  <2>1. Good \in SUBSET Nat
    OBVIOUS
  <2>. HIDE DEF Good
  <2>. QED
    BY <1>6, <1>7, <2>1, AllNumbers
<1>9. reduced[N] \in S
  BY <1>1, <1>8
<1>10. ReducedInOrder(width, order, available) = reduced[N]
  BY DEF ReducedInOrder, reduced, W
<1>. QED
  BY <1>9, <1>10 DEF S

\* Nor does any item get less than no width when all become equally wide.
LEMMA SqueezedWidths ==
  ASSUME NEW R, IsFiniteSet(R), R # {}, NEW width \in [R -> Nat], NEW available \in Int
  PROVE  Squeezed(width, available) \in [R -> Nat]
<1>. DEFINE c == Cardinality(R)
            m == Max({0, available})
<1>1. c \in Nat \ {0}
  BY FS_CardinalityType, FS_EmptySet
<1>2. m = IF 0 <= available THEN available ELSE 0
  BY OfTwo
<1>3. m \in Nat
  <2>. HIDE DEF m
  <2>. QED
    BY <1>2
<1>4. m \div c \in Nat
  <2>. HIDE DEF m, c
  <2>. QED
    BY <1>1, <1>3
<1>5. [i \in R |-> m \div c] \in [R -> Nat]
  <2>. HIDE DEF m, c
  <2>. QED
    BY <1>4
<1>6. Squeezed(width, available) = IF TotalWidth(width) <= available THEN width
                                   ELSE [i \in R |-> m \div c]
  BY DEF Squeezed
<1>. HIDE DEF m, c
<1>. QED
  BY <1>5, <1>6

\* A point is in one segment at most.
LEMMA OneTrailHit ==
  ASSUME NEW T, NEW layout, layout.visible \in Seq(T), NEW space \in Int,
         AreSideBySide(layout.visible, space), NEW x \in Int
  PROVE  LET hits == TrailHits(layout, x)
         IN  /\ Len(hits) <= 1
             /\ \A s \in ToSet(hits) : \E k \in DOMAIN layout.visible : s = layout.visible[k]
<1>. DEFINE segments == layout.visible
            hit == {k \in DOMAIN segments : segments[k].from <= x /\ x < segments[k].to}
            dots == {k \in hit : segments[k].item = 0}
            others == hit \ dots
            A == MembersAt(segments, others)
            B == MembersAt(segments, dots)
<1>1. hit \in SUBSET DOMAIN segments /\ dots \in SUBSET hit /\ others \in SUBSET hit
      /\ hit = others \cup dots /\ others \cap dots = {}
  OBVIOUS
<1>2. ASSUME NEW j \in hit, NEW k \in hit PROVE j = k
  <2>1. j \in DOMAIN segments /\ k \in DOMAIN segments /\ DOMAIN segments \in SUBSET Int
    BY LenProperties
  <2>2. ASSUME NEW a \in hit, NEW b \in hit, a < b PROVE FALSE
    <3>1. segments[a].to <= segments[b].from
      BY <2>2 DEF AreSideBySide
    <3>2. /\ segments[a].to \in Int /\ segments[b].from \in Int
          /\ x < segments[a].to /\ segments[b].from <= x
      BY <2>2, SMTT(30) DEF AreSideBySide
    <3>. QED
      BY <3>1, <3>2
  <2>. QED
    BY <2>1, <2>2
<1>. HIDE DEF hit, dots, others
<1>3. TrailHits(layout, x) = A \o B
  BY DEF TrailHits, hit, dots, others
<1>4. /\ IsFiniteSet(others) /\ A \in Seq(T) /\ Len(A) = Cardinality(others)
      /\ IsFiniteSet(dots) /\ B \in Seq(T) /\ Len(B) = Cardinality(dots)
  <2>1. others \in SUBSET DOMAIN segments /\ dots \in SUBSET DOMAIN segments
    BY <1>1
  <2>. QED
    BY <2>1, MembersAtSeq
<1>5. A \o B \in Seq(T) /\ IsJoined(A \o B, A, B)
  BY <1>4, Joined
<1>6. Cardinality(others) + Cardinality(dots) <= 1
  <2>1. CASE others = {} /\ dots = {}
    BY <2>1, FS_EmptySet
  <2>2. CASE others # {}
    <3>1. PICK a \in others : TRUE
      BY <2>2
    <3>2. others = {a} /\ dots = {}
      BY <1>1, <1>2
    <3>3. Cardinality({a}) = 1
      BY FS_Singleton
    <3>4. Cardinality({}) = 0
      BY FS_EmptySet
    <3>. QED
      BY <3>2, <3>3, <3>4
  <2>3. CASE dots # {}
    <3>1. PICK a \in dots : TRUE
      BY <2>3
    <3>2. dots = {a} /\ others = {}
      BY <1>1, <1>2
    <3>3. Cardinality({a}) = 1
      BY FS_Singleton
    <3>4. Cardinality({}) = 0
      BY FS_EmptySet
    <3>. QED
      BY <3>2, <3>3, <3>4
  <2>. QED
    BY <2>1, <2>2, <2>3
<1>7. \A i \in 1 .. Len(A) : \E k \in DOMAIN segments : A[i] = segments[k]
  <2>1. others \in SUBSET DOMAIN segments /\ others \in SUBSET Int
    BY <1>1, LenProperties
  <2>2. \A i \in 1 .. Cardinality(others) :
          Ascending(others)[i] \in others /\ A[i] = segments[Ascending(others)[i]]
    BY <1>4, <2>1, MembersAtFacts
  <2>. QED
    BY <1>4, <2>1, <2>2
<1>8. \A i \in 1 .. Len(B) : \E k \in DOMAIN segments : B[i] = segments[k]
  <2>1. dots \in SUBSET DOMAIN segments /\ dots \in SUBSET Int
    BY <1>1, LenProperties
  <2>2. \A i \in 1 .. Cardinality(dots) :
          Ascending(dots)[i] \in dots /\ B[i] = segments[Ascending(dots)[i]]
    BY <1>4, <2>1, MembersAtFacts
  <2>. QED
    BY <1>4, <2>1, <2>2
<1>. DEFINE c == A \o B
<1>9. IsJoined(c, A, B)
  BY <1>5
<1>. HIDE DEF A, B, c, segments
<1>10. Len(c) <= 1
  BY <1>4, <1>6, <1>9 DEF IsJoined
<1>11. ASSUME NEW s \in ToSet(c) PROVE \E k \in DOMAIN segments : s = segments[k]
  <2>1. PICK i \in DOMAIN c : s = c[i]
    BY DEF ToSet
  <2>2. i \in 1 .. Len(A) + Len(B) /\ Len(A) \in Nat /\ Len(B) \in Nat
    BY <1>9, <2>1 DEF IsJoined
  <2>3. CASE i \in 1 .. Len(A)
    BY <1>7, <1>9, <2>1, <2>3 DEF IsJoined
  <2>4. CASE i > Len(A)
    <3>1. i - Len(A) \in 1 .. Len(B) /\ Len(A) + (i - Len(A)) = i
      BY <2>2, <2>4
    <3>2. c[Len(A) + (i - Len(A))] = B[i - Len(A)]
      BY <1>9, <3>1 DEF IsJoined
    <3>. QED
      BY <1>8, <2>1, <3>1, <3>2
  <2>. QED
    BY <2>2, <2>3, <2>4
<1>. QED
  BY <1>3, <1>10, <1>11 DEF c, segments

\* A layout of the trail in space shows what it must, where it must.
FitsIn(layout, tr, space) ==
  LET inSight == layout.visible
      items == {inSight[k].item : k \in DOMAIN inSight}
  IN  /\ \E T : inSight \in Seq(T)
      /\ (items \ {0}) \cup layout.hidden = DOMAIN tr
      /\ (items \cap layout.hidden = {}) /\ (0 \in items <=> layout.hidden # {})
      /\ {1, Unscanned + 2, Len(tr) - 1, Len(tr)} \subseteq items
      /\ AreSideBySide(inSight, space)

\* The first node on a trail.
LEMMA ScanRootOf ==
  ASSUME NEW t \in Trees, NEW n \in Nodes(t), NEW tr, tr = TrailTo(t, n)
  PROVE  Min({i \in DOMAIN tr : tr[i].kind = "ScanNode"}) = Unscanned + 2
<1>. DEFINE S == {i \in DOMAIN tr : tr[i].kind = "ScanNode"}
            c == Cardinality(Above[t][n])
<1>1. /\ c \in Nat \ {0} /\ Unscanned \in Nat
      /\ DOMAIN tr = 1 .. 1 + Unscanned + c
      /\ \A i \in DOMAIN tr :
           /\ i <= Unscanned + 1 => tr[i].kind \in {"Overview", "UnscannedPrefix"}
           /\ i > Unscanned + 1 => tr[i].kind = "ScanNode"
  BY TrailOf, TrailAssumption
<1>. HIDE DEF c
<1>2. Unscanned + 2 \in S
  BY <1>1
<1>3. \A i \in S : Unscanned + 2 <= i
  <2>. SUFFICES ASSUME NEW i \in S PROVE Unscanned + 2 <= i
    OBVIOUS
  <2>1. i \in Int /\ i \in DOMAIN tr /\ tr[i].kind = "ScanNode"
    BY <1>1
  <2>2. ~ (i <= Unscanned + 1)
    BY <1>1, <2>1
  <2>. QED
    BY <1>1, <2>1, <2>2
<1>4. S \in SUBSET Int
  BY <1>1
<1>. HIDE DEF S
<1>5. \E x \in S : \A y \in S : x <= y
  BY <1>2, <1>3
<1>6. Min(S) \in S /\ \A y \in S : Min(S) <= y
  BY <1>5 DEF Min
<1>7. Min(S) <= Unscanned + 2 /\ Unscanned + 2 <= Min(S)
  BY <1>2, <1>3, <1>6
<1>8. Min(S) \in Int /\ Unscanned + 2 \in Int
  BY <1>2, <1>4, <1>6
<1>9. Min(S) = Unscanned + 2
  BY <1>7, <1>8
<1>. QED
  BY <1>9 DEF S

\* The items in I with their widths.
PartsOf(I, width) ==
  [k \in DOMAIN Ascending(I) |-> [item |-> Ascending(I)[k], width |-> width[Ascending(I)[k]]]]

\* A sequence of parts that stand for these items.
ArePartsFor(parts, items) ==
  /\ Len(parts) \in Nat /\ DOMAIN parts = 1 .. Len(parts)
  /\ \A k \in 1 .. Len(parts) : parts[k].width \in Nat
  /\ ItemsOf(parts) = items

\* What a narrow trail keeps, from left to right: what is before the ellipsis,
\* and what is after it.
LEMMA NarrowParts ==
  ASSUME NEW R \in SUBSET Nat, IsFiniteSet(R), 0 \notin R, NEW S \in SUBSET R,
         NEW hidden, NEW dots, dots = IF hidden = {} THEN <<>>
                                      ELSE <<[item |-> 0, width |-> ellipsisWidth]>>,
         NEW width \in [R -> Nat],
         NEW parts, parts = PartsOf(S, width) \o dots \o PartsOf(R \ S, width)
  PROVE  ArePartsFor(parts, R \cup (IF hidden = {} THEN {} ELSE {0}))
<1>. DEFINE T == [item : R \cup {0}, width : Nat]
            P(I) == [k \in DOMAIN Ascending(I) |->
                       [item |-> Ascending(I)[k], width |-> width[Ascending(I)[k]]]]
            a == P(S)
            b == P(R \ S)
            zero == IF hidden = {} THEN {} ELSE {0}
            Items(s) == {s[k].item : k \in 1 .. Len(s)}
<1>1. ASSUME NEW I \in SUBSET R
      PROVE  P(I) \in Seq(T) /\ Items(P(I)) = I
  <2>1. I \in SUBSET Int /\ IsFiniteSet(I)
    <3>. HIDE DEF P, T, a, b, zero, Items
    <3>1. IsFiniteSet(I)
      BY <1>1, FS_Subset
    <3>2. I \in SUBSET Int
      BY <1>1
    <3>. QED
      BY <3>1, <3>2
  <2>2. /\ Cardinality(I) \in Nat
        /\ Ascending(I) \in [1 .. Cardinality(I) -> I]
        /\ \A x \in I : \E k \in 1 .. Cardinality(I) : Ascending(I)[k] = x
    BY <2>1, AscendingFacts
  <2>3. P(I) \in [1 .. Cardinality(I) -> T]
    BY <2>2
  <2>4. P(I) \in Seq(T) /\ Len(P(I)) = Cardinality(I)
    <3>. HIDE DEF P, T
    <3>. QED
      BY <2>2, <2>3, NumberedSeq
  <2>5. \A k \in 1 .. Cardinality(I) : P(I)[k].item = Ascending(I)[k]
    BY <2>2
  <2>6. Items(P(I)) = I
    <3>1. \A k \in 1 .. Len(P(I)) : P(I)[k].item \in I
      <4>. HIDE DEF P
      <4>. QED
        BY <2>2, <2>4, <2>5
    <3>2. ASSUME NEW x \in I PROVE \E k \in 1 .. Len(P(I)) : P(I)[k].item = x
      <4>. HIDE DEF P
      <4>. QED
        BY <2>2, <2>4, <2>5
    <3>. HIDE DEF P
    <3>. QED
      BY <3>1, <3>2
  <2>. QED
    BY <2>4, <2>6
<1>2. /\ a \in Seq(T) /\ Items(a) = S /\ b \in Seq(T) /\ Items(b) = R \ S
  <2>1. S \in SUBSET R /\ R \ S \in SUBSET R
    OBVIOUS
  <2>. HIDE DEF P, Items, T
  <2>. QED
    BY <1>1, <2>1
<1>3. dots \in Seq(T) /\ Items(dots) = zero
  <2>1. CASE hidden = {}
    BY <2>1
  <2>2. CASE hidden # {}
    <3>1. [item |-> 0, width |-> ellipsisWidth] \in T
      BY DEF ellipsisWidth
    <3>. DEFINE e == [item |-> 0, width |-> ellipsisWidth]
    <3>2. dots = <<e>> /\ e \in T /\ e.item = 0
      BY <2>2, <3>1
    <3>. HIDE DEF e, T
    <3>3. Len(<<e>>) = 1 /\ <<e>>[1] = e /\ <<e>> \in Seq(T)
      BY <3>2
    <3>4. Items(<<e>>) = {0}
      BY <3>2, <3>3
    <3>5. zero = {0}
      BY <2>2
    <3>. HIDE DEF Items, zero
    <3>. QED
      BY <3>2, <3>3, <3>4, <3>5
  <2>. QED
    BY <2>1, <2>2
<1>. HIDE DEF a, b, zero, T, Items
<1>4. ASSUME NEW x, NEW y, x \in Seq(T), y \in Seq(T)
      PROVE  x \o y \in Seq(T) /\ Items(x \o y) = Items(x) \cup Items(y)
  <2>. DEFINE z == x \o y
  <2>1. z \in Seq(T) /\ IsJoined(z, x, y)
    BY <1>4, Joined
  <2>. HIDE DEF z
  <2>2. ASSUME NEW k \in 1 .. Len(z) PROVE z[k].item \in Items(x) \cup Items(y)
    <3>1. CASE k \in 1 .. Len(x)
      BY <2>1, <3>1 DEF IsJoined, Items
    <3>2. CASE k > Len(x)
      <4>1. k - Len(x) \in 1 .. Len(y) /\ Len(x) + (k - Len(x)) = k
        BY <2>1, <3>2 DEF IsJoined
      <4>2. z[Len(x) + (k - Len(x))] = y[k - Len(x)]
        BY <2>1, <4>1 DEF IsJoined
      <4>3. z[k] = y[k - Len(x)]
        BY <4>1, <4>2
      <4>. QED
        BY <4>1, <4>3 DEF Items
    <3>. QED
      BY <2>1, <3>1, <3>2 DEF IsJoined
  <2>3. ASSUME NEW k \in 1 .. Len(x) PROVE x[k].item \in Items(z)
    <3>1. k \in 1 .. Len(z) /\ z[k] = x[k]
      BY <2>1 DEF IsJoined
    <3>. QED
      BY <3>1 DEF Items
  <2>4. ASSUME NEW k \in 1 .. Len(y) PROVE y[k].item \in Items(z)
    <3>1. Len(x) + k \in 1 .. Len(z) /\ z[Len(x) + k] = y[k]
      BY <2>1 DEF IsJoined
    <3>. QED
      BY <3>1 DEF Items
  <2>5. Items(z) = Items(x) \cup Items(y)
    BY <2>2, <2>3, <2>4 DEF Items
  <2>. QED
    BY <2>1, <2>5 DEF z
<1>5. parts = (a \o dots) \o b
  BY DEF a, b, PartsOf
<1>6. a \o dots \in Seq(T) /\ Items(a \o dots) = S \cup zero
  BY <1>2, <1>3, <1>4
<1>7. parts \in Seq(T) /\ Items(parts) = (S \cup zero) \cup (R \ S)
  <2>. DEFINE c == a \o dots
  <2>1. c \in Seq(T) /\ Items(c) = S \cup zero
    BY <1>6
  <2>. HIDE DEF c
  <2>2. c \o b \in Seq(T) /\ Items(c \o b) = Items(c) \cup Items(b)
    BY <1>2, <1>4, <2>1
  <2>3. c \o b = parts
    BY <1>5 DEF c
  <2>. QED
    BY <1>2, <2>1, <2>2, <2>3
<1>8. /\ Len(parts) \in Nat /\ DOMAIN parts = 1 .. Len(parts)
      /\ \A k \in 1 .. Len(parts) : parts[k] \in T
  <2>. HIDE DEF Items
  <2>1. parts \in Seq(T)
    BY <1>7
  <2>. QED
    BY <2>1, LenProperties, ElementOfSeq
<1>9. \A k \in 1 .. Len(parts) : parts[k].width \in Nat
  BY <1>8 DEF T
<1>10. Items(parts) = R \cup zero
  BY <1>7
<1>. QED
  BY <1>8, <1>9, <1>10 DEF Items, zero, ItemsOf, ArePartsFor

\* The labels have widths.
LEMMA LabelsHaveWidths ==
  ASSUME NEW t \in Trees, NEW n \in Nodes(t), NEW tr, tr = TrailTo(t, n)
  PROVE  \A i \in DOMAIN tr : LabelWidth(tr[i]) + segmentChromeWidth \in Nat
<1>. DEFINE c == Cardinality(Above[t][n])
<1>1. /\ c \in Nat \ {0} /\ Unscanned \in Nat
      /\ DOMAIN tr = 1 .. 1 + Unscanned + c
      /\ \A i \in DOMAIN tr :
           /\ i <= Unscanned + 1 => tr[i].kind \in {"Overview", "UnscannedPrefix"}
           /\ i > Unscanned + 1 => tr[i].kind = "ScanNode" /\ tr[i].node \in Above[t][n]
  BY TrailOf, TrailAssumption
<1>. HIDE DEF c
<1>. SUFFICES ASSUME NEW i \in DOMAIN tr PROVE LabelWidth(tr[i]) + segmentChromeWidth \in Nat
  OBVIOUS
<1>2. OverviewWidth \in Nat /\ PrefixWidth \in Nat /\ \A a \in Nodes(t) : NodeWidth[a] \in Nat
  BY TrailAssumption
<1>3. LabelWidth(tr[i]) \in Nat
  <2>1. CASE i <= Unscanned + 1
    <3>1. tr[i].kind = "Overview" \/ tr[i].kind = "UnscannedPrefix"
      BY <1>1, <2>1
    <3>. QED
      BY <1>2, <3>1 DEF LabelWidth
  <2>2. CASE i > Unscanned + 1
    <3>1. tr[i].kind = "ScanNode" /\ tr[i].node \in Nodes(t)
      BY <1>1, <2>2 DEF Above
    <3>. QED
      BY <1>2, <3>1 DEF LabelWidth
  <2>. QED
    BY <1>1, <2>1, <2>2
<1>. QED
  BY <1>3 DEF segmentChromeWidth

\* Whatever the space, the layout of a trail fits in it.
LEMMA LayoutFits ==
  ASSUME NEW t \in Trees, NEW n \in Nodes(t), NEW tr, tr = TrailTo(t, n),
         NEW space \in Nat \ {0}
  PROVE  FitsIn(TrailLayout(tr, space), tr, space)
<1>. DEFINE items == DOMAIN tr
            L == Len(tr)
            preferred == [i \in items |-> LabelWidth(tr[i]) + segmentChromeWidth]
            scanRoot == Min({i \in items : tr[i].kind = "ScanNode"})
            retained == Retained(tr, scanRoot)
            hidden == items \ retained
            forItems == space - (IF hidden # {} THEN ellipsisWidth ELSE 0)
            order == <<L - 1>> \o Ascending(retained)
            reduced == ReducedInOrder([i \in retained |-> preferred[i]], order, forItems)
            width == Squeezed(reduced, forItems)
            dots == IF hidden = {} THEN <<>> ELSE <<[item |-> 0, width |-> ellipsisWidth]>>
            left == {i \in retained : i < scanRoot \/ (i = scanRoot /\ scanRoot # L)}
            before == Ascending(left)
            after == Ascending(retained \ ToSet(before))
            wide == [i \in items |-> [item |-> i, width |-> preferred[i]]]
            parts == [k \in DOMAIN before |-> [item |-> before[k], width |-> width[before[k]]]] \o dots
                     \o [k \in DOMAIN after |-> [item |-> after[k], width |-> width[after[k]]]]
            layout == TrailLayout(tr, space)
<1>1. /\ L \in Nat /\ L >= Unscanned + 2 /\ Unscanned \in Nat /\ items = 1 .. L /\ tr # <<>>
  <2>. DEFINE c == Cardinality(Above[t][n])
  <2>1. /\ c \in Nat \ {0} /\ Unscanned \in Nat /\ L = 1 + Unscanned + c /\ items = 1 .. 1 + Unscanned + c
    BY TrailOf, TrailAssumption
  <2>. HIDE DEF c
  <2>2. tr # <<>>
    BY <2>1
  <2>. QED
    BY <2>1, <2>2
<1>2. scanRoot = Unscanned + 2
  BY ScanRootOf
<1>3. preferred \in [items -> Nat]
  BY LabelsHaveWidths
<1>4. retained = {1, Unscanned + 2, L - 1, L}
  BY <1>2 DEF Retained
<1>5. layout = IF TotalWidth(preferred) <= space
               THEN [visible |-> SideBySide(wide, space), hidden |-> {}]
               ELSE [visible |-> SideBySide(parts, space), hidden |-> hidden]
  <2>1. ~ (tr = <<>> \/ space <= 0)
    BY <1>1
  <2>. QED
    BY <2>1 DEF TrailLayout
<1>6. retained \in SUBSET items /\ IsFiniteSet(retained) /\ retained # {} /\ 0 \notin retained
      /\ retained \in SUBSET Nat
  <2>. HIDE DEF retained, items, L
  <2>1. /\ retained \in SUBSET (1 .. L) /\ retained # {} /\ 0 \notin retained
        /\ retained \in SUBSET Nat
    BY <1>1, <1>4
  <2>2. IsFiniteSet(retained)
    BY <1>1, <2>1, FirstNumbers, FS_Subset
  <2>. QED
    BY <1>1, <2>1, <2>2
<1>7. CASE TotalWidth(preferred) <= space
  <2>. DEFINE s == SideBySide(wide, space)
  <2>1. layout.visible = s /\ layout.hidden = {}
    <3>. HIDE DEF layout, preferred, wide, parts, hidden
    <3>. QED
      BY <1>5, <1>7
  <2>. HIDE DEF layout, preferred
  <2>2. /\ Len(wide) = L /\ DOMAIN wide = 1 .. L
        /\ \A k \in 1 .. L : wide[k].width \in Nat /\ wide[k].item = k
    <3>1. \A k \in 1 .. L : wide[k] = [item |-> k, width |-> preferred[k]] /\ preferred[k] \in Nat
      BY <1>1, <1>3
    <3>2. DOMAIN wide = 1 .. L /\ wide \in [1 .. L -> [item : Nat, width : Nat]]
      BY <1>1, <3>1
    <3>. HIDE DEF wide, L, items
    <3>3. Len(wide) = L
      BY <1>1, <3>2, NumberedSeq
    <3>. QED
      BY <3>1, <3>2, <3>3
  <2>. HIDE DEF wide, L, items
  <2>3. AreSegmentsOf(s, wide, L, space)
    BY <1>1, <2>2, SegmentsSideBySide
  <2>. HIDE DEF s
  <2>4. {s[k].item : k \in DOMAIN s} = 1 .. L
    <3>1. \A k \in 1 .. L : s[k].item = k
      BY <2>2, <2>3 DEF AreSegmentsOf
    <3>2. DOMAIN s = 1 .. L
      BY <2>3 DEF AreSegmentsOf
    <3>3. \A k \in DOMAIN s : s[k].item = k
      BY <3>1, <3>2
    <3>. QED
      BY <3>2, <3>3, Zenon
  <2>5. /\ (1 .. L \ {0}) \cup {} = items /\ {1, Unscanned + 2, L - 1, L} \subseteq 1 .. L
        /\ 0 \notin 1 .. L
    BY <1>1
  <2>6. (\E T : s \in Seq(T)) /\ AreSideBySide(s, space)
    BY <2>3 DEF AreSegmentsOf
  <2>7. FitsIn(layout, tr, space)
    <3>1. {layout.visible[k].item : k \in DOMAIN layout.visible} = 1 .. L
      BY <2>1, <2>4
    <3>2. (\E T : layout.visible \in Seq(T)) /\ AreSideBySide(layout.visible, space)
      BY <2>1, <2>6
    <3>3. layout.hidden = {}
      BY <2>1
    <3>. QED
      BY <2>5, <3>1, <3>2, <3>3 DEF FitsIn, L, items
  <2>. QED
    BY <2>7 DEF layout
<1>8. CASE ~ (TotalWidth(preferred) <= space)
  <2>. DEFINE s == SideBySide(parts, space)
  <2>1. layout.visible = s /\ layout.hidden = hidden
    <3>. HIDE DEF layout, preferred, wide, parts, hidden
    <3>. QED
      BY <1>5, <1>8
  <2>. HIDE DEF layout, preferred
  <2>2. forItems \in Int
    BY DEF ellipsisWidth
  <2>3. width \in [retained -> Nat]
    <3>1. [i \in retained |-> preferred[i]] \in [retained -> Nat]
      BY <1>3, <1>6
    <3>2. order \in Seq(retained)
      <4>1. retained \in SUBSET Int /\ L - 1 \in retained
        <5>. HIDE DEF L
        <5>. QED
          BY <1>4, <1>6
      <4>. HIDE DEF retained, L
      <4>2. Cardinality(retained) \in Nat /\ Ascending(retained) \in [1 .. Cardinality(retained) -> retained]
        BY <1>6, <4>1, AscendingFacts
      <4>3. Ascending(retained) \in Seq(retained)
        BY <4>2, NumberedSeq
      <4>4. <<L - 1>> \in Seq(retained)
        BY <4>1
      <4>. QED
        BY <4>3, <4>4, Joined
    <3>. HIDE DEF retained, order, forItems
    <3>3. reduced \in [retained -> Nat]
      BY <1>6, <2>2, <3>1, <3>2, ReducedInOrderWidths
    <3>. HIDE DEF reduced
    <3>. QED
      BY <1>6, <2>2, <3>3, SqueezedWidths
  <2>4. left \in SUBSET retained
    OBVIOUS
  <2>. DEFINE zero == IF hidden = {} THEN {} ELSE {0}
              parts2 == PartsOf(left, width) \o dots \o PartsOf(retained \ left, width)
  <2>5. ToSet(before) = left
    <3>. HIDE DEF left, width, retained, items, L
    <3>1. left \in SUBSET Int /\ IsFiniteSet(left)
      <4>1. IsFiniteSet(left)
        BY <1>6, <2>4, FS_Subset
      <4>2. retained \in SUBSET Nat
        BY <1>6
      <4>. QED
        BY <2>4, <4>1, <4>2
    <3>2. /\ before \in [1 .. Cardinality(left) -> left]
          /\ \A a \in left : \E k \in 1 .. Cardinality(left) : before[k] = a
      BY <3>1, AscendingFacts
    <3>. HIDE DEF before
    <3>. QED
      BY <3>2 DEF ToSet
  <2>. HIDE DEF left, width, retained, items, L
  <2>6. parts = parts2
    <3>. HIDE DEF dots, hidden
    <3>. QED
      BY <2>5 DEF PartsOf
  <2>7. ArePartsFor(parts2, retained \cup zero)
    <3>1. dots = IF hidden = {} THEN <<>> ELSE <<[item |-> 0, width |-> ellipsisWidth]>>
      OBVIOUS
    <3>. HIDE DEF hidden, dots
    <3>. QED
      BY <1>6, <2>3, <2>4, <3>1, NarrowParts
  <2>. HIDE DEF parts2, zero, parts, dots
  <2>8. ArePartsFor(parts, retained \cup zero)
    BY <2>6, <2>7
  <2>9. AreSegmentsOf(s, parts, Len(parts), space)
    BY <2>8, SegmentsSideBySide DEF ArePartsFor
  <2>. HIDE DEF s
  <2>10. {s[k].item : k \in DOMAIN s} = retained \cup zero
    <3>1. DOMAIN s = 1 .. Len(parts) /\ \A k \in 1 .. Len(parts) : s[k].item = parts[k].item
      BY <2>9 DEF AreSegmentsOf
    <3>2. {parts[k].item : k \in 1 .. Len(parts)} = retained \cup zero
      BY <2>8 DEF ArePartsFor, ItemsOf
    <3>. QED
      BY <3>1, <3>2
  <2>11. (\E T : s \in Seq(T)) /\ AreSideBySide(s, space)
    BY <2>9 DEF AreSegmentsOf
  <2>12. /\ ((retained \cup zero) \ {0}) \cup hidden = items
         /\ (retained \cup zero) \cap hidden = {}
         /\ (0 \in retained \cup zero <=> hidden # {})
         /\ {1, Unscanned + 2, L - 1, L} \subseteq retained \cup zero
    <3>1. 0 \notin items
      BY <1>1
    <3>2. retained \in SUBSET items /\ 0 \notin retained
      BY <1>6
    <3>3. {1, Unscanned + 2, L - 1, L} \subseteq retained
      BY <1>4
    <3>. QED
      BY <3>1, <3>2, <3>3 DEF zero
  <2>. HIDE DEF hidden
  <2>13. FitsIn(layout, tr, space)
    <3>1. {layout.visible[k].item : k \in DOMAIN layout.visible} = retained \cup zero
      BY <2>1, <2>10
    <3>2. (\E T : layout.visible \in Seq(T)) /\ AreSideBySide(layout.visible, space)
      BY <2>1, <2>11
    <3>3. layout.hidden = hidden
      BY <2>1
    <3>. QED
      BY <2>12, <3>1, <3>2, <3>3 DEF FitsIn, L, items
  <2>. QED
    BY <2>13 DEF layout
<1>. QED
  BY <1>7, <1>8

\* The navigation has the same trees.
LEMMA SameForest ==
  /\ Navigation!Above = Above
  /\ \A t, ex, n : Navigation!VisibleDirectory(t, ex, n)
                     <=> n \in Directory[t] /\ IsVisible(t, ex, n)
<1>1. \A t : Navigation!Nodes(t) = Nodes(t)
  BY DEF Navigation!Nodes, Nodes
<1>2. \A t, S : Navigation!ParentClosed(t, S) <=> ParentClosed(t, S)
  BY DEF Navigation!ParentClosed, ParentClosed, Navigation!invalid_node, invalid_node
<1>3. Navigation!Above = Above
  BY <1>1, <1>2 DEF Navigation!Above, Above
<1>. QED
  BY <1>1, <1>3 DEF Navigation!VisibleDirectory, Navigation!IsVisible, IsVisible

\* The first visible folder on the way up from a node.
LEMMA NearestIs ==
  ASSUME NEW t, NEW ex, NEW n \in Nodes(t),
         NEW found, found = {a \in Nodes(t) : /\ a \in Above[t][n]
                                              /\ a \in Directory[t]
                                              /\ IsVisible(t, ex, a)},
         found # {}
  PROVE  Navigation!NearestVisibleDirectory(t, ex, n)
           = CHOOSE a \in found : \A b \in found : b <= a
<1>. DEFINE other == {a \in Navigation!Nodes(t) : /\ n \in Navigation!Nodes(t)
                                                  /\ a \in Navigation!Above[t][n]
                                                  /\ Navigation!VisibleDirectory(t, ex, a)}
<1>1. Navigation!Nodes(t) = Nodes(t)
  BY DEF Navigation!Nodes, Nodes
<1>2. other = found
  BY <1>1, SameForest
<1>3. Navigation!NearestVisibleDirectory(t, ex, n)
        = IF other = {} THEN Navigation!invalid_node
          ELSE CHOOSE a \in other : \A b \in other : b <= a
  BY DEF Navigation!NearestVisibleDirectory
<1>. HIDE DEF other
<1>. QED
  BY <1>2, <1>3

\* The way up from a node of the tree always finds a visible directory.
LEMMA NearestIsShown ==
  ASSUME NEW t \in Trees, NEW ex, Root \notin ex, NEW n \in Nodes(t)
  PROVE  LET d == Navigation!NearestVisibleDirectory(t, ex, n)
         IN  d \in Directory[t] /\ IsVisible(t, ex, d)
<1>. DEFINE found == {a \in Nodes(t) : /\ a \in Above[t][n]
                                       /\ a \in Directory[t]
                                       /\ IsVisible(t, ex, a)}
<1>1. Root \in found
  BY TreeFacts, AboveRoot, RootIsVisible
<1>2. PICK last \in Nat : Nodes(t) = 0 .. last
  BY TreeFacts
<1>3. \E a \in found : \A b \in found : b <= a
  <2>1. found \in SUBSET (0 .. last) /\ found # {}
    BY <1>1, <1>2
  <2>. HIDE DEF found
  <2>. QED
    BY <1>2, <2>1, GreatestMember
<1>4. Navigation!NearestVisibleDirectory(t, ex, n) \in found
  <2>1. found # {}
    BY <1>1
  <2>2. Navigation!NearestVisibleDirectory(t, ex, n) =
          CHOOSE a \in found : \A b \in found : b <= a
    BY <2>1, NearestIs
  <2>. HIDE DEF found
  <2>. QED
    BY <1>3, <2>2
<1>. QED
  BY <1>4

-----------------------------------------------------------------------------
\* The folder on display is a visible one, and the chart and the trail are its.
PlaceInv ==
  /\ IsReview(scan, review)
  /\ root \in Directory[scan]
  /\ IsVisible(scan, review, root)
  /\ arcs = ArcsOf(scan, review, root)
  /\ trail = TrailTo(scan, root)

\* The layout of the trail is one of this trail, if not in the present room.
LayoutInv ==
  /\ room \in Nat /\ laidRoom \in Nat
  /\ laidRoom # 0 => laidOut = TrailLayout(trail, laidRoom)

\* The scan that is shown is one of the trees.
LEMMA ScanIsTree == scan \in Trees /\ Directory[scan] \subseteq Nodes(scan)
BY ChartAssumption, TreeFacts

\* The analyzer opens at the scanned folder, with nothing collected.
LEMMA InitPlace == Init => PlaceInv
<1>1. IsReview(scan, {})
  BY DEF IsReview
<1>2. Root \in Directory[scan] /\ IsVisible(scan, {}, Root)
  BY ScanIsTree, RootIsVisible
<1>. QED
  BY <1>1, <1>2 DEF Init, PlaceInv

\* A change of the review leads to a visible folder.
LEMMA ReflowKeepsPlace ==
  ASSUME PlaceInv, NEW reviewed, IsReview(scan, reviewed), Reflow(reviewed)
  PROVE  PlaceInv'
<1>1. root \in Nodes(scan) /\ Root \notin reviewed
  BY ScanIsTree DEF PlaceInv, IsReview
<1>2. root' \in Directory[scan] /\ IsVisible(scan, reviewed, root')
  BY <1>1, ScanIsTree, NearestIsShown DEF Reflow
<1>. QED
  BY <1>2 DEF PlaceInv, Reflow, SetBreadcrumb

\* Arcs and trail go with the folder and the review: each operation that
\* changes one of those builds both anew.
LEMMA NextKeepsPlace == PlaceInv /\ [Next]_vars => PlaceInv'
<1>. SUFFICES ASSUME PlaceInv, [Next]_vars PROVE PlaceInv'
  OBVIOUS
<1>1. ASSUME NEW n \in Nodes(scan), NavigateToRoot(n) PROVE PlaceInv'
  BY <1>1 DEF PlaceInv, NavigateToRoot, SetBreadcrumb, Visible
<1>2. ASSUME NEW n \in Nodes(scan), RestoreReviewItem(n) PROVE PlaceInv'
  <2>1. IsReview(scan, review \ {n})
    BY DEF PlaceInv, IsReview
  <2>. QED
    BY <1>2, <2>1, ReflowKeepsPlace DEF RestoreReviewItem
<1>3. ASSUME NEW n \in Collectable, AddToReview(n) PROVE PlaceInv'
  <2>1. IsReview(scan, WithCollected(scan, review, n))
    BY <1>3, ScanIsTree, CollectedIsReview DEF AddToReview, PlaceInv
  <2>. QED
    BY <1>3, <2>1, ReflowKeepsPlace DEF AddToReview
<1>4. ASSUME UNCHANGED <<root, review, arcs, trail>> PROVE PlaceInv'
  BY <1>4 DEF PlaceInv
<1>5. AdvanceTransition \/ CancelTransition \/ Draw \/ UNCHANGED vars
        => UNCHANGED <<root, review, arcs, trail>>
  BY DEF AdvanceTransition, CancelTransition, Draw, vars, chartVars, trailVars
<1>6. \A r \in Rooms : Resize(r) => UNCHANGED <<root, review, arcs, trail>>
  BY DEF Resize
<1>. QED
  BY <1>1, <1>2, <1>3, <1>4, <1>5, <1>6 DEF Next

\* The layout of the trail is of the trail there is, or it was dropped.
LEMMA NextKeepsLayout == LayoutInv /\ [Next]_vars => LayoutInv'
<1>. SUFFICES ASSUME LayoutInv, [Next]_vars PROVE LayoutInv'
  OBVIOUS
<1>1. ASSUME laidRoom' = 0, UNCHANGED room PROVE LayoutInv'
  BY <1>1 DEF LayoutInv
<1>2. \A n \in Nodes(scan) : NavigateToRoot(n) \/ RestoreReviewItem(n) => laidRoom' = 0 /\ UNCHANGED room
  BY DEF NavigateToRoot, RestoreReviewItem, Reflow, SetBreadcrumb, LayoutDropped
<1>3. \A n \in Collectable : AddToReview(n) => laidRoom' = 0 /\ UNCHANGED room
  BY DEF AddToReview, Reflow, SetBreadcrumb, LayoutDropped
<1>4. ASSUME UNCHANGED <<trail, laidOut, laidRoom>>, room' \in Nat PROVE LayoutInv'
  BY <1>4 DEF LayoutInv
<1>5. AdvanceTransition \/ CancelTransition \/ UNCHANGED vars
        => UNCHANGED <<trail, laidOut, laidRoom>> /\ room' = room
  BY DEF AdvanceTransition, CancelTransition, vars, chartVars, trailVars
<1>6. \A r \in Rooms : Resize(r) => UNCHANGED <<trail, laidOut, laidRoom>> /\ room' \in Nat
  BY ChartAssumption DEF Resize
<1>7. Draw => LayoutInv'
  BY DEF Draw, LayoutInv
<1>8. room \in Nat
  BY DEF LayoutInv
<1>. QED
  BY <1>1, <1>2, <1>3, <1>4, <1>5, <1>6, <1>7, <1>8 DEF Next

\* Nothing is laid out before the first draw.
LEMMA InitLayout == Init => LayoutInv
BY ChartAssumption DEF Init, LayoutInv

\* What PlaceInv and LayoutInv say of the trail.
LEMMA TrailInvFits == PlaceInv /\ LayoutInv => TrailFits
<1>. SUFFICES ASSUME PlaceInv, LayoutInv, laidRoom # 0
              PROVE  LET inSight == laidOut.visible
                         items == {inSight[k].item : k \in DOMAIN inSight}
                     IN  /\ (items \ {0}) \cup laidOut.hidden = DOMAIN trail
                         /\ (items \cap laidOut.hidden = {}) /\ (0 \in items <=> laidOut.hidden # {})
                         /\ {1, Unscanned + 2, Len(trail) - 1, Len(trail)} \subseteq items
                         /\ \A k \in DOMAIN inSight :
                              /\ 0 <= inSight[k].from /\ inSight[k].from <= inSight[k].to /\ inSight[k].to <= laidRoom
                              /\ k > 1 => inSight[k].from = inSight[k - 1].to
                         /\ \A x \in {inSight[k].from : k \in DOMAIN inSight} :
                              LET hits == TrailHits(laidOut, x)
                              IN  /\ Len(hits) <= 1
                                  /\ \A s \in ToSet(hits) : s.item # 0 =>
                                       LeadsTo(trail[s.item]) \subseteq Above[scan][root]
  BY DEF TrailFits
<1>. DEFINE inSight == laidOut.visible
            items == {inSight[k].item : k \in DOMAIN inSight}
<1>1. laidRoom \in Nat \ {0} /\ laidOut = TrailLayout(trail, laidRoom)
  BY DEF LayoutInv
<1>2. scan \in Trees /\ root \in Nodes(scan) /\ trail = TrailTo(scan, root)
  BY ScanIsTree DEF PlaceInv
<1>3. FitsIn(laidOut, trail, laidRoom)
  BY <1>1, <1>2, LayoutFits
<1>4. /\ (items \ {0}) \cup laidOut.hidden = DOMAIN trail
      /\ (items \cap laidOut.hidden = {}) /\ (0 \in items <=> laidOut.hidden # {})
      /\ {1, Unscanned + 2, Len(trail) - 1, Len(trail)} \subseteq items
  BY <1>3 DEF FitsIn
<1>5. PICK T : inSight \in Seq(T)
  BY <1>3 DEF FitsIn
<1>6. AreSideBySide(inSight, laidRoom)
  BY <1>3 DEF FitsIn
<1>7. DOMAIN inSight = 1 .. Len(inSight) /\ Len(inSight) \in Nat
  BY <1>5, LenProperties
<1>. HIDE DEF inSight
<1>8. ASSUME NEW k \in DOMAIN inSight
      PROVE  /\ 0 <= inSight[k].from /\ inSight[k].from <= inSight[k].to /\ inSight[k].to <= laidRoom
             /\ k > 1 => inSight[k].from = inSight[k - 1].to
  <2>1. k \in 1 .. Len(inSight) /\ (k > 1 => k \in 2 .. Len(inSight))
    BY <1>7
  <2>2. inSight[k].from \in Nat /\ inSight[k].from <= inSight[k].to /\ inSight[k].to <= laidRoom
    BY <1>6 DEF AreSideBySide
  <2>. QED
    BY <1>6, <2>1, <2>2 DEF AreSideBySide
<1>9. ASSUME NEW x \in {inSight[k].from : k \in DOMAIN inSight}
      PROVE  LET hits == TrailHits(laidOut, x)
             IN  /\ Len(hits) <= 1
                 /\ \A s \in ToSet(hits) : s.item # 0 =>
                      LeadsTo(trail[s.item]) \subseteq Above[scan][root]
  <2>1. x \in Int
    BY <1>6 DEF AreSideBySide
  <2>2. /\ Len(TrailHits(laidOut, x)) <= 1
        /\ \A s \in ToSet(TrailHits(laidOut, x)) : \E k \in DOMAIN inSight : s = inSight[k]
    BY <1>1, <1>5, <1>6, <2>1, OneTrailHit DEF inSight
  <2>3. ASSUME NEW s \in ToSet(TrailHits(laidOut, x)), s.item # 0
        PROVE  LeadsTo(trail[s.item]) \subseteq Above[scan][root]
    <3>1. s.item \in DOMAIN trail
      BY <1>4, <2>2, <2>3
    <3>2. \/ trail[s.item].kind \in {"Overview", "UnscannedPrefix"}
          \/ trail[s.item].kind = "ScanNode" /\ trail[s.item].node \in Above[scan][root]
      <4>. DEFINE c == Cardinality(Above[scan][root])
      <4>1. /\ c \in Nat \ {0} /\ Unscanned \in Nat
            /\ DOMAIN trail = 1 .. 1 + Unscanned + c
            /\ \A i \in DOMAIN trail :
                 /\ i <= Unscanned + 1 => trail[i].kind \in {"Overview", "UnscannedPrefix"}
                 /\ i > Unscanned + 1 => trail[i].kind = "ScanNode" /\ trail[i].node \in Above[scan][root]
        BY <1>2, TrailOf, TrailAssumption
      <4>. HIDE DEF c
      <4>. QED
        BY <3>1, <4>1
    <3>. QED
      BY <3>2 DEF LeadsTo
  <2>. QED
    BY <2>2, <2>3
<1>. QED
  BY <1>4, <1>8, <1>9 DEF inSight

\* The trail shows what it must where it must, and a click on it leads up.
THEOREM TrailAlwaysFits == Spec => []TrailFits
BY InitPlace, InitLayout, NextKeepsPlace, NextKeepsLayout, TrailInvFits, PTL DEF Spec

-----------------------------------------------------------------------------
(***************************************************************************)
(* The chart.                                                              *)
(***************************************************************************)

\* The visible files in n.
ShownFiles(t, r, n) == {f \in Files(t) \cap Below(t, n) : IsVisible(t, r, f)}

\* What is in a folder that is hidden is hidden as well.
LEMMA HiddenBelow ==
  ASSUME NEW t \in Trees, NEW r, NEW n \in Nodes(t), ~IsVisible(t, r, n)
  PROVE  ShownFiles(t, r, n) = {}
<1>. SUFFICES ASSUME NEW f \in ShownFiles(t, r, n) PROVE FALSE
  OBVIOUS
<1>1. f \in Nodes(t) /\ n \in Above[t][f] /\ IsVisible(t, r, f)
  BY DEF ShownFiles, Files, Below
<1>2. PICK a : a \in Above[t][n] /\ a \in r
  BY DEF IsVisible
<1>3. a \in Above[t][f]
  BY <1>1, <1>2, AboveTransitive
<1>. QED
  BY <1>1, <1>2, <1>3 DEF IsVisible

\* A node shows the bytes of the visible files in it.
LEMMA SizeIsShown ==
  ASSUME NEW t \in Trees, TotalsFit(t), NEW r, IsReview(t, r), NEW n \in Nodes(t)
  PROVE  /\ ShownFiles(t, r, n) \in SUBSET FilesBelow(t, n)
         /\ ShownFiles(t, r, n) \in SUBSET Nodes(t)
         /\ EffectiveSize(t, r, n) = BytesIn(t, ShownFiles(t, r, n))
         /\ EffectiveSize(t, r, n) \in 0 .. MaxBytes
<1>1. /\ ShownFiles(t, r, n) \in SUBSET FilesBelow(t, n)
      /\ ShownFiles(t, r, n) \in SUBSET Files(t)
      /\ Files(t) \in SUBSET Nodes(t)
  BY DEF ShownFiles, FilesBelow, Files
<1>2. EffectiveSize(t, r, n) = BytesIn(t, ShownFiles(t, r, n))
  <2>1. CASE IsVisible(t, r, n)
    BY <2>1, EffectiveIsVisible DEF ShownFiles
  <2>2. CASE ~IsVisible(t, r, n)
    <3>1. EffectiveSize(t, r, n) = 0
      BY <2>2 DEF EffectiveSize
    <3>2. ShownFiles(t, r, n) = {}
      BY <2>2, HiddenBelow
    <3>. QED
      BY <3>1, <3>2, BytesInFacts
  <2>. QED
    BY <2>1, <2>2
<1>3. BytesIn(t, ShownFiles(t, r, n)) \in Nat
  BY <1>1, BytesInFacts
<1>4. BytesIn(t, ShownFiles(t, r, n)) <= BytesIn(t, Files(t))
  BY <1>1, BytesInGrows
<1>5. BytesIn(t, Files(t)) \in Nat /\ BytesIn(t, Files(t)) <= MaxBytes
  BY <1>1, BytesInFacts DEF TotalsFit
<1>6. MaxBytes \in Nat
  BY TreesAssumption
<1>. QED
  BY <1>1, <1>2, <1>3, <1>4, <1>5, <1>6

\* The children of n that have something to show.
CountedIn(t, r, n) == {c \in Nodes(t) : Parent[t][c] = n /\ EffectiveSize(t, r, c) > 0}

SizesOf(t, r, C) == [c \in C |-> EffectiveSize(t, r, c)]

\* What a folder shows is what its children show.
LEMMA FolderSum ==
  ASSUME NEW t \in Trees, TotalsFit(t), NEW r, IsReview(t, r), NEW n \in Directory[t]
  PROVE  /\ CountedIn(t, r, n) \in SUBSET ChildrenOf(t, n)
         /\ IsFiniteSet(CountedIn(t, r, n))
         /\ SumFunctionOnSet(SizesOf(t, r, CountedIn(t, r, n)), CountedIn(t, r, n))
              = EffectiveSize(t, r, n)
<1>. DEFINE D == ChildrenOf(t, n)
            C == CountedIn(t, r, n)
            size == SizesOf(t, r, D)
            part == [c \in D |-> ShownFiles(t, r, c)]
            none == [c \in D |-> 0]
<1>1. n \in Nodes(t) /\ D \in SUBSET Nodes(t) /\ C \in SUBSET D
  BY TreeFacts DEF CountedIn, ChildrenOf
<1>2. IsFiniteSet(D) /\ IsFiniteSet(C) /\ IsFiniteSet(D \ C)
  BY <1>1, TreeIsFinite, FS_Subset
<1>3. \A c \in D : size[c] \in Nat /\ size[c] = BytesIn(t, part[c])
  BY <1>1, SizeIsShown DEF SizesOf
<1>4. part \in [D -> SUBSET Nodes(t)]
  BY <1>1, SizeIsShown
<1>5. ASSUME NEW c \in D, NEW d \in D, c # d
      PROVE  part[c] \cap part[d] = {}
  <2>1. c \notin Above[t][d] /\ d \notin Above[t][c]
    BY <1>1, <1>5, ChildrenApart
  <2>2. FilesBelow(t, c) \cap FilesBelow(t, d) = {}
    BY <1>1, <2>1, BelowApart
  <2>3. /\ ShownFiles(t, r, c) \in SUBSET FilesBelow(t, c)
        /\ ShownFiles(t, r, d) \in SUBSET FilesBelow(t, d)
    BY <1>1, SizeIsShown
  <2>. QED
    BY <2>2, <2>3
<1>6. UNION {part[c] : c \in D} = ShownFiles(t, r, n)
  <2>1. FilesBelow(t, n) = UNION {FilesBelow(t, c) : c \in D}
    BY BelowFolder
  <2>2. \A m : ShownFiles(t, r, m) = {f \in FilesBelow(t, m) : IsVisible(t, r, f)}
    BY DEF ShownFiles, FilesBelow
  <2>. QED
    BY <2>1, <2>2
<1>7. SumFunctionOnSet(size, D) = EffectiveSize(t, r, n)
  <2>. HIDE DEF size, part, D
  <2>1. Summable(Bytes[t], Nodes(t))
    BY TreeIsSummable
  <2>2. SumFunctionOnSet(size, D) = SumFunctionOnSet(Bytes[t], UNION {part[c] : c \in D})
    BY <1>2, <1>3, <1>4, <1>5, <2>1, SumParts DEF BytesIn
  <2>. QED
    BY <1>1, <1>6, <2>2, SizeIsShown DEF BytesIn
<1>8. Summable(size, D)
  BY <1>2, <1>3 DEF Summable
<1>9. SumFunctionOnSet(size, D \ C) = 0
  <2>1. ASSUME NEW c \in D \ C PROVE size[c] = 0
    <3>1. size[c] = EffectiveSize(t, r, c) /\ size[c] \in Nat
      BY <1>3 DEF SizesOf
    <3>2. ~(EffectiveSize(t, r, c) > 0)
      BY DEF CountedIn, ChildrenOf
    <3>. QED
      BY <3>1, <3>2
  <2>2. Summable(size, D \ C) /\ Summable(none, D \ C)
    BY <1>2, <1>3 DEF Summable
  <2>3. \A c \in D \ C : 1 * size[c] <= 0 * none[c] + 0
    BY <2>1
  <2>. HIDE DEF size, D, C, none
  <2>4. /\ Cardinality(D \ C) \in Nat
        /\ 1 * SumFunctionOnSet(size, D \ C)
             <= 0 * SumFunctionOnSet(none, D \ C) + 0 * Cardinality(D \ C)
    BY <2>2, <2>3, SumBounded
  <2>5. SumFunctionOnSet(size, D \ C) \in Nat /\ SumFunctionOnSet(none, D \ C) \in Nat
    BY <2>2, SumFacts
  <2>. QED
    BY <2>4, <2>5
<1>10. SumFunctionOnSet(size, D) = SumFunctionOnSet(size, C) + SumFunctionOnSet(size, D \ C)
  <2>. HIDE DEF size, D, C
  <2>1. D = C \cup (D \ C) /\ C \cap (D \ C) = {}
    BY <1>1
  <2>. QED
    BY <1>1, <1>8, <2>1, SumDisjoint
<1>11. SumFunctionOnSet(SizesOf(t, r, C), C) = SumFunctionOnSet(size, C)
  <2>1. \A c \in C : SizesOf(t, r, C)[c] = size[c]
    BY <1>1 DEF SizesOf
  <2>2. Summable(SizesOf(t, r, C), C)
    BY <1>1, <1>2, <1>3, <2>1 DEF Summable
  <2>. HIDE DEF size, C
  <2>. QED
    BY <2>1, <2>2, SumCongruence
<1>12. SumFunctionOnSet(size, C) \in Nat
  <2>. HIDE DEF size, D, C
  <2>. QED
    BY <1>1, <1>8, SumFacts
<1>. QED
  BY <1>1, <1>2, <1>7, <1>9, <1>10, <1>11, <1>12

\* s has each member of C once.
IsListing(s, C) ==
  /\ s \in Seq(C)
  /\ Len(s) \in Nat
  /\ DOMAIN s = 1 .. Len(s)
  /\ \A k \in 1 .. Len(s) : s[k] \in C
  /\ \A c \in C : \E k \in 1 .. Len(s) : s[k] = c
  /\ \A k, j \in 1 .. Len(s) : s[k] = s[j] => k = j

\* The list of children has each of them once.
LEMMA CountedListing ==
  ASSUME NEW t \in Trees, NEW r, NEW n
  PROVE  /\ IsListing(CountedChildren(t, r, n), CountedIn(t, r, n))
         /\ ToSet(CountedChildren(t, r, n)) = CountedIn(t, r, n)
<1>. DEFINE C == CountedIn(t, r, n)
            R == {p \in C \X C : p[1] > p[2]}
            s == CountedChildren(t, r, n)
<1>1. C \in SUBSET Nodes(t) /\ C \in SUBSET Int
  BY TreeFacts DEF CountedIn
<1>2. IsFiniteSet(C)
  BY <1>1, TreeIsFinite, FS_Subset
<1>3. \A a, b \in C : <<a, b>> \in R <=> a > b
  OBVIOUS
<1>4. IsOrder(C, R)
  <2>. HIDE DEF R, C
  <2>. QED
    BY <1>1, <1>3 DEF IsOrder
<1>5. s = InOrder(C, LAMBDA a, b : a > b)
  BY DEF CountedChildren, CountedIn
<1>6. s = Numbering(C, R)
  <2>1. \A a \in C : {b \in C : b > a} = Earlier(C, R, a)
    BY <1>3 DEF Earlier
  <2>. HIDE DEF R, C
  <2>2. ASSUME NEW k \in 1 .. Cardinality(C)
        PROVE  (CHOOSE a \in C : Cardinality({b \in C : b > a}) = k - 1)
             = (CHOOSE a \in C : Cardinality(Earlier(C, R, a)) = k - 1)
    BY <2>1
  <2>3. s = [k \in 1 .. Cardinality(C) |->
               CHOOSE a \in C : Cardinality({b \in C : b > a}) = k - 1]
    BY <1>5 DEF InOrder
  <2>4. Numbering(C, R) = [k \in 1 .. Cardinality(C) |->
                            CHOOSE a \in C : Cardinality(Earlier(C, R, a)) = k - 1]
    BY DEF Numbering
  <2>. QED
    BY <2>2, <2>3, <2>4
<1>. HIDE DEF R, C, s
<1>7. /\ Cardinality(C) \in Nat
      /\ s \in [1 .. Cardinality(C) -> C]
      /\ \A a \in C : \E k \in 1 .. Cardinality(C) : s[k] = a
      /\ \A k, j \in 1 .. Cardinality(C) : s[k] = s[j] => k = j
  BY <1>2, <1>4, <1>6, NumberingFacts
<1>8. s \in Seq(C) /\ Len(s) = Cardinality(C) /\ DOMAIN s = 1 .. Cardinality(C)
  BY <1>7, NumberedSeq
<1>9. IsListing(s, C)
  BY <1>7, <1>8 DEF IsListing
<1>10. ToSet(s) = C
  BY <1>9 DEF IsListing, ToSet
<1>. QED
  BY <1>9, <1>10 DEF C, s

\* A positive factor can be dropped.
LEMMA FactorDropped ==
  ASSUME NEW d \in Nat \ {0}, NEW x \in Int, NEW y \in Int, d * x <= d * y
  PROVE  x <= y
<1>. SUFFICES ASSUME x >= y + 1 PROVE FALSE
  OBVIOUS
<1>1. d * x >= d * (y + 1)
  OBVIOUS
<1>2. d * (y + 1) = d * y + d
  OBVIOUS
<1>. QED
  BY <1>1, <1>2

\* A quotient is the last whole number that is not more.
LEMMA Quotient ==
  ASSUME NEW x \in Nat, NEW d \in Nat \ {0}
  PROVE  /\ x \div d \in Nat
         /\ d * (x \div d) <= x
         /\ x < d * (x \div d) + d
<1>1. x \div d \in Int
  OBVIOUS
<1>2. x = d * (x \div d) + (x % d)
  OBVIOUS
<1>3. x % d \in 0 .. d - 1
  OBVIOUS
<1>4. x % d \in Int /\ 0 <= x % d /\ x % d < d
  BY <1>3
<1>. DEFINE q == x \div d
<1>. HIDE DEF q
<1>5. d * q <= x /\ x < d * q + d
  BY <1>1, <1>2, <1>4 DEF q
<1>6. q >= 0
  <2>. SUFFICES ASSUME q <= -1 PROVE FALSE
    BY <1>1 DEF q
  <2>1. q \in Int
    BY <1>1 DEF q
  <2>2. d * q <= d * (-1)
    BY <2>1
  <2>3. d * (-1) = -d
    OBVIOUS
  <2>. QED
    BY <1>5, <2>1, <2>2, <2>3
<1>. QED
  BY <1>1, <1>5, <1>6 DEF q

\* A share is half a part off at most.
LEMMA ShareBounds ==
  ASSUME NEW b \in Nat, NEW w \in Nat, NEW total \in Nat \ {0}
  PROVE  /\ Share(b, w, total) \in Nat
         /\ (2 * total) * Share(b, w, total) <= (2 * w) * b + total
         /\ (2 * w) * b <= (2 * total) * Share(b, w, total) + total
<1>. DEFINE x == 2 * b * w + total
            d == 2 * total
            q == Share(b, w, total)
<1>1. 2 * b * w = (2 * w) * b /\ (2 * w) * b \in Nat
  OBVIOUS
<1>2. x \in Nat /\ d \in Nat \ {0}
  BY <1>1
<1>3. q = x \div d
  BY DEF Share
<1>4. q \in Nat /\ d * q <= x /\ x < d * q + d
  <2>. HIDE DEF x, d, q
  <2>. QED
    BY <1>2, <1>3, Quotient
<1>5. d * q \in Nat
  BY <1>2, <1>4
<1>. DEFINE p == d * q
            v == (2 * w) * b
<1>6. p <= v + total /\ v + total < p + 2 * total /\ p \in Nat /\ v \in Nat
  BY <1>1, <1>4, <1>5
<1>7. p <= v + total /\ v <= p + total
  <2>. HIDE DEF p, v
  <2>. QED
    BY <1>6
<1>. QED
  BY <1>4, <1>7

\* f gives the members of S their shares of w, by what g gives them of total.
AreShares(f, g, S, w, total) ==
  /\ Summable(g, S)
  /\ \A x \in S : f[x] = Share(g[x], w, total)

\* Shares together are as wide as what they are shares of, but for half a part
\* each.
LEMMA SharesTogether ==
  ASSUME NEW S, NEW f, NEW g, NEW w \in Nat, NEW total \in Nat \ {0},
         AreShares(f, g, S, w, total),
         SumFunctionOnSet(g, S) <= total
  PROVE  /\ Summable(f, S)
         /\ SumFunctionOnSet(f, S) \in Nat
         /\ Cardinality(S) \in Nat
         /\ 2 * SumFunctionOnSet(f, S) <= 2 * w + Cardinality(S)
         /\ SumFunctionOnSet(g, S) = total =>
              2 * w <= 2 * SumFunctionOnSet(f, S) + Cardinality(S)
<1>. DEFINE a == 2 * total
            b == 2 * w
            F == SumFunctionOnSet(f, S)
            G == SumFunctionOnSet(g, S)
            n == Cardinality(S)
<1>1. a \in Nat /\ b \in Nat /\ total \in Nat
  OBVIOUS
<1>2. ASSUME NEW x \in S
      PROVE  /\ f[x] \in Nat
             /\ a * f[x] <= b * g[x] + total
             /\ b * g[x] <= a * f[x] + total
  <2>1. g[x] \in Nat /\ f[x] = Share(g[x], w, total)
    BY DEF AreShares, Summable
  <2>. QED
    BY <2>1, ShareBounds
<1>3. Summable(g, S) /\ Summable(f, S)
  BY <1>2 DEF AreShares, Summable
<1>. HIDE DEF a, b
<1>4. n \in Nat /\ a * F <= b * G + total * n
  BY <1>1, <1>2, <1>3, SumBounded
<1>5. b * G <= a * F + total * n
  BY <1>1, <1>2, <1>3, SumBounded
<1>6. F \in Nat /\ G \in Nat /\ G <= total
  BY <1>3, SumFacts
<1>. HIDE DEF F, G, n
<1>7. b * G <= b * total
  BY <1>1, <1>6
<1>8. a * F = total * (2 * F) /\ b * total = total * (2 * w)
  BY <1>6 DEF a, b
<1>9. total * (2 * F) <= total * (2 * w) + total * n
  <2>1. a * F \in Int /\ b * G \in Int /\ b * total \in Int /\ total * n \in Int
    BY <1>1, <1>4, <1>6
  <2>. QED
    BY <1>4, <1>7, <1>8, <2>1
<1>10. total * (2 * w) + total * n = total * (2 * w + n)
  BY <1>4
<1>11. 2 * F <= 2 * w + n
  <2>1. 2 * F \in Int /\ 2 * w + n \in Int
    BY <1>4, <1>6
  <2>2. total * (2 * F) <= total * (2 * w + n)
    BY <1>9, <1>10
  <2>. QED
    BY <2>1, <2>2, FactorDropped
<1>12. ASSUME G = total PROVE 2 * w <= 2 * F + n
  <2>1. total * (2 * w) <= total * (2 * F) + total * n
    BY <1>5, <1>8, <1>12
  <2>2. total * (2 * F) + total * n = total * (2 * F + n)
    BY <1>4, <1>6
  <2>3. 2 * w \in Int /\ 2 * F + n \in Int
    BY <1>4, <1>6
  <2>4. total * (2 * w) <= total * (2 * F + n)
    BY <2>1, <2>2
  <2>. QED
    BY <2>3, <2>4, FactorDropped
<1>. QED
  BY <1>3, <1>4, <1>6, <1>11, <1>12 DEF F, G, n

\* The children of C that have an arc of their own.
IsSingle(single, C, sweep) ==
  /\ single \in Seq(C)
  /\ Len(single) \in Nat
  /\ DOMAIN single = 1 .. Len(single)
  /\ \A k \in 1 .. Len(single) : single[k] \in C /\ sweep[single[k]] >= MinSweep
  /\ \A k, j \in 1 .. Len(single) : single[k] = single[j] => k = j

WideOf(counted, sweep) ==
  MembersAt(counted, {k \in DOMAIN counted : sweep[counted[k]] >= MinSweep})

SingleOf(counted, sweep, remaining) ==
  SubSeq(WideOf(counted, sweep), 1,
         IndividualLimit(WideOf(counted, sweep), counted, remaining))

\* Each has an arc once, and there is room for one more unless all have theirs.
LEMMA SingleFacts ==
  ASSUME NEW C, NEW counted, IsListing(counted, C), NEW sweep,
         NEW remaining \in Nat \ {0}
  PROVE  LET single == SingleOf(counted, sweep, remaining)
         IN  /\ IsSingle(single, C, sweep)
             /\ Len(single) <= remaining
             /\ ToSet(counted) # ToSet(single) => Len(single) + 1 <= remaining
<1>. DEFINE K == {k \in DOMAIN counted : sweep[counted[k]] >= MinSweep}
            wide == WideOf(counted, sweep)
            limit == IndividualLimit(wide, counted, remaining)
            single == SingleOf(counted, sweep, remaining)
<1>1. /\ counted \in Seq(C) /\ Len(counted) \in Nat /\ DOMAIN counted = 1 .. Len(counted)
      /\ \A k \in 1 .. Len(counted) : counted[k] \in C
      /\ \A k, j \in 1 .. Len(counted) : counted[k] = counted[j] => k = j
  BY DEF IsListing
<1>2. K \in SUBSET DOMAIN counted /\ K \in SUBSET Int
  BY <1>1
<1>3. wide = MembersAt(counted, K)
  BY DEF WideOf
<1>4. IsFiniteSet(K) /\ wide \in Seq(C) /\ Len(wide) = Cardinality(K)
  BY <1>1, <1>2, <1>3, MembersAtSeq
<1>5. /\ Cardinality(K) \in Nat
      /\ DOMAIN wide = 1 .. Len(wide)
      /\ \A k \in 1 .. Len(wide) : Ascending(K)[k] \in K /\ wide[k] = counted[Ascending(K)[k]]
  <2>. HIDE DEF wide, K
  <2>. QED
    BY <1>2, <1>3, <1>4, MembersAtFacts
<1>6. \A k, j \in 1 .. Len(wide) : Ascending(K)[k] = Ascending(K)[j] => k = j
  BY <1>2, <1>4, AscendingFacts
<1>7. \A k \in 1 .. Len(wide) : wide[k] \in C /\ sweep[wide[k]] >= MinSweep
  BY <1>1, <1>5
<1>8. \A k, j \in 1 .. Len(wide) : wide[k] = wide[j] => k = j
  <2>. HIDE DEF wide, K
  <2>. QED
    BY <1>1, <1>2, <1>5, <1>6
<1>9. Len(wide) \in Nat
  BY <1>4, <1>5
<1>. HIDE DEF wide, K
<1>10. /\ limit \in 0 .. Len(wide) /\ limit <= remaining
       /\ limit + 1 <= remaining \/ (wide = counted /\ limit = Len(wide))
  BY <1>9 DEF IndividualLimit
<1>. HIDE DEF limit
<1>11. single = SubSeq(wide, 1, limit)
  BY DEF SingleOf, wide, limit
<1>12. /\ single \in Seq(C) /\ Len(single) = limit
       /\ \A k \in 1 .. limit : single[k] = wide[k]
  <2>1. 1 \in 1 .. Len(wide) + 1 /\ limit \in 1 - 1 .. Len(wide)
    BY <1>9, <1>10
  <2>2. limit - 1 + 1 = limit /\ \A k \in 1 .. limit : 1 + k - 1 = k
    BY <1>10
  <2>. QED
    BY <1>4, <1>11, <2>1, <2>2, SubSeqProperties
<1>. HIDE DEF single
<1>13. \A k \in 1 .. limit : k \in 1 .. Len(wide)
  BY <1>9, <1>10
<1>14. IsSingle(single, C, sweep)
  <2>1. DOMAIN single = 1 .. Len(single) /\ Len(single) \in Nat
    BY <1>12
  <2>. QED
    BY <1>7, <1>8, <1>12, <1>13, <2>1 DEF IsSingle
<1>15. Len(single) <= remaining
  BY <1>10, <1>12
<1>16. ASSUME ToSet(counted) # ToSet(single) PROVE Len(single) + 1 <= remaining
  <2>. SUFFICES ASSUME wide = counted, limit = Len(wide) PROVE FALSE
    BY <1>10, <1>12
  <2>1. single = counted
    <3>1. DOMAIN single = 1 .. limit /\ DOMAIN counted = 1 .. limit
      BY <1>1, <1>12
    <3>2. \A k \in 1 .. limit : single[k] = counted[k]
      BY <1>12
    <3>3. single = [k \in 1 .. limit |-> single[k]] /\ counted = [k \in 1 .. limit |-> counted[k]]
      BY <1>1, <1>12, <3>1
    <3>. QED
      BY <3>2, <3>3
  <2>. QED
    BY <1>16, <2>1
<1>. QED
  BY <1>14, <1>15, <1>16 DEF single

-----------------------------------------------------------------------------
\* The arcs of a ring.
Arcs(N) == [node : N, aggregate : BOOLEAN, depth : Nat, from : Int, to : Int, bytes : Nat]

\* What f gives the first k places together.
Upto(f, k) == SumFunctionOnSet(f, 1 .. k)

Along(f, s) == [k \in DOMAIN s |-> f[s[k]]]

\* The arcs of w: those of single, and one for all others of C unless there are none.
IsLaid(ring, w, C, size, sweep, single) ==
  /\ Len(ring) \in {Len(single), Len(single) + 1}
  /\ Len(single) \in Nat
  /\ ring = [k \in 1 .. Len(ring) |-> ring[k]]
  /\ \A k \in 1 .. Len(single) :
       ring[k] = [node |-> single[k], aggregate |-> FALSE, depth |-> w.depth,
                  from |-> w.from + Upto(Along(sweep, single), k - 1),
                  to |-> w.from + Upto(Along(sweep, single), k), bytes |-> size[single[k]]]
  /\ Len(ring) = Len(single) + 1 =>
       ring[Len(single) + 1] =
         [node |-> w.node, aggregate |-> TRUE, depth |-> w.depth,
          from |-> w.from + Upto(Along(sweep, single), Len(single)), to |-> w.to,
          bytes |-> SumFunctionOnSet(size, C) - Upto(Along(size, single), Len(single))]
  /\ Len(ring) = Len(single) =>
       /\ ToSet(single) = C
       /\ SumFunctionOnSet(size, C) = Upto(Along(size, single), Len(single))

\* Each child counts once.
LEMMA SingleSums ==
  ASSUME NEW C, NEW sweep, NEW single, IsSingle(single, C, sweep),
         NEW size, Summable(size, C)
  PROVE  /\ Summable(Along(size, single), 1 .. Len(single))
         /\ \A k \in 0 .. Len(single) : Upto(Along(size, single), k) \in Nat
         /\ ToSet(single) \in SUBSET C
         /\ Upto(Along(size, single), Len(single)) = SumFunctionOnSet(size, ToSet(single))
<1>. DEFINE L == Len(single)
            f == Along(size, single)
<1>1. L \in Nat /\ DOMAIN single = 1 .. L /\ single \in [1 .. L -> C]
  BY DEF IsSingle
<1>2. IsFiniteSet(1 .. L)
  BY <1>1, FirstNumbers
<1>3. \A k \in 1 .. L : f[k] = size[single[k]] /\ f[k] \in Nat
  BY <1>1 DEF Along, Summable
<1>4. Summable(f, 1 .. L)
  BY <1>2, <1>3 DEF Summable
<1>5. ASSUME NEW k \in 0 .. L PROVE Upto(f, k) \in Nat
  <2>1. 1 .. k \in SUBSET (1 .. L)
    BY <1>1
  <2>. HIDE DEF f
  <2>. QED
    BY <1>4, <2>1, SumFacts DEF Upto
<1>6. ToSet(single) = {single[k] : k \in 1 .. L}
  BY <1>1 DEF ToSet
<1>7. \A k, j \in 1 .. L : single[k] = single[j] => k = j
  BY DEF IsSingle
<1>8. SumFunctionOnSet(f, 1 .. L) = SumFunctionOnSet(size, ToSet(single))
  <2>. DEFINE S == 1 .. L
  <2>1. /\ IsFiniteSet(S) /\ single \in [S -> C]
        /\ \A x, y \in S : single[x] = single[y] => x = y
        /\ \A x \in S : f[x] = size[single[x]]
        /\ ToSet(single) = {single[x] : x \in S}
    BY <1>1, <1>2, <1>3, <1>6, <1>7
  <2>. HIDE DEF f, S
  <2>2. SumFunctionOnSet(f, S) = SumFunctionOnSet(size, {single[x] : x \in S})
    BY <2>1, SumReindexed
  <2>. QED
    BY <2>1, <2>2 DEF S
<1>. QED
  BY <1>1, <1>4, <1>5, <1>6, <1>8 DEF Upto

\* The arcs of the children of a folder: as many as there is room for, and what
\* has no arc of its own is in the last one.
LEMMA LaidFacts ==
  ASSUME NEW w, NEW C, NEW counted, IsListing(counted, C), ToSet(counted) = C,
         NEW size, Summable(size, C), \A c \in C : size[c] > 0,
         SumFunctionOnSet(size, C) <= MaxBytes,
         NEW sweep, Summable(sweep, C), NEW remaining \in Nat \ {0}
  PROVE  LET ring   == ArcsOfChildren(w, counted, size, sweep, remaining)
             single == SingleOf(counted, sweep, remaining)
         IN  /\ IsSingle(single, C, sweep)
             /\ IsLaid(ring, w, C, size, sweep, single)
             /\ Len(ring) <= remaining
<1>. DEFINE single == SingleOf(counted, sweep, remaining)
            L == Len(single)
            others == C \ ToSet(single)
            sum == SumFunctionOnSet(size, others)
            rest == Saturated(sum)
            start(k) == w.from + SumFunctionOnSet([j \in DOMAIN single |-> sweep[single[j]]], 1 .. k - 1)
            arc(k) == [node |-> single[k], aggregate |-> FALSE, depth |-> w.depth,
                    from |-> start(k), to |-> start(k + 1), bytes |-> size[single[k]]]
            restArc == [node |-> w.node, aggregate |-> TRUE, depth |-> w.depth,
                    from |-> start(L + 1), to |-> w.to, bytes |-> rest]
            own == [k \in DOMAIN single |-> arc(k)]
            ring == ArcsOfChildren(w, counted, size, sweep, remaining)
<1>1. /\ IsSingle(single, C, sweep)
      /\ L <= remaining
      /\ ToSet(counted) # ToSet(single) => L + 1 <= remaining
  BY SingleFacts
<1>. HIDE DEF single
<1>2. L \in Nat /\ DOMAIN single = 1 .. L
  BY <1>1 DEF IsSingle
<1>3. ring = own \o (IF rest > 0 THEN <<restArc>> ELSE <<>>)
  BY DEF ArcsOfChildren, SingleOf, WideOf, single
<1>4. \A k \in 1 .. L : start(k) = w.from + Upto(Along(sweep, single), k - 1)
  BY DEF Upto, Along
<1>5. \A k \in 0 .. L : start(k + 1) = w.from + Upto(Along(sweep, single), k)
  <2>1. \A k \in 0 .. L : k + 1 - 1 = k
    BY <1>2
  <2>. QED
    BY <2>1 DEF Upto, Along
<1>6. /\ ToSet(single) \in SUBSET C
      /\ Upto(Along(size, single), L) = SumFunctionOnSet(size, ToSet(single))
      /\ Upto(Along(size, single), L) \in Nat
  BY <1>1, <1>2, SingleSums
<1>7. /\ SumFunctionOnSet(size, C) = Upto(Along(size, single), L) + sum
      /\ sum \in Nat /\ SumFunctionOnSet(size, C) \in Nat
  <2>1. others \in SUBSET C /\ ToSet(single) \cap others = {} /\ C = ToSet(single) \cup others
    BY <1>6
  <2>. HIDE DEF others
  <2>2. SumFunctionOnSet(size, C)
          = SumFunctionOnSet(size, ToSet(single)) + SumFunctionOnSet(size, others)
    BY <1>6, <2>1, SumDisjoint
  <2>3. sum \in Nat /\ SumFunctionOnSet(size, C) \in Nat
    BY <2>1, SumFacts
  <2>. QED
    BY <1>6, <2>2, <2>3
<1>8. rest = sum
  BY <1>6, <1>7, TreesAssumption DEF Saturated
<1>9. rest = 0 => others = {}
  <2>. SUFFICES ASSUME NEW c \in others, sum = 0 PROVE FALSE
    BY <1>8
  <2>1. others \in SUBSET C /\ others \ {c} \in SUBSET C
    OBVIOUS
  <2>2. c \in C
    OBVIOUS
  <2>. HIDE DEF others
  <2>3. SumFunctionOnSet(size, others) = size[c] + SumFunctionOnSet(size, others \ {c})
    BY <2>1, SumFacts
  <2>4. SumFunctionOnSet(size, others \ {c}) \in Nat /\ size[c] \in Nat /\ size[c] > 0
    BY <2>1, <2>2, SumFacts DEF Summable
  <2>. QED
    BY <2>3, <2>4
<1>10. own \in Seq({own[k] : k \in 1 .. L}) /\ Len(own) = L /\ \A k \in 1 .. L : own[k] = arc(k)
  <2>1. own \in [1 .. L -> {own[k] : k \in 1 .. L}]
    BY <1>2
  <2>2. \A k \in 1 .. L : own[k] = arc(k)
    BY <1>2
  <2>. HIDE DEF own
  <2>. QED
    BY <1>2, <2>1, <2>2, NumberedSeq
<1>11. \A k \in 1 .. L :
         arc(k) = [node |-> single[k], aggregate |-> FALSE, depth |-> w.depth,
                   from |-> w.from + Upto(Along(sweep, single), k - 1),
                   to |-> w.from + Upto(Along(sweep, single), k), bytes |-> size[single[k]]]
  <2>. SUFFICES ASSUME NEW k \in 1 .. L
       PROVE  arc(k) = [node |-> single[k], aggregate |-> FALSE, depth |-> w.depth,
                   from |-> w.from + Upto(Along(sweep, single), k - 1),
                   to |-> w.from + Upto(Along(sweep, single), k), bytes |-> size[single[k]]]
    OBVIOUS
  <2>1. k \in 0 .. L
    BY <1>2
  <2>2. start(k) = w.from + Upto(Along(sweep, single), k - 1)
    BY <1>4
  <2>3. start(k + 1) = w.from + Upto(Along(sweep, single), k)
    BY <1>5, <2>1
  <2>. HIDE DEF start
  <2>. QED
    BY <2>2, <2>3
<1>12. restArc = [node |-> w.node, aggregate |-> TRUE, depth |-> w.depth,
          from |-> w.from + Upto(Along(sweep, single), L), to |-> w.to,
          bytes |-> SumFunctionOnSet(size, C) - Upto(Along(size, single), L)]
  <2>1. start(L + 1) = w.from + Upto(Along(sweep, single), L)
    <3>1. L \in 0 .. L
      BY <1>2
    <3>. HIDE DEF start
    <3>. QED
      BY <1>5, <3>1
  <2>2. rest = SumFunctionOnSet(size, C) - Upto(Along(size, single), L)
    BY <1>6, <1>7, <1>8
  <2>. HIDE DEF start, rest
  <2>. QED
    BY <2>1, <2>2
<1>. HIDE DEF own, arc, restArc, start, rest, others, sum
<1>13. CASE rest > 0
  <2>1. ring = own \o <<restArc>>
    BY <1>3, <1>13
  <2>2. Len(ring) = L + 1 /\ ring = [k \in 1 .. L + 1 |-> ring[k]]
        /\ (\A k \in 1 .. L : ring[k] = own[k]) /\ ring[L + 1] = restArc
    <3>. DEFINE T == {own[k] : k \in 1 .. L} \cup {restArc}
                last == <<restArc>>
    <3>1. own \in Seq(T)
      BY <1>10
    <3>2. last \in Seq(T) /\ Len(last) = 1 /\ last[1] = restArc
      OBVIOUS
    <3>3. ring = own \o last
      BY <2>1
    <3>. HIDE DEF T, last
    <3>4. IsJoined(ring, own, last) /\ ring \in Seq(T)
      BY <3>1, <3>2, <3>3, Joined
    <3>5. ring = [k \in DOMAIN ring |-> ring[k]]
      BY <3>4
    <3>. QED
      BY <1>2, <1>10, <3>2, <3>4, <3>5 DEF IsJoined
  <2>3. others # {}
    <3>. SUFFICES ASSUME others = {} PROVE FALSE
      OBVIOUS
    <3>1. sum = 0
      BY SumFacts DEF sum
    <3>. QED
      BY <1>8, <1>13, <3>1
  <2>4. L + 1 <= remaining
    BY <1>1, <2>3 DEF others
  <2>5. IsLaid(ring, w, C, size, sweep, single)
    <3>1. Len(ring) # L
      <4>1. Len(ring) = L + 1
        BY <2>2
      <4>2. L # L + 1
        <5>1. L \in Nat
          BY <1>2
        <5>. HIDE DEF L
        <5>. QED
          BY <5>1
      <4>. QED
        BY <4>1, <4>2
    <3>. QED
      BY <1>2, <1>10, <1>11, <1>12, <2>2, <3>1 DEF IsLaid
  <2>. QED
    BY <1>1, <2>2, <2>4, <2>5 DEF single
<1>14. CASE rest = 0
  <2>1. ring = own
    <3>1. ring = own \o <<>>
      BY <1>3, <1>14
    <3>. QED
      BY <1>10, <3>1, ConcatEmptySeq
  <2>2. others = {} /\ ToSet(single) = C
    BY <1>6, <1>9, <1>14 DEF others
  <2>3. SumFunctionOnSet(size, C) = Upto(Along(size, single), L)
    BY <1>6, <1>7, <1>8, <1>14
  <2>4. Len(ring) = L /\ ring = [k \in 1 .. L |-> ring[k]] /\ (\A k \in 1 .. L : ring[k] = own[k])
    BY <1>10, <2>1
  <2>5. IsLaid(ring, w, C, size, sweep, single)
    <3>1. Len(ring) # L + 1
      <4>1. Len(ring) = L
        BY <2>4
      <4>2. L # L + 1
        <5>1. L \in Nat
          BY <1>2
        <5>. HIDE DEF L
        <5>. QED
          BY <5>1
      <4>. QED
        BY <4>1, <4>2
    <3>. QED
      BY <1>2, <1>10, <1>11, <2>2, <2>3, <2>4, <3>1 DEF IsLaid
  <2>. QED
    BY <1>1, <2>4, <2>5 DEF single
<1>15. rest > 0 \/ rest = 0
  BY <1>7, <1>8
<1>. QED
  BY <1>13, <1>14, <1>15

\* u(k) is how far the first k children of single come from where w begins, by
\* shares of its angle.
AreAngles(u, w, sweep, single) ==
  /\ \A k \in 0 .. Len(single) : u[k] \in Nat /\ u[k] = Upto(Along(sweep, single), k)
  /\ u[0] = 0
  /\ \A k \in 1 .. Len(single) : u[k] = u[k - 1] + sweep[single[k]]
  /\ \A h, k \in 0 .. Len(single) : h <= k => u[h] <= u[k]
  /\ \A k \in 0 .. Len(single) : 2 * u[k] <= 2 * (w.to - w.from) + k

\* The angles at which the arcs of a ring begin, and what rounding makes of them.
LEMMA AnglesExist ==
  ASSUME NEW w, w.from \in Int, w.to \in Int, w.from < w.to,
         NEW C, NEW size, Summable(size, C), NEW total \in Nat \ {0},
         SumFunctionOnSet(size, C) = total,
         NEW sweep, \A c \in C : sweep[c] = Share(size[c], w.to - w.from, total),
         NEW single, IsSingle(single, C, sweep)
  PROVE  \E u : /\ AreAngles(u, w, sweep, single)
                /\ ToSet(single) = C =>
                     2 * (w.to - w.from) <= 2 * u[Len(single)] + Len(single)
<1>. DEFINE L == Len(single)
            f == Along(sweep, single)
            g == Along(size, single)
            W == w.to - w.from
            u == [k \in 0 .. L |-> Upto(f, k)]
<1>1. L \in Nat /\ DOMAIN single = 1 .. L /\ W \in Nat
  BY DEF IsSingle
<1>2. \A k \in 1 .. L : single[k] \in C /\ f[k] = sweep[single[k]] /\ g[k] = size[single[k]]
  BY <1>1 DEF IsSingle, Along
<1>3. /\ Summable(g, 1 .. L)
      /\ ToSet(single) \in SUBSET C
      /\ Upto(g, L) = SumFunctionOnSet(size, ToSet(single))
      /\ Upto(g, L) \in Nat
  <2>1. L \in 0 .. L
    BY <1>1
  <2>. QED
    BY <2>1, SingleSums
<1>4. SumFunctionOnSet(size, ToSet(single)) <= total
  BY <1>3, SumGrows
<1>. HIDE DEF f, g, W
<1>5. ASSUME NEW k \in 0 .. L
      PROVE  /\ Summable(f, 1 .. k)
             /\ Upto(f, k) \in Nat
             /\ 2 * Upto(f, k) <= 2 * W + k
             /\ k = L /\ ToSet(single) = C => 2 * W <= 2 * Upto(f, k) + k
  <2>1. 1 .. k \in SUBSET (1 .. L) /\ k \in Nat
    BY <1>1
  <2>2. IsFiniteSet(1 .. k) /\ Cardinality(1 .. k) = k
    BY <2>1, FirstNumbers
  <2>3. Summable(g, 1 .. k)
    BY <1>3, <2>1, <2>2 DEF Summable
  <2>4. AreShares(f, g, 1 .. k, W, total)
    BY <1>2, <2>1, <2>3 DEF AreShares, W
  <2>5. Upto(g, k) <= Upto(g, L)
    BY <1>3, <2>1, SumGrows DEF Upto
  <2>6. Upto(g, k) \in Nat
    BY <1>3, <2>1, SumFacts DEF Upto
  <2>7. Upto(g, k) <= total
    BY <1>3, <1>4, <2>5, <2>6
  <2>8. /\ Summable(f, 1 .. k)
        /\ Upto(f, k) \in Nat
        /\ 2 * Upto(f, k) <= 2 * W + k
        /\ Upto(g, k) = total => 2 * W <= 2 * Upto(f, k) + k
    BY <1>1, <2>2, <2>4, <2>7, SharesTogether DEF Upto
  <2>. QED
    BY <1>3, <2>8
<1>6. u[0] = 0
  <2>1. 1 .. 0 = {} /\ 0 \in 0 .. L
    BY <1>1
  <2>2. Summable(f, {})
    BY <1>5, <2>1
  <2>3. SumFunctionOnSet(f, {}) = 0
    BY <2>2, SumFacts
  <2>. QED
    BY <2>1, <2>3 DEF Upto
<1>7. ASSUME NEW k \in 1 .. L PROVE u[k] = u[k - 1] + sweep[single[k]]
  <2>1. k \in 0 .. L /\ k - 1 \in 0 .. L /\ k \in 1 .. k /\ (1 .. k) \ {k} = 1 .. k - 1
    BY <1>1
  <2>2. Upto(f, k) = f[k] + SumFunctionOnSet(f, (1 .. k) \ {k})
    <3>. DEFINE S == 1 .. k
    <3>1. Summable(f, S) /\ k \in S /\ S \in SUBSET S
      BY <1>5, <2>1
    <3>. HIDE DEF S
    <3>2. SumFunctionOnSet(f, S) = f[k] + SumFunctionOnSet(f, S \ {k})
      BY <3>1, SumFacts
    <3>. QED
      BY <3>2 DEF S, Upto
  <2>3. Upto(f, k) = f[k] + Upto(f, k - 1)
    BY <2>1, <2>2 DEF Upto
  <2>4. f[k] \in Nat
    BY <1>5, <2>1 DEF Summable
  <2>5. Upto(f, k - 1) \in Nat
    BY <1>5, <2>1
  <2>. QED
    BY <1>2, <2>1, <2>3, <2>4, <2>5
<1>8. ASSUME NEW h \in 0 .. L, NEW k \in 0 .. L, h <= k PROVE u[h] <= u[k]
  <2>1. 1 .. h \in SUBSET (1 .. k)
    BY <1>1, <1>8
  <2>2. Upto(f, h) <= Upto(f, k)
    BY <1>5, <2>1, SumGrows DEF Upto
  <2>. QED
    BY <2>2
<1>9. \A k \in 0 .. L : u[k] \in Nat /\ u[k] = Upto(f, k) /\ 2 * u[k] <= 2 * W + k
  BY <1>5
<1>10. ToSet(single) = C => 2 * W <= 2 * u[L] + L
  <2>1. L \in 0 .. L
    BY <1>1
  <2>. QED
    BY <1>5, <2>1
<1>. HIDE DEF u
<1>11. AreAngles(u, w, sweep, single)
  BY <1>6, <1>7, <1>8, <1>9 DEF AreAngles, f, W
<1>. QED
  BY <1>10, <1>11 DEF W

-----------------------------------------------------------------------------
\* The folder whose children an arc shows.
OwnerOf(t, a) == IF a.aggregate THEN a.node ELSE Parent[t][a.node]

\* The arcs g show all of the folder w without a gap.
IsRing(t, r, g, w) ==
  /\ g \in Seq(Arcs(Nodes(t)))
  /\ Len(g) \in Nat
  /\ DOMAIN g = 1 .. Len(g)
  /\ \A k \in 1 .. Len(g) :
       /\ g[k].from \in Int /\ g[k].to \in Int
       /\ g[k].depth = w.depth
       /\ OwnerOf(t, g[k]) = w.node
       /\ ~g[k].aggregate => g[k].node \in Nodes(t) \ {Root}
       /\ w.from <= g[k].from
       /\ 2 * (g[k].to - w.to) <= Len(g)
  /\ Len(g) > 0 => g[1].from = w.from /\ g[Len(g)].to = w.to
  /\ \A k \in 2 .. Len(g) : g[k].from = g[k - 1].to
  /\ \A h, k \in 1 .. Len(g) : h < k => g[h].to <= g[k].from
  /\ \A h, k \in 1 .. Len(g) :
       ~g[h].aggregate /\ ~g[k].aggregate /\ g[h].node = g[k].node => h = k
  /\ Len(g) > 0 =>
       SumFunctionOnSet([k \in DOMAIN g |-> g[k].bytes], DOMAIN g) = EffectiveSize(t, r, w.node)
  /\ EffectiveSize(t, r, w.node) > 0 => Len(g) > 0

\* The folder f is the arc a of n of the ring in which it was found.
IsArcOf(f, a, n) ==
  /\ ~a.aggregate
  /\ f.node = a.node
  /\ f.from = a.from
  /\ 2 * (f.to - a.to) <= n
  /\ 2 * (a.to - f.to) <= n

IsWork(t, w) ==
  /\ w.node \in Directory[t]
  /\ w.depth \in Nat /\ w.from \in Int /\ w.to \in Int
  /\ w.from < w.to

\* The folder f comes from the ring g of w.
ComesFrom(t, f, g, w) ==
  /\ f.depth = w.depth + 1
  /\ Parent[t][f.node] = w.node
  /\ f.node # Root
  /\ w.from <= f.from
  /\ 2 * (f.to - w.to) <= Len(g)
  /\ \E k \in 1 .. Len(g) : IsArcOf(f, g[k], Len(g))

Works(t) == [node : Directory[t], depth : Nat, from : Int, to : Int]

ArePushed(t, F, g, w) ==
  /\ F \in Seq(Works(t))
  /\ Len(F) \in Nat
  /\ DOMAIN F = 1 .. Len(F)
  /\ \A i \in 1 .. Len(F) : IsWork(t, F[i]) /\ ComesFrom(t, F[i], g, w)
  /\ \A i, j \in 1 .. Len(F) : i < j => F[i].to <= F[j].from
  /\ \A i, j \in 1 .. Len(F) : F[i].node = F[j].node => i = j

-----------------------------------------------------------------------------
\* The arcs that are laid begin and end at the angles u.
IsAngled(t, raw, w, size, single, u) ==
  LET L == Len(single) n == Len(raw)
  IN  /\ L \in Nat /\ n \in {L, L + 1} /\ DOMAIN raw = 1 .. n
      /\ raw \in Seq(Arcs(Nodes(t)))
      /\ \A k \in 0 .. L : u[k] \in Nat
      /\ \A k \in 1 .. n :
           /\ k - 1 \in 0 .. L
           /\ raw[k].from = w.from + u[k - 1]
           /\ raw[k].depth = w.depth
           /\ raw[k].aggregate <=> k = L + 1
           /\ k = L + 1 => raw[k].to = w.to /\ raw[k].node = w.node
           /\ k # L + 1 => /\ k \in 1 .. L
                           /\ raw[k].to = w.from + u[k]
                           /\ raw[k].node = single[k]
                           /\ raw[k].bytes = size[single[k]]

\* Where the arcs that are laid begin and end.
LEMMA LaidAngles ==
  ASSUME NEW t \in Trees, NEW w, IsWork(t, w), NEW C \in SUBSET Nodes(t),
         NEW size, Summable(size, C), NEW sweep, NEW single, IsSingle(single, C, sweep),
         NEW raw, IsLaid(raw, w, C, size, sweep, single),
         NEW u, AreAngles(u, w, sweep, single)
  PROVE  IsAngled(t, raw, w, size, single, u)
<1>. DEFINE L == Len(single)
            n == Len(raw)
            f == Along(sweep, single)
            g == Along(size, single)
<1>1. L \in Nat /\ n \in {L, L + 1} /\ raw = [k \in 1 .. n |-> raw[k]]
  BY DEF IsLaid
<1>2. \A k \in 0 .. L : u[k] \in Nat /\ u[k] = Upto(f, k)
  BY DEF AreAngles
<1>3. \A k \in 1 .. L : single[k] \in C /\ single[k] \in Nodes(t) /\ size[single[k]] \in Nat
  BY DEF IsSingle, Summable
<1>4. w.depth \in Nat /\ w.from \in Int /\ w.to \in Int /\ w.node \in Nodes(t)
  BY TreeFacts DEF IsWork
<1>5. SumFunctionOnSet(size, C) - Upto(g, L) \in Nat
  <2>1. /\ ToSet(single) \in SUBSET C
        /\ Upto(g, L) = SumFunctionOnSet(size, ToSet(single))
    BY SingleSums
  <2>2. SumFunctionOnSet(size, ToSet(single)) <= SumFunctionOnSet(size, C)
    BY <2>1, SumGrows
  <2>3. SumFunctionOnSet(size, ToSet(single)) \in Nat /\ SumFunctionOnSet(size, C) \in Nat
    BY <2>1, SumFacts
  <2>. HIDE DEF g, L
  <2>. QED
    BY <2>1, <2>2, <2>3
<1>. HIDE DEF f, g, L, n
<1>6. ASSUME NEW k \in 1 .. L
      PROVE  raw[k] = [node |-> single[k], aggregate |-> FALSE, depth |-> w.depth,
                  from |-> w.from + u[k - 1], to |-> w.from + u[k], bytes |-> size[single[k]]]
  <2>1. k - 1 \in 0 .. L /\ k \in 0 .. L
    BY <1>1
  <2>2. raw[k] = [node |-> single[k], aggregate |-> FALSE, depth |-> w.depth,
                  from |-> w.from + Upto(f, k - 1),
                  to |-> w.from + Upto(f, k), bytes |-> size[single[k]]]
    BY DEF IsLaid, f, L
  <2>3. Upto(f, k - 1) = u[k - 1] /\ Upto(f, k) = u[k]
    BY <1>2, <2>1
  <2>. QED
    BY <2>2, <2>3
<1>7. ASSUME n = L + 1
      PROVE  raw[L + 1] = [node |-> w.node, aggregate |-> TRUE, depth |-> w.depth,
          from |-> w.from + u[L], to |-> w.to,
          bytes |-> SumFunctionOnSet(size, C) - Upto(g, L)]
  <2>1. L \in 0 .. L
    BY <1>1
  <2>2. u[L] = Upto(f, L)
    BY <1>2, <2>1
  <2>. QED
    BY <1>7, <2>2 DEF IsLaid, f, g, L, n
<1>8. ASSUME NEW k \in 1 .. n, k # L + 1
      PROVE  /\ k \in 1 .. L /\ k - 1 \in 0 .. L
             /\ raw[k] \in Arcs(Nodes(t))
             /\ raw[k].from = w.from + u[k - 1]
             /\ raw[k].depth = w.depth
             /\ ~raw[k].aggregate
             /\ raw[k].to = w.from + u[k]
             /\ raw[k].node = single[k]
             /\ raw[k].bytes = size[single[k]]
  <2>1. k \in 1 .. L /\ k - 1 \in 0 .. L /\ k \in 0 .. L
    BY <1>1, <1>8
  <2>2. u[k] \in Nat /\ u[k - 1] \in Nat
    BY <1>2, <2>1
  <2>3. w.from + u[k - 1] \in Int /\ w.from + u[k] \in Int
    BY <1>4, <2>2
  <2>4. raw[k] = [node |-> single[k], aggregate |-> FALSE, depth |-> w.depth,
                  from |-> w.from + u[k - 1], to |-> w.from + u[k], bytes |-> size[single[k]]]
    BY <1>6, <2>1
  <2>5. raw[k] \in Arcs(Nodes(t))
    BY <1>3, <1>4, <2>1, <2>3, <2>4 DEF Arcs
  <2>. QED
    BY <2>1, <2>4, <2>5
<1>9. ASSUME NEW k \in 1 .. n, k = L + 1
      PROVE  /\ k - 1 \in 0 .. L
             /\ raw[k] \in Arcs(Nodes(t))
             /\ raw[k].from = w.from + u[k - 1]
             /\ raw[k].depth = w.depth
             /\ raw[k].aggregate
             /\ raw[k].to = w.to
             /\ raw[k].node = w.node
  <2>1. k - 1 = L /\ L \in 0 .. L /\ n = L + 1
    BY <1>1, <1>9
  <2>2. u[L] \in Nat
    BY <1>2, <2>1
  <2>3. w.from + u[L] \in Int
    BY <1>4, <2>2
  <2>4. raw[k] = [node |-> w.node, aggregate |-> TRUE, depth |-> w.depth,
          from |-> w.from + u[L], to |-> w.to,
          bytes |-> SumFunctionOnSet(size, C) - Upto(g, L)]
    BY <1>7, <1>9, <2>1
  <2>5. raw[k] \in Arcs(Nodes(t))
    BY <1>4, <1>5, <2>3, <2>4 DEF Arcs
  <2>. QED
    BY <2>1, <2>4, <2>5
<1>10. raw \in Seq(Arcs(Nodes(t)))
  <2>1. \A k \in 1 .. n : raw[k] \in Arcs(Nodes(t))
    BY <1>8, <1>9
  <2>2. n \in Nat
    BY <1>1
  <2>3. raw = [k \in 1 .. n |-> raw[k]]
    BY <1>1
  <2>. QED
    BY <2>1, <2>2, <2>3, NumberedSeq
<1>11. DOMAIN raw = 1 .. n
  BY <1>1
<1>12. \A k \in 1 .. n : k # L + 1 \/ k = L + 1
  OBVIOUS
<1>. QED
  BY <1>1, <1>2, <1>8, <1>9, <1>10, <1>11, <1>12 DEF L, n, IsAngled

\* A ring and the same ring with its last arc closed.
LEMMA ClosedFacts ==
  ASSUME NEW N, NEW raw \in Seq(Arcs(N)), NEW end \in Int
  PROVE  LET g == Closed(raw, end)
         IN  /\ g \in Seq(Arcs(N)) /\ Len(g) = Len(raw) /\ Len(g) \in Nat
             /\ DOMAIN g = 1 .. Len(g)
             /\ \A k \in 1 .. Len(raw) :
                  /\ g[k].node = raw[k].node /\ g[k].aggregate = raw[k].aggregate
                  /\ g[k].depth = raw[k].depth /\ g[k].from = raw[k].from
                  /\ g[k].bytes = raw[k].bytes
                  /\ g[k].to = IF k = Len(raw) THEN end ELSE raw[k].to
<1>. DEFINE n == Len(raw)
            g == Closed(raw, end)
<1>1. n \in Nat /\ DOMAIN raw = 1 .. n /\ \A k \in 1 .. n : raw[k] \in Arcs(N)
  OBVIOUS
<1>2. CASE raw = <<>>
  <2>1. g = raw /\ n = 0
    BY <1>2 DEF Closed
  <2>. QED
    BY <1>1, <2>1
<1>3. CASE raw # <<>>
  <2>1. n # 0
    BY <1>3, EmptySeq
  <2>2. g = [raw EXCEPT ![n].to = end]
    BY <1>3 DEF Closed
  <2>3. \A k \in 1 .. n : g[k] = IF k = n THEN [raw[k] EXCEPT !.to = end] ELSE raw[k]
    BY <1>1, <2>2
  <2>4. g = [k \in 1 .. n |-> g[k]]
    BY <1>1, <2>2
  <2>. HIDE DEF g, n
  <2>5. ASSUME NEW k \in 1 .. n
        PROVE  /\ g[k] \in Arcs(N)
               /\ g[k].node = raw[k].node /\ g[k].aggregate = raw[k].aggregate
               /\ g[k].depth = raw[k].depth /\ g[k].from = raw[k].from
               /\ g[k].bytes = raw[k].bytes
               /\ g[k].to = IF k = n THEN end ELSE raw[k].to
    BY <1>1, <2>3 DEF Arcs
  <2>6. g \in [1 .. n -> Arcs(N)]
    BY <2>4, <2>5
  <2>7. g \in Seq(Arcs(N)) /\ Len(g) = n /\ DOMAIN g = 1 .. n
    BY <1>1, <2>6, NumberedSeq
  <2>. QED
    BY <1>1, <2>5, <2>7 DEF g, n
<1>. QED
  BY <1>2, <1>3

\* The bytes of the arcs are those of all of C.
LEMMA LaidBytes ==
  ASSUME NEW t, NEW w, NEW C, NEW size, Summable(size, C), NEW sweep,
         NEW single, IsSingle(single, C, sweep),
         NEW raw, IsLaid(raw, w, C, size, sweep, single),
         NEW b, \A k \in 1 .. Len(raw) : b[k] = raw[k].bytes
  PROVE  Len(raw) > 0 => SumFunctionOnSet(b, 1 .. Len(raw)) = SumFunctionOnSet(size, C)
<1>. DEFINE L == Len(single)
            n == Len(raw)
            g == Along(size, single)
            all == SumFunctionOnSet(size, C)
            own == Upto(g, L)
<1>1. L \in Nat /\ n \in {L, L + 1} /\ DOMAIN single = 1 .. L
  BY DEF IsLaid, IsSingle
<1>2. Summable(g, 1 .. L)
  BY SingleSums
<1>3. own \in Nat /\ all \in Nat /\ own <= all
  <2>1. /\ ToSet(single) \in SUBSET C
        /\ own = SumFunctionOnSet(size, ToSet(single))
    BY SingleSums
  <2>2. SumFunctionOnSet(size, ToSet(single)) <= SumFunctionOnSet(size, C)
    BY <2>1, SumGrows
  <2>3. SumFunctionOnSet(size, ToSet(single)) \in Nat /\ SumFunctionOnSet(size, C) \in Nat
    BY <2>1, SumFacts
  <2>. QED
    BY <2>1, <2>2, <2>3
<1>. HIDE DEF L, n
<1>4. \A k \in 1 .. L : k \in 1 .. n /\ k # L + 1
  BY <1>1
<1>5. \A k \in 1 .. L : b[k] = g[k]
  <2>1. ASSUME NEW k \in 1 .. L PROVE b[k] = g[k]
    <3>1. raw[k].bytes = size[single[k]]
      <4>1. raw[k] = [node |-> single[k], aggregate |-> FALSE, depth |-> w.depth,
                  from |-> w.from + Upto(Along(sweep, single), k - 1),
                  to |-> w.from + Upto(Along(sweep, single), k), bytes |-> size[single[k]]]
        BY DEF IsLaid, L
      <4>. QED
        BY <4>1
    <3>2. b[k] = raw[k].bytes
      BY <1>4 DEF n
    <3>. QED
      BY <1>1, <3>1, <3>2 DEF Along
  <2>. QED
    BY <2>1
<1>. HIDE DEF g
<1>6. Summable(b, 1 .. L) /\ SumFunctionOnSet(b, 1 .. L) = own
  <2>1. Summable(b, 1 .. L)
    BY <1>2, <1>5 DEF Summable
  <2>. QED
    BY <1>5, <2>1, SumCongruence DEF Upto
<1>. HIDE DEF all, own
<1>7. CASE n = L
  <2>1. all = own
    BY <1>7 DEF IsLaid, all, own, g, L, n
  <2>. QED
    BY <1>6, <1>7, <2>1 DEF all, n
<1>8. CASE n = L + 1
  <2>1. raw[n].bytes = all - own
    BY <1>8 DEF IsLaid, all, own, g, L, n
  <2>2. n \in 1 .. n
    BY <1>1, <1>8
  <2>3. b[n] = all - own
    BY <2>1, <2>2 DEF n
  <2>4. b[n] \in Nat
    BY <1>3, <2>3
  <2>5. 1 .. n = (1 .. L) \cup {n} /\ (1 .. n) \ {n} = 1 .. L
    BY <1>1, <1>8
  <2>6. Summable(b, 1 .. n)
    <3>1. IsFiniteSet(1 .. n)
      BY <1>1, <1>8, FirstNumbers
    <3>2. \A k \in 1 .. L : b[k] \in Nat
      BY <1>6 DEF Summable
    <3>. QED
      BY <2>4, <2>5, <3>1, <3>2 DEF Summable
  <2>7. SumFunctionOnSet(b, 1 .. n) = b[n] + SumFunctionOnSet(b, (1 .. n) \ {n})
    <3>. DEFINE S == 1 .. n
    <3>1. S \in SUBSET S /\ n \in S /\ Summable(b, S)
      BY <2>2, <2>6
    <3>. HIDE DEF S
    <3>2. SumFunctionOnSet(b, S) = b[n] + SumFunctionOnSet(b, S \ {n})
      BY <3>1, SumFacts
    <3>. QED
      BY <3>2 DEF S
  <2>8. SumFunctionOnSet(b, 1 .. n) = (all - own) + own
    BY <1>6, <2>3, <2>5, <2>7
  <2>. QED
    BY <1>3, <2>8 DEF all, n
<1>. QED
  BY <1>1, <1>7, <1>8

\* The closed arcs are a ring of the folder.
LEMMA ClosedIsRing ==
  ASSUME NEW t \in Trees, NEW r, NEW w, IsWork(t, w),
         NEW C \in SUBSET ChildrenOf(t, w.node), C # {},
         NEW size, Summable(size, C), SumFunctionOnSet(size, C) = EffectiveSize(t, r, w.node),
         NEW sweep, NEW single, IsSingle(single, C, sweep),
         NEW raw, IsLaid(raw, w, C, size, sweep, single),
         NEW u, AreAngles(u, w, sweep, single), IsAngled(t, raw, w, size, single, u)
  PROVE  IsRing(t, r, Closed(raw, w.to), w)
<1>. DEFINE L == Len(single)
            n == Len(raw)
            g == Closed(raw, w.to)
<1>1. L \in Nat /\ n \in {L, L + 1} /\ DOMAIN raw = 1 .. n /\ raw \in Seq(Arcs(Nodes(t)))
  BY DEF IsAngled
<1>2. w.from \in Int /\ w.to \in Int /\ w.depth \in Nat /\ w.node \in Nodes(t)
  BY TreeFacts DEF IsWork
<1>3. /\ g \in Seq(Arcs(Nodes(t))) /\ Len(g) = n /\ Len(g) \in Nat
      /\ DOMAIN g = 1 .. Len(g)
      /\ \A k \in 1 .. n :
           /\ g[k].node = raw[k].node /\ g[k].aggregate = raw[k].aggregate
           /\ g[k].depth = raw[k].depth /\ g[k].from = raw[k].from
           /\ g[k].bytes = raw[k].bytes
           /\ g[k].to = IF k = n THEN w.to ELSE raw[k].to
  BY <1>1, <1>2, ClosedFacts, ZenonT(30)
<1>4. /\ \A k \in 0 .. L : u[k] \in Nat
      /\ \A h, k \in 0 .. L : h <= k => u[h] <= u[k]
      /\ \A k \in 0 .. L : 2 * u[k] <= 2 * (w.to - w.from) + k
      /\ u[0] = 0
  BY DEF AreAngles
<1>5. \A k \in 1 .. L : /\ single[k] \in Nodes(t) \ {Root}
                        /\ Parent[t][single[k]] = w.node
  <2>1. \A c \in C : c \in Nodes(t) \ {Root} /\ Parent[t][c] = w.node
    BY <1>2, ChildIsLarger
  <2>. QED
    BY <2>1 DEF IsSingle
<1>6. \A k, j \in 1 .. L : single[k] = single[j] => k = j
  BY DEF IsSingle
<1>7. \A k \in 1 .. n :
        /\ k - 1 \in 0 .. L
        /\ raw[k].from = w.from + u[k - 1]
        /\ raw[k].depth = w.depth
        /\ raw[k].aggregate <=> k = L + 1
        /\ k = L + 1 => raw[k].to = w.to /\ raw[k].node = w.node
        /\ k # L + 1 => /\ k \in 1 .. L
                        /\ raw[k].to = w.from + u[k]
                        /\ raw[k].node = single[k]
  BY DEF IsAngled
<1>. HIDE DEF g, L, n
<1>8. ASSUME NEW k \in 1 .. n
      PROVE  /\ g[k].from = w.from + u[k - 1] /\ g[k].from \in Int
             /\ k - 1 \in 0 .. L /\ u[k - 1] \in Nat
             /\ k < n => k \in 1 .. L /\ u[k] \in Nat /\ g[k].to = w.from + u[k]
             /\ k = n => g[k].to = w.to
             /\ g[k].to \in Int
  <2>1. k - 1 \in 0 .. L /\ u[k - 1] \in Nat /\ g[k].from = w.from + u[k - 1]
    BY <1>3, <1>4, <1>7
  <2>2. ASSUME k < n PROVE k \in 1 .. L /\ u[k] \in Nat /\ g[k].to = w.from + u[k]
    <3>1. k # L + 1 /\ k # n
      BY <1>1, <2>2
    <3>2. k \in 1 .. L /\ raw[k].to = w.from + u[k]
      BY <1>7, <3>1
    <3>3. k \in 0 .. L
      BY <1>1, <3>2
    <3>. QED
      BY <1>3, <1>4, <3>1, <3>2, <3>3
  <2>3. k = n => g[k].to = w.to
    BY <1>3
  <2>4. k < n \/ k = n
    BY <1>1
  <2>5. g[k].to \in Int
    <3>1. CASE k = n
      BY <1>2, <2>3, <3>1
    <3>2. CASE k < n
      BY <1>2, <2>2, <3>2
    <3>. QED
      BY <2>4, <3>1, <3>2
  <2>6. g[k].from \in Int
    BY <1>2, <2>1
  <2>. QED
    BY <2>1, <2>2, <2>3, <2>5, <2>6
<1>9. ASSUME NEW k \in 1 .. n
      PROVE  /\ g[k].depth = w.depth
             /\ OwnerOf(t, g[k]) = w.node
             /\ ~g[k].aggregate => g[k].node \in Nodes(t) \ {Root}
  <2>1. CASE k = L + 1
    <3>1. g[k].aggregate /\ g[k].node = w.node /\ g[k].depth = w.depth
      BY <1>3, <1>7, <2>1
    <3>. QED
      BY <3>1 DEF OwnerOf
  <2>2. CASE k # L + 1
    <3>1. ~g[k].aggregate /\ k \in 1 .. L /\ g[k].node = single[k] /\ g[k].depth = w.depth
      BY <1>3, <1>7, <2>2
    <3>. QED
      BY <1>5, <3>1 DEF OwnerOf
  <2>. QED
    BY <2>1, <2>2
<1>10. ASSUME NEW k \in 1 .. n
       PROVE  w.from <= g[k].from /\ 2 * (g[k].to - w.to) <= n
  <2>1. w.from <= g[k].from
    BY <1>2, <1>8
  <2>2. CASE k = n
    <3>1. g[k].to = w.to /\ n >= 0
      BY <1>1, <1>8, <2>2
    <3>2. 2 * (g[k].to - w.to) = 0
      BY <1>2, <3>1
    <3>. QED
      BY <2>1, <3>1, <3>2
  <2>3. CASE k < n
    <3>1. k \in 0 .. L /\ u[k] \in Nat /\ g[k].to = w.from + u[k]
      BY <1>1, <1>8, <2>3
    <3>2. 2 * u[k] <= 2 * (w.to - w.from) + k
      BY <1>4, <3>1
    <3>3. \A a, b, c \in Int : 2 * a <= 2 * (c - b) + k /\ k <= n => 2 * ((b + a) - c) <= n
      BY <1>1
    <3>4. k <= n /\ u[k] \in Int
      BY <1>1, <2>3, <3>1
    <3>5. 2 * ((w.from + u[k]) - w.to) <= n
      BY <1>2, <3>2, <3>3, <3>4
    <3>. QED
      BY <2>1, <3>1, <3>5
  <2>4. k = n \/ k < n
    BY <1>1
  <2>. QED
    BY <2>1, <2>2, <2>3, <2>4
<1>11. n > 0 => g[1].from = w.from /\ g[n].to = w.to
  <2>. SUFFICES ASSUME n > 0 PROVE g[1].from = w.from /\ g[n].to = w.to
    OBVIOUS
  <2>1. 1 \in 1 .. n /\ n \in 1 .. n /\ 1 - 1 = 0
    BY <1>1
  <2>. QED
    BY <1>2, <1>4, <1>8, <2>1
<1>12. ASSUME NEW k \in 2 .. n PROVE g[k].from = g[k - 1].to
  <2>1. k \in 1 .. n /\ k - 1 \in 1 .. n /\ k - 1 < n
    BY <1>1
  <2>. QED
    BY <1>8, <2>1
<1>13. ASSUME NEW h \in 1 .. n, NEW k \in 1 .. n, h < k PROVE g[h].to <= g[k].from
  <2>1. h < n /\ k - 1 \in 0 .. L /\ h \in 0 .. L /\ h <= k - 1
    BY <1>1, <1>8, <1>13
  <2>2. g[h].to = w.from + u[h] /\ g[k].from = w.from + u[k - 1] /\ u[h] <= u[k - 1]
    BY <1>4, <1>8, <2>1
  <2>3. u[h] \in Nat /\ u[k - 1] \in Nat
    BY <1>4, <2>1
  <2>. QED
    BY <1>2, <2>2, <2>3
<1>14. ASSUME NEW h \in 1 .. n, NEW k \in 1 .. n,
              ~g[h].aggregate, ~g[k].aggregate, g[h].node = g[k].node
       PROVE  h = k
  <2>1. h # L + 1 /\ k # L + 1
    BY <1>3, <1>7, <1>14
  <2>. QED
    BY <1>3, <1>6, <1>7, <1>14, <2>1
<1>15. n > 0 => SumFunctionOnSet([k \in DOMAIN g |-> g[k].bytes], DOMAIN g)
                  = EffectiveSize(t, r, w.node)
  <2>. DEFINE b == [k \in DOMAIN g |-> g[k].bytes]
  <2>1. \A k \in 1 .. n : b[k] = raw[k].bytes
    BY <1>3
  <2>. HIDE DEF b
  <2>2. n > 0 => SumFunctionOnSet(b, 1 .. n) = SumFunctionOnSet(size, C)
    BY <2>1, LaidBytes DEF n
  <2>. QED
    BY <1>3, <2>2 DEF b
<1>16. n > 0
  <2>. SUFFICES ASSUME n = 0 PROVE FALSE
    BY <1>1
  <2>1. L = 0
    BY <1>1
  <2>2. ToSet(single) = C
    BY <2>1 DEF IsLaid, L, n
  <2>3. PICK c : c \in C
    OBVIOUS
  <2>4. DOMAIN single = 1 .. L
    BY DEF IsSingle, L
  <2>. QED
    BY <2>1, <2>2, <2>3, <2>4 DEF ToSet
<1>. QED
  BY <1>3, <1>8, <1>9, <1>10, <1>11, <1>12, <1>13, <1>14, <1>15, <1>16 DEF IsRing, g

\* The folders that are pushed are arcs of the ring, in its order.
LEMMA PushedFromRing ==
  ASSUME NEW t \in Trees, NEW w, IsWork(t, w),
         NEW C \in SUBSET ChildrenOf(t, w.node),
         NEW size, NEW sweep, Summable(sweep, C),
         NEW single, IsSingle(single, C, sweep),
         NEW raw, IsLaid(raw, w, C, size, sweep, single),
         NEW u, AreAngles(u, w, sweep, single), IsAngled(t, raw, w, size, single, u),
         ToSet(single) = C => 2 * (w.to - w.from) <= 2 * u[Len(single)] + Len(single)
  PROVE  ArePushed(t, FoldersOf(t, raw), Closed(raw, w.to), w)
<1>. DEFINE L == Len(single)
            n == Len(raw)
            g == Closed(raw, w.to)
            I == {k \in DOMAIN raw : /\ ~raw[k].aggregate /\ raw[k].node \in Directory[t]
                                     /\ raw[k].depth + 1 < MaxDepth}
            folders == MembersAt(raw, I)
            F == FoldersOf(t, raw)
            at == Ascending(I)
            m == Cardinality(I)
<1>1. L \in Nat /\ n \in {L, L + 1} /\ DOMAIN raw = 1 .. n /\ raw \in Seq(Arcs(Nodes(t)))
  BY DEF IsAngled
<1>2. w.from \in Int /\ w.to \in Int /\ w.from < w.to /\ w.depth \in Nat /\ w.node \in Nodes(t)
  BY TreeFacts DEF IsWork
<1>3. /\ Len(g) = n
      /\ \A k \in 1 .. n :
           /\ g[k].node = raw[k].node /\ g[k].aggregate = raw[k].aggregate
           /\ g[k].from = raw[k].from
           /\ g[k].to = IF k = n THEN w.to ELSE raw[k].to
  <2>. HIDE DEF g
  <2>1. /\ g \in Seq(Arcs(Nodes(t))) /\ Len(g) = n /\ Len(g) \in Nat
        /\ DOMAIN g = 1 .. Len(g)
        /\ \A k \in 1 .. n :
             /\ g[k].node = raw[k].node /\ g[k].aggregate = raw[k].aggregate
             /\ g[k].depth = raw[k].depth /\ g[k].from = raw[k].from
             /\ g[k].bytes = raw[k].bytes
             /\ g[k].to = IF k = n THEN w.to ELSE raw[k].to
    BY <1>1, <1>2, ClosedFacts DEF g
  <2>. QED
    BY <2>1
<1>4. /\ \A k \in 0 .. L : u[k] \in Nat
      /\ \A k \in 1 .. L : u[k] = u[k - 1] + sweep[single[k]]
      /\ \A h, k \in 0 .. L : h <= k => u[h] <= u[k]
      /\ \A k \in 0 .. L : 2 * u[k] <= 2 * (w.to - w.from) + k
  BY DEF AreAngles
<1>5. \A k \in 1 .. L : /\ single[k] \in Nodes(t) \ {Root}
                        /\ Parent[t][single[k]] = w.node
                        /\ sweep[single[k]] \in Nat
                        /\ sweep[single[k]] >= 1
  <2>1. \A c \in C : c \in Nodes(t) \ {Root} /\ Parent[t][c] = w.node
    BY <1>2, ChildIsLarger
  <2>2. MinSweep \in Nat \ {0}
    BY LayoutAssumption
  <2>3. ASSUME NEW k \in 1 .. L
        PROVE  sweep[single[k]] \in Nat /\ sweep[single[k]] >= 1 /\ single[k] \in C
    <3>1. single[k] \in C /\ sweep[single[k]] >= MinSweep
      BY DEF IsSingle
    <3>2. sweep[single[k]] \in Nat
      BY <3>1 DEF Summable
    <3>. QED
      BY <2>2, <3>1, <3>2
  <2>. QED
    BY <2>1, <2>3
<1>6. \A k, j \in 1 .. L : single[k] = single[j] => k = j
  BY DEF IsSingle
<1>7. \A k \in 1 .. n :
        /\ raw[k].from = w.from + u[k - 1]
        /\ raw[k].depth = w.depth
        /\ raw[k].aggregate <=> k = L + 1
        /\ k # L + 1 => /\ k \in 1 .. L
                        /\ raw[k].to = w.from + u[k]
                        /\ raw[k].node = single[k]
  BY DEF IsAngled
<1>8. n = L => 2 * (w.to - w.from) <= 2 * u[L] + L
  BY DEF IsLaid
<1>9. I \in SUBSET DOMAIN raw /\ I \in SUBSET Int
  <2>1. I \in SUBSET DOMAIN raw
    OBVIOUS
  <2>2. DOMAIN raw \in SUBSET Int
    <3>1. DOMAIN raw = 1 .. n
      BY <1>1
    <3>. QED
      BY <3>1
  <2>. QED
    BY <2>1, <2>2
<1>10. IsFiniteSet(I) /\ m \in Nat
  <2>. HIDE DEF I
  <2>1. IsFiniteSet(I)
    BY <1>1, <1>9, MembersAtSeq
  <2>. QED
    BY <2>1, FS_CardinalityType
<1>11. /\ at \in [1 .. m -> I]
       /\ \A k, j \in 1 .. m : k < j <=> at[k] < at[j]
       /\ \A k, j \in 1 .. m : at[k] = at[j] => k = j
  <2>. HIDE DEF I
  <2>. QED
    BY <1>9, <1>10, AscendingFacts
<1>12. /\ DOMAIN F = 1 .. m
       /\ \A i \in 1 .. m :
            F[i] = [node |-> raw[at[i]].node, depth |-> raw[at[i]].depth + 1,
                    from |-> raw[at[i]].from, to |-> raw[at[i]].to]
  <2>1. folders = [k \in 1 .. m |-> raw[at[k]]]
    BY DEF MembersAt
  <2>2. F = [k \in DOMAIN folders |->
         [node |-> folders[k].node, depth |-> folders[k].depth + 1,
          from |-> folders[k].from, to |-> folders[k].to]]
    BY DEF FoldersOf
  <2>. HIDE DEF folders, F, at, m
  <2>. QED
    BY <2>1, <2>2
<1>13. Len(F) = m /\ DOMAIN F = 1 .. Len(F)
  <2>. DEFINE T == {F[i] : i \in 1 .. m}
  <2>1. F = [k \in 1 .. m |-> F[k]]
    BY <1>12 DEF FoldersOf
  <2>2. F \in [1 .. m -> T]
    BY <2>1
  <2>. HIDE DEF F, m, T
  <2>. QED
    BY <1>10, <2>2, NumberedSeq
<1>14. \A i \in 1 .. m : /\ at[i] \in 1 .. n
                         /\ ~raw[at[i]].aggregate /\ raw[at[i]].node \in Directory[t]
  <2>. HIDE DEF at, m
  <2>. QED
    BY <1>1, <1>11
<1>. HIDE DEF F, at, m, I, L, n, g, folders
<1>15. ASSUME NEW i \in 1 .. m
       PROVE  /\ at[i] \in 1 .. L /\ at[i] \in 1 .. n
              /\ at[i] \in 0 .. L /\ at[i] - 1 \in 0 .. L
              /\ F[i].node = single[at[i]] /\ F[i].node \in Directory[t]
              /\ F[i].depth = w.depth + 1
              /\ F[i].from = w.from + u[at[i] - 1]
              /\ F[i].to = w.from + u[at[i]]
              /\ ~g[at[i]].aggregate /\ g[at[i]].node = F[i].node /\ g[at[i]].from = F[i].from
              /\ g[at[i]].to = IF at[i] = n THEN w.to ELSE F[i].to
  <2>. DEFINE a == at[i]
  <2>1. a \in 1 .. n /\ ~raw[a].aggregate /\ raw[a].node \in Directory[t]
    BY <1>14
  <2>2. /\ F[i].node = raw[a].node /\ F[i].depth = raw[a].depth + 1
        /\ F[i].from = raw[a].from /\ F[i].to = raw[a].to
    BY <1>12
  <2>. HIDE DEF a
  <2>3. /\ a \in 1 .. L /\ raw[a].to = w.from + u[a] /\ raw[a].node = single[a]
        /\ raw[a].from = w.from + u[a - 1] /\ raw[a].depth = w.depth
    BY <1>7, <2>1
  <2>4. a \in 0 .. L /\ a - 1 \in 0 .. L
    BY <1>1, <2>3
  <2>. QED
    BY <1>3, <2>1, <2>2, <2>3, <2>4 DEF a
<1>16. ASSUME NEW i \in 1 .. m
       PROVE  IsWork(t, F[i]) /\ ComesFrom(t, F[i], g, w)
  <2>. DEFINE a == at[i]
  <2>1. /\ a \in 1 .. L /\ a \in 1 .. n /\ a \in 0 .. L /\ a - 1 \in 0 .. L
        /\ F[i].node = single[a] /\ F[i].node \in Directory[t]
        /\ F[i].depth = w.depth + 1
        /\ F[i].from = w.from + u[a - 1]
        /\ F[i].to = w.from + u[a]
        /\ ~g[a].aggregate /\ g[a].node = F[i].node /\ g[a].from = F[i].from
        /\ g[a].to = IF a = n THEN w.to ELSE F[i].to
    BY <1>15
  <2>. HIDE DEF a
  <2>2. u[a] = u[a - 1] + sweep[single[a]] /\ u[a] \in Nat /\ u[a - 1] \in Nat
    BY <1>4, <2>1
  <2>3. sweep[single[a]] \in Nat /\ sweep[single[a]] >= 1
    BY <1>5, <2>1
  <2>4. IsWork(t, F[i])
    <3>1. F[i].depth \in Nat /\ F[i].from \in Int /\ F[i].to \in Int
      <4>1. w.depth + 1 \in Nat /\ w.from + u[a - 1] \in Int /\ w.from + u[a] \in Int
        BY <1>2, <2>2
      <4>. QED
        BY <2>1, <4>1
    <3>2. F[i].from < F[i].to
      <4>1. u[a - 1] < u[a]
        BY <2>2, <2>3
      <4>. QED
        BY <1>2, <2>1, <2>2, <4>1
    <3>. QED
      BY <2>1, <3>1, <3>2 DEF IsWork
  <2>5. w.from <= F[i].from
    BY <1>2, <2>1, <2>2
  <2>6. a <= n /\ n \in Nat /\ a \in Nat
    BY <1>1, <2>1
  <2>7. 2 * u[a] <= 2 * (w.to - w.from) + a
    BY <1>4, <2>1
  <2>8. 2 * (F[i].to - w.to) <= n
    <3>1. \A x, b, c \in Int : 2 * x <= 2 * (c - b) + a => 2 * ((b + x) - c) <= n
      BY <2>6
    <3>2. u[a] \in Int
      BY <2>2
    <3>3. 2 * ((w.from + u[a]) - w.to) <= n
      BY <1>2, <2>7, <3>1, <3>2
    <3>. QED
      BY <2>1, <3>3
  <2>9. 2 * (F[i].to - g[a].to) <= n /\ 2 * (g[a].to - F[i].to) <= n
    <3>1. CASE a # n
      <4>1. g[a].to = F[i].to /\ F[i].to \in Int
        BY <2>1, <2>4, <3>1 DEF IsWork
      <4>. QED
        BY <2>6, <4>1
    <3>2. CASE a = n
      <4>1. n = L
        BY <1>1, <2>1, <3>2
      <4>2. 2 * (w.to - w.from) <= 2 * u[a] + a
        BY <1>8, <3>2, <4>1
      <4>3. \A x, b, c \in Int : 2 * (c - b) <= 2 * x + a => 2 * (c - (b + x)) <= n
        BY <2>6
      <4>4. u[a] \in Int
        BY <2>2
      <4>5. 2 * (w.to - (w.from + u[a])) <= n
        BY <1>2, <4>2, <4>3, <4>4
      <4>6. g[a].to = w.to /\ F[i].to = w.from + u[a]
        BY <2>1, <3>2
      <4>. QED
        BY <2>8, <4>5, <4>6
    <3>. QED
      BY <3>1, <3>2
  <2>10. IsArcOf(F[i], g[a], n)
    BY <2>1, <2>9 DEF IsArcOf
  <2>11. Parent[t][F[i].node] = w.node /\ F[i].node # Root
    BY <1>5, <2>1
  <2>. QED
    BY <1>3, <2>1, <2>4, <2>5, <2>8, <2>10, <2>11 DEF ComesFrom, n
<1>17. ASSUME NEW i \in 1 .. m, NEW j \in 1 .. m
       PROVE  /\ i < j => F[i].to <= F[j].from
              /\ F[i].node = F[j].node => i = j
  <2>1. ASSUME i < j PROVE F[i].to <= F[j].from
    <3>1. at[i] < at[j]
      BY <1>11, <2>1
    <3>2. at[i] \in 0 .. L /\ at[j] - 1 \in 0 .. L
      BY <1>15
    <3>3. at[i] <= at[j] - 1
      <4>1. at[i] \in 1 .. L /\ at[j] \in 1 .. L
        BY <1>15
      <4>. QED
        BY <1>1, <3>1, <4>1
    <3>4. u[at[i]] <= u[at[j] - 1]
      BY <1>4, <3>2, <3>3
    <3>5. u[at[i]] \in Nat /\ u[at[j] - 1] \in Nat
      BY <1>4, <3>2
    <3>6. F[i].to = w.from + u[at[i]] /\ F[j].from = w.from + u[at[j] - 1]
      BY <1>15
    <3>. QED
      BY <1>2, <3>4, <3>5, <3>6
  <2>2. ASSUME F[i].node = F[j].node PROVE i = j
    <3>1. at[i] = at[j]
      BY <1>6, <1>15, <2>2, SMTT(30)
    <3>. QED
      BY <1>11, <3>1
  <2>. QED
    BY <2>1, <2>2
<1>18. F \in Seq(Works(t))
  <2>1. ASSUME NEW i \in 1 .. m PROVE F[i] \in Works(t)
    <3>1. F[i] = [node |-> raw[at[i]].node, depth |-> raw[at[i]].depth + 1,
                  from |-> raw[at[i]].from, to |-> raw[at[i]].to]
      BY <1>12
    <3>2. IsWork(t, F[i])
      BY <1>16
    <3>. QED
      BY <3>1, <3>2 DEF IsWork, Works
  <2>2. F = [i \in 1 .. m |-> F[i]]
    BY <1>12 DEF FoldersOf, F
  <2>. QED
    BY <1>10, <2>1, <2>2, NumberedSeq
<1>. QED
  BY <1>10, <1>13, <1>16, <1>17, <1>18 DEF ArePushed, F, g

\* No arcs, no folders.
LEMMA NothingPushed ==
  ASSUME NEW t, NEW g, NEW w
  PROVE  ArePushed(t, FoldersOf(t, <<>>), g, w) /\ FoldersOf(t, <<>>) = <<>>
<1>. DEFINE none == <<>>
            I == {k \in DOMAIN none : /\ ~none[k].aggregate /\ none[k].node \in Directory[t]
                                      /\ none[k].depth + 1 < MaxDepth}
            folders == MembersAt(none, I)
            F == FoldersOf(t, none)
<1>1. I = {}
  OBVIOUS
<1>2. Cardinality({}) = 0
  BY FS_EmptySet
<1>3. DOMAIN folders = {}
  BY <1>1, <1>2 DEF MembersAt
<1>4. F = [k \in DOMAIN folders |->
         [node |-> folders[k].node, depth |-> folders[k].depth + 1,
          from |-> folders[k].from, to |-> folders[k].to]]
  BY DEF FoldersOf
<1>5. F = <<>>
  <2>. HIDE DEF folders
  <2>1. F = [k \in {} |-> 0]
    BY <1>3, <1>4
  <2>2. F \in [1 .. 0 -> {0}]
    <3>1. 1 .. 0 = {}
      OBVIOUS
    <3>2. [k \in {} |-> 0] \in [{} -> {0}]
      OBVIOUS
    <3>. HIDE DEF F
    <3>. QED
      BY <2>1, <3>1, <3>2
  <2>3. F \in Seq({0}) /\ Len(F) = 0
    BY <2>2, NumberedSeq
  <2>. HIDE DEF F
  <2>. QED
    BY <2>3, EmptySeq
<1>6. <<>> \in Seq(Works(t)) /\ Len(<<>>) = 0 /\ DOMAIN <<>> = 1 .. 0
  OBVIOUS
<1>7. ArePushed(t, <<>>, g, w)
  <2>1. Len(<<>>) \in Nat /\ DOMAIN <<>> = 1 .. Len(<<>>) /\ 1 .. Len(<<>>) = {}
    OBVIOUS
  <2>. QED
    BY <1>6, <2>1 DEF ArePushed
<1>. HIDE DEF F
<1>. QED
  BY <1>5, <1>7 DEF F

\* What is done for a folder on the work list: its ring, and its folders.
LEMMA RingIsGood ==
  ASSUME NEW t \in Trees, TotalsFit(t), NEW r, IsReview(t, r),
         NEW w, IsWork(t, w), NEW remaining \in Nat \ {0}
  PROVE  LET raw == Ring(t, r, w, remaining)
             g == Closed(raw, w.to)
         IN  /\ IsRing(t, r, g, w)
             /\ ArePushed(t, FoldersOf(t, raw), g, w)
             /\ Len(g) <= remaining
<1>. DEFINE total == EffectiveSize(t, r, w.node)
            counted == CountedChildren(t, r, w.node)
            C == CountedIn(t, r, w.node)
            size == SizesOf(t, r, C)
            sweep == [c \in C |-> Share(size[c], w.to - w.from, total)]
            raw == Ring(t, r, w, remaining)
            g == Closed(raw, w.to)
<1>1. /\ w.node \in Directory[t] /\ w.node \in Nodes(t)
      /\ w.from \in Int /\ w.to \in Int /\ w.from < w.to
  BY TreeFacts DEF IsWork
<1>2. total \in 0 .. MaxBytes /\ total \in Nat
  BY <1>1, SizeIsShown
<1>3. CASE total = 0
  <2>1. raw = <<>>
    BY <1>3 DEF Ring
  <2>2. g = <<>>
    BY <2>1 DEF Closed
  <2>3. IsRing(t, r, <<>>, w)
    <3>1. <<>> \in Seq(Arcs(Nodes(t))) /\ Len(<<>>) = 0 /\ DOMAIN <<>> = 1 .. 0
      OBVIOUS
    <3>2. ~(total > 0)
      BY <1>3
    <3>. QED
      BY <3>1, <3>2 DEF IsRing
  <2>. QED
    BY <2>1, <2>2, <2>3, NothingPushed
<1>4. CASE total # 0
  <2>1. IsListing(counted, C) /\ ToSet(counted) = C
    BY CountedListing
  <2>2. raw = ArcsOfChildren(w, counted, size, sweep, remaining)
    <3>1. size = [c \in ToSet(counted) |-> EffectiveSize(t, r, c)] /\ DOMAIN size = C
      BY <2>1 DEF SizesOf
    <3>2. sweep = [c \in DOMAIN size |-> Share(size[c], w.to - w.from, total)]
      BY <3>1
    <3>. HIDE DEF size, sweep
    <3>. QED
      BY <1>4, <3>1, <3>2 DEF Ring
  <2>3. /\ C \in SUBSET ChildrenOf(t, w.node)
        /\ IsFiniteSet(C)
        /\ SumFunctionOnSet(size, C) = total
    BY <1>1, FolderSum
  <2>4. C \in SUBSET Nodes(t)
    BY <2>3 DEF ChildrenOf
  <2>5. \A c \in C : size[c] \in Nat /\ size[c] > 0
    <3>1. ASSUME NEW c \in C PROVE size[c] \in Nat /\ size[c] > 0
      <4>1. size[c] = EffectiveSize(t, r, c)
        BY DEF SizesOf
      <4>2. EffectiveSize(t, r, c) > 0
        BY DEF CountedIn
      <4>3. EffectiveSize(t, r, c) \in Nat
        BY <2>4, SizeIsShown
      <4>. QED
        BY <4>1, <4>2, <4>3
    <3>. QED
      BY <3>1
  <2>6. Summable(size, C)
    BY <2>3, <2>5 DEF Summable
  <2>7. total \in Nat \ {0}
    BY <1>2, <1>4
  <2>8. \A c \in C : sweep[c] = Share(size[c], w.to - w.from, total) /\ sweep[c] \in Nat
    <3>1. w.to - w.from \in Nat
      BY <1>1
    <3>. HIDE DEF size, total, C
    <3>. QED
      BY <2>5, <2>7, <3>1, ShareBounds
  <2>9. Summable(sweep, C)
    BY <2>3, <2>8 DEF Summable
  <2>10. C # {}
    <3>. SUFFICES ASSUME C = {} PROVE FALSE
      OBVIOUS
    <3>. HIDE DEF size, C
    <3>1. Summable(size, {})
      BY <2>6
    <3>2. SumFunctionOnSet(size, {}) = 0
      BY <3>1, SumFacts
    <3>. QED
      BY <1>4, <2>3, <3>2
  <2>. HIDE DEF size, C, sweep, total, counted, raw
  <2>. DEFINE single == SingleOf(counted, sweep, remaining)
  <2>11. /\ IsSingle(single, C, sweep)
         /\ IsLaid(raw, w, C, size, sweep, single)
         /\ Len(raw) <= remaining
    <3>1. SumFunctionOnSet(size, C) <= MaxBytes
      BY <1>2, <2>3
    <3>. QED
      BY <2>1, <2>2, <2>5, <2>6, <2>9, <3>1, LaidFacts
  <2>. HIDE DEF single
  <2>12. PICK u : /\ AreAngles(u, w, sweep, single)
                  /\ ToSet(single) = C =>
                       2 * (w.to - w.from) <= 2 * u[Len(single)] + Len(single)
    BY <1>1, <2>3, <2>6, <2>7, <2>8, <2>11, AnglesExist
  <2>13. IsAngled(t, raw, w, size, single, u)
    BY <2>4, <2>6, <2>11, <2>12, LaidAngles
  <2>14. IsRing(t, r, g, w)
    <3>1. SumFunctionOnSet(size, C) = EffectiveSize(t, r, w.node)
      BY <2>3 DEF total
    <3>. QED
      BY <2>3, <2>6, <2>10, <2>11, <2>12, <2>13, <3>1, ClosedIsRing
  <2>15. ArePushed(t, FoldersOf(t, raw), g, w)
    BY <2>3, <2>9, <2>11, <2>12, <2>13, PushedFromRing
  <2>16. Len(g) <= remaining
    <3>1. raw \in Seq(Arcs(Nodes(t)))
      BY <2>13 DEF IsAngled
    <3>2. Len(g) = Len(raw)
      BY <1>1, <3>1, ClosedFacts
    <3>. QED
      BY <2>11, <3>2
  <2>. QED
    BY <2>14, <2>15, <2>16 DEF raw
<1>. QED
  BY <1>3, <1>4

(***************************************************************************)
(* The arcs A after p rounds over the work list W: the ring of W[i] is     *)
(* rings[i], whose arcs end at e[i], and W[j] was found in the ring of     *)
(* W[par[j]].                                                              *)
(***************************************************************************)
AreArcs(t, r, A, W, p, rings, e) ==
  /\ p \in Nat /\ Len(W) \in Nat /\ p <= Len(W)
  /\ A \in Seq(Arcs(Nodes(t)))
  /\ \A i \in 0 .. p : e[i] \in Nat
  /\ e[0] = 0 /\ e[p] = Len(A)
  /\ \A i, j \in 0 .. p : i <= j => e[i] <= e[j]
  /\ \A i \in 1 .. p :
       /\ IsRing(t, r, rings[i], W[i])
       /\ e[i] = e[i - 1] + Len(rings[i])
       /\ \A k \in 1 .. Len(rings[i]) : A[e[i - 1] + k] = rings[i][k]
  /\ \A x \in 1 .. Len(A) : \E i \in 1 .. p : \E k \in 1 .. Len(rings[i]) : x = e[i - 1] + k

IsWorkList(t, start, W, p, rings, e, par) ==
  /\ p \in Nat /\ Len(W) \in Nat \ {0} /\ p <= Len(W)
  /\ W \in Seq(Works(t)) /\ W[1] = FirstWork(start)
  /\ \A j \in 1 .. Len(W) : IsWork(t, W[j]) /\ start <= W[j].node
  /\ \A i, j \in 1 .. Len(W) : W[i].node = W[j].node => i = j
  /\ \A i, j \in 1 .. Len(W) : i <= j => W[i].depth <= W[j].depth
  /\ \A j \in 2 .. Len(W) : /\ par[j] \in 1 .. p /\ par[j] < j
                            /\ ComesFrom(t, W[j], rings[par[j]], W[par[j]])
  /\ \A i, j \in 2 .. Len(W) :
       i < j => /\ par[i] <= par[j]
                /\ par[i] = par[j] => W[i].to <= W[j].from
                /\ W[i].depth = W[j].depth => 2 * (W[i].to - W[j].from) <= e[par[i]]

\* f goes on as g, whose next value is v.
GoesOn(f, g, first, last, v) ==
  /\ \A i \in first .. last : g[i] = f[i]
  /\ g[last + 1] = v

\* Another ring goes behind the arcs there are.
LEMMA RingAdded ==
  ASSUME NEW t, NEW r, NEW A, NEW W, NEW p, NEW rings, NEW e,
         AreArcs(t, r, A, W, p, rings, e), p < Len(W),
         NEW g, IsRing(t, r, g, W[p + 1]),
         NEW W2, Len(W2) \in Nat, Len(W) <= Len(W2), \A j \in 1 .. Len(W) : W2[j] = W[j],
         NEW rings2, GoesOn(rings, rings2, 1, p, g),
         NEW e2, GoesOn(e, e2, 0, p, e[p] + Len(g))
  PROVE  AreArcs(t, r, A \o g, W2, p + 1, rings2, e2)
<1>. DEFINE B == A \o g
            a == Len(A)
            n == Len(g)
<1>1. /\ p \in Nat /\ Len(W) \in Nat
      /\ A \in Seq(Arcs(Nodes(t)))
      /\ \A i \in 0 .. p : e[i] \in Nat
      /\ e[0] = 0 /\ e[p] = a
      /\ \A i, j \in 0 .. p : i <= j => e[i] <= e[j]
      /\ \A i \in 1 .. p :
           /\ IsRing(t, r, rings[i], W[i])
           /\ e[i] = e[i - 1] + Len(rings[i])
           /\ \A k \in 1 .. Len(rings[i]) : A[e[i - 1] + k] = rings[i][k]
      /\ \A x \in 1 .. a : \E i \in 1 .. p : \E k \in 1 .. Len(rings[i]) : x = e[i - 1] + k
  BY DEF AreArcs
<1>2. g \in Seq(Arcs(Nodes(t))) /\ n \in Nat
  BY DEF IsRing
<1>3. B \in Seq(Arcs(Nodes(t))) /\ IsJoined(B, A, g)
  BY <1>1, <1>2, Joined
<1>4. /\ a \in Nat /\ Len(B) = a + n
      /\ \A x \in 1 .. a : B[x] = A[x]
      /\ \A k \in 1 .. n : B[a + k] = g[k]
  BY <1>3 DEF IsJoined
<1>5. /\ \A i \in 1 .. p : rings2[i] = rings[i]
      /\ rings2[p + 1] = g
      /\ \A i \in 0 .. p : e2[i] = e[i]
      /\ e2[p + 1] = a + n
  BY <1>1 DEF GoesOn
<1>. HIDE DEF B, a, n
<1>6. p + 1 \in Nat /\ p + 1 <= Len(W2) /\ p + 1 \in 1 .. Len(W)
  BY <1>1
<1>7. \A i \in 0 .. p + 1 : i \in 0 .. p \/ i = p + 1
  BY <1>1
<1>8. \A i \in 1 .. p + 1 : i \in 1 .. p \/ i = p + 1
  BY <1>1
<1>9. 0 \in 0 .. p /\ p \in 0 .. p
  BY <1>1
<1>10. \A i \in 0 .. p + 1 : e2[i] \in Nat
  <2>1. a + n \in Nat
    BY <1>2, <1>4
  <2>2. \A i \in 0 .. p : e2[i] \in Nat
    BY <1>1, <1>5
  <2>. QED
    BY <1>5, <1>7, <2>1, <2>2
<1>11. \A i \in 0 .. p : e2[i] <= a
  BY <1>1, <1>5, <1>9
<1>12. ASSUME NEW i \in 0 .. p + 1, NEW j \in 0 .. p + 1, i <= j PROVE e2[i] <= e2[j]
  <2>1. CASE j \in 0 .. p
    <3>1. i \in 0 .. p
      BY <1>1, <1>12, <2>1
    <3>. QED
      BY <1>1, <1>5, <1>12, <2>1, <3>1
  <2>2. CASE j = p + 1
    <3>1. CASE i = p + 1
      BY <1>2, <1>4, <1>5, <2>2, <3>1
    <3>2. CASE i \in 0 .. p
      <4>1. e2[i] <= a /\ e2[i] \in Nat
        BY <1>10, <1>11, <3>2
      <4>. QED
        BY <1>2, <1>4, <1>5, <2>2, <4>1
    <3>. QED
      BY <1>7, <3>1, <3>2
  <2>. QED
    BY <1>7, <2>1, <2>2
<1>13. ASSUME NEW i \in 1 .. p + 1
       PROVE  /\ IsRing(t, r, rings2[i], W2[i])
              /\ e2[i] = e2[i - 1] + Len(rings2[i])
              /\ \A k \in 1 .. Len(rings2[i]) : B[e2[i - 1] + k] = rings2[i][k]
  <2>1. CASE i \in 1 .. p
    <3>1. i \in 1 .. Len(W) /\ i - 1 \in 0 .. p /\ i \in 0 .. p
      BY <1>1, <1>6, <2>1
    <3>2. W2[i] = W[i] /\ rings2[i] = rings[i] /\ e2[i] = e[i] /\ e2[i - 1] = e[i - 1]
      BY <1>5, <2>1, <3>1
    <3>3. /\ IsRing(t, r, rings[i], W[i])
          /\ e[i] = e[i - 1] + Len(rings[i])
          /\ \A k \in 1 .. Len(rings[i]) : A[e[i - 1] + k] = rings[i][k]
      BY <1>1, <2>1
    <3>4. ASSUME NEW k \in 1 .. Len(rings[i]) PROVE e[i - 1] + k \in 1 .. a
      <4>1. e[i] <= a /\ e[i - 1] \in Nat /\ e[i] \in Nat
        BY <1>1, <1>9, <1>11, <1>5, <3>1
      <4>2. Len(rings[i]) \in Nat
        BY <3>3 DEF IsRing
      <4>. QED
        BY <1>4, <3>3, <4>1, <4>2, SMTT(30)
    <3>. QED
      BY <1>4, <3>2, <3>3, <3>4
  <2>2. CASE i = p + 1
    <3>1. i - 1 = p
      BY <1>1, <2>2
    <3>2. W2[i] = W[p + 1] /\ rings2[i] = g /\ e2[i] = a + n /\ e2[i - 1] = a
      BY <1>1, <1>5, <1>6, <1>9, <2>2, <3>1
    <3>. QED
      BY <1>4, <3>2 DEF n
  <2>. QED
    BY <1>8, <2>1, <2>2
<1>14. ASSUME NEW x \in 1 .. a + n
       PROVE  \E i \in 1 .. p + 1 : \E k \in 1 .. Len(rings2[i]) : x = e2[i - 1] + k
  <2>1. CASE x \in 1 .. a
    <3>1. PICK i \in 1 .. p : \E k \in 1 .. Len(rings[i]) : x = e[i - 1] + k
      BY <1>1, <2>1
    <3>4. PICK k \in 1 .. Len(rings[i]) : x = e[i - 1] + k
      BY <3>1
    <3>2. i \in 1 .. p + 1 /\ i - 1 \in 0 .. p
      BY <1>1
    <3>3. k \in 1 .. Len(rings2[i]) /\ x = e2[i - 1] + k
      BY <1>5, <3>2, <3>4
    <3>. QED
      BY <3>2, <3>3
  <2>2. CASE x \notin 1 .. a
    <3>1. x - a \in 1 .. n /\ x = a + (x - a)
      BY <1>2, <1>4, <2>2
    <3>2. p + 1 \in 1 .. p + 1 /\ (p + 1) - 1 = p
      BY <1>1
    <3>3. e2[(p + 1) - 1] = a /\ Len(rings2[p + 1]) = n
      BY <1>1, <1>5, <1>9, <3>2 DEF n
    <3>4. x - a \in 1 .. Len(rings2[p + 1]) /\ x = e2[(p + 1) - 1] + (x - a)
      BY <3>1, <3>3
    <3>. QED
      BY <3>2, <3>4
  <2>. QED
    BY <2>1, <2>2
<1>15. e2[0] = 0 /\ e2[p + 1] = Len(B)
  BY <1>1, <1>4, <1>5, <1>9
<1>16. \A x \in 1 .. Len(B) : \E i \in 1 .. p + 1 : \E k \in 1 .. Len(rings2[i]) :
         x = e2[i - 1] + k
  BY <1>4, <1>14, SMTT(30)
<1>17. AreArcs(t, r, B, W2, p + 1, rings2, e2)
  BY <1>3, <1>6, <1>10, <1>12, <1>13, <1>15, <1>16 DEF AreArcs
<1>. QED
  BY <1>17 DEF B

\* The folders of the next ring go behind those that wait.
LEMMA FoldersAdded ==
  ASSUME NEW t \in Trees, NEW r, NEW start \in Nodes(t), NEW A, NEW W, NEW p, NEW rings, NEW e,
         AreArcs(t, r, A, W, p, rings, e), p < Len(W),
         NEW par, IsWorkList(t, start, W, p, rings, e, par),
         NEW g, IsRing(t, r, g, W[p + 1]),
         NEW F, ArePushed(t, F, g, W[p + 1]),
         NEW rings2, GoesOn(rings, rings2, 1, p, g),
         NEW e2, GoesOn(e, e2, 0, p, e[p] + Len(g)),
         NEW par2, \A j \in 2 .. Len(W) + Len(F) : par2[j] = IF j <= Len(W) THEN par[j] ELSE p + 1
  PROVE  /\ IsWorkList(t, start, W \o F, p + 1, rings2, e2, par2)
         /\ Len(W \o F) \in Nat /\ Len(W) <= Len(W \o F)
         /\ \A j \in 1 .. Len(W) : (W \o F)[j] = W[j]
<1>. DEFINE B == W \o F
            q == Len(W)
            m == Len(F)
            w == W[p + 1]
<1>1. /\ p \in Nat /\ q \in Nat \ {0} /\ p < q
      /\ W \in Seq(Works(t)) /\ W[1] = FirstWork(start)
      /\ \A j \in 1 .. q : IsWork(t, W[j]) /\ start <= W[j].node
      /\ \A i, j \in 1 .. q : W[i].node = W[j].node => i = j
      /\ \A i, j \in 1 .. q : i <= j => W[i].depth <= W[j].depth
      /\ \A j \in 2 .. q : /\ par[j] \in 1 .. p /\ par[j] < j
                           /\ ComesFrom(t, W[j], rings[par[j]], W[par[j]])
      /\ \A i, j \in 2 .. q :
           i < j => /\ par[i] <= par[j]
                    /\ par[i] = par[j] => W[i].to <= W[j].from
                    /\ W[i].depth = W[j].depth => 2 * (W[i].to - W[j].from) <= e[par[i]]
  BY DEF IsWorkList
<1>2. /\ \A i \in 0 .. p : e[i] \in Nat
      /\ e[0] = 0
      /\ \A i, j \in 0 .. p : i <= j => e[i] <= e[j]
      /\ \A i \in 1 .. p : e[i] = e[i - 1] + Len(rings[i])
      /\ \A i \in 1 .. p : IsRing(t, r, rings[i], W[i])
  BY DEF AreArcs
<1>3. /\ F \in Seq(Works(t)) /\ m \in Nat
      /\ \A i \in 1 .. m : IsWork(t, F[i]) /\ ComesFrom(t, F[i], g, w)
      /\ \A i, j \in 1 .. m : i < j => F[i].to <= F[j].from
      /\ \A i, j \in 1 .. m : F[i].node = F[j].node => i = j
  BY DEF ArePushed
<1>4. B \in Seq(Works(t)) /\ IsJoined(B, W, F)
  BY <1>1, <1>3, Joined
<1>5. /\ Len(B) = q + m
      /\ \A j \in 1 .. q : B[j] = W[j]
      /\ \A k \in 1 .. m : B[q + k] = F[k]
  BY <1>4 DEF IsJoined
<1>6. \A j \in 2 .. q + m : par2[j] = IF j <= q THEN par[j] ELSE p + 1
  OBVIOUS
<1>7. /\ \A i \in 1 .. p : rings2[i] = rings[i]
      /\ rings2[p + 1] = g
      /\ \A i \in 0 .. p : e2[i] = e[i]
      /\ e2[p + 1] = e[p] + Len(g)
  BY DEF GoesOn
<1>. HIDE DEF B, q, m
<1>8. Len(g) \in Nat
  BY DEF IsRing
<1>9. p + 1 \in 1 .. q /\ 1 \in 1 .. q
  BY <1>1
<1>10. IsWork(t, w) /\ start <= w.node
  BY <1>1, <1>9
<1>. HIDE DEF w
<1>11. ASSUME NEW j \in 1 .. q + m
       PROVE  \/ j \in 1 .. q /\ B[j] = W[j]
              \/ /\ j > q /\ j \in 2 .. q + m
                 /\ \E k \in 1 .. m : j = q + k /\ B[j] = F[k]
                 /\ par2[j] = p + 1
  <2>1. CASE j <= q
    <3>1. j \in 1 .. q
      BY <1>1, <2>1
    <3>. QED
      BY <1>5, <3>1
  <2>2. CASE ~(j <= q)
    <3>1. j - q \in 1 .. m /\ j = q + (j - q) /\ j > q /\ j \in 2 .. q + m
      BY <1>1, <1>3, <2>2
    <3>2. B[j] = F[j - q]
      BY <1>5, <3>1
    <3>3. par2[j] = p + 1
      BY <1>6, <2>2, <3>1
    <3>. QED
      BY <3>1, <3>2, <3>3
  <2>. QED
    BY <2>1, <2>2
<1>12. \A j \in 2 .. q : /\ j \in 1 .. q /\ B[j] = W[j] /\ par2[j] = par[j]
                         /\ par[j] \in 1 .. p /\ par[j] \in 1 .. q /\ par[j] < j
                         /\ par[j] \in 0 .. p
                         /\ ComesFrom(t, W[j], rings[par[j]], W[par[j]])
  <2>1. ASSUME NEW j \in 2 .. q
        PROVE  /\ j \in 1 .. q /\ j \in 2 .. q + m /\ j <= q
               /\ par[j] \in 1 .. p
               /\ par[j] \in 1 .. q /\ par[j] \in 0 .. p
    <3>1. par[j] \in 1 .. p
      BY <1>1
    <3>. QED
      BY <1>1, <1>3, <3>1
  <2>. QED
    BY <1>1, <1>5, <1>6, <2>1
<1>13. ASSUME NEW k \in 1 .. m
       PROVE  /\ F[k].depth = w.depth + 1
              /\ F[k].node \in Nodes(t) \ {Root} /\ Parent[t][F[k].node] = w.node
              /\ start <= F[k].node /\ F[k].node # start
              /\ w.from <= F[k].from /\ F[k].from \in Int /\ F[k].to \in Int
  <2>1. IsWork(t, F[k]) /\ ComesFrom(t, F[k], g, w)
    BY <1>3
  <2>2. /\ F[k].depth = w.depth + 1 /\ Parent[t][F[k].node] = w.node /\ F[k].node # Root
        /\ w.from <= F[k].from /\ F[k].from \in Int /\ F[k].to \in Int
        /\ F[k].node \in Directory[t]
    BY <2>1 DEF IsWork, ComesFrom
  <2>3. F[k].node \in Nodes(t) \ {Root} /\ Nodes(t) \in SUBSET Nat
    BY <2>2, TreeFacts
  <2>4. w.node < F[k].node
    BY <2>2, <2>3, TreeFacts
  <2>5. w.node \in Nodes(t)
    BY <1>10, TreeFacts DEF IsWork
  <2>6. start <= F[k].node /\ F[k].node # start
    BY <1>10, <2>3, <2>4, <2>5
  <2>. QED
    BY <2>2, <2>3, <2>6
<1>14. \A j \in 1 .. q + m : IsWork(t, B[j]) /\ start <= B[j].node
  BY <1>1, <1>3, <1>11, <1>13, ZenonT(30)
<1>15. ASSUME NEW j \in 1 .. q, NEW k \in 1 .. m PROVE W[j].node # F[k].node
  <2>1. CASE j = 1
    <3>1. W[j].node = start
      BY <1>1, <2>1 DEF FirstWork
    <3>. QED
      BY <1>13, <3>1
  <2>2. CASE j # 1
    <3>1. j \in 2 .. q
      BY <1>1, <2>2
    <3>2. Parent[t][W[j].node] = W[par[j]].node /\ par[j] \in 1 .. q /\ par[j] \in 1 .. p
      BY <1>12, <3>1 DEF ComesFrom
    <3>3. par[j] # p + 1
      BY <1>1, <3>2
    <3>4. W[par[j]].node # w.node
      BY <1>1, <1>9, <3>2, <3>3 DEF w
    <3>. QED
      BY <1>13, <3>2, <3>4
  <2>. QED
    BY <2>1, <2>2
<1>16. ASSUME NEW i \in 1 .. q + m, NEW j \in 1 .. q + m, B[i].node = B[j].node
       PROVE  i = j
  <2>1. CASE i \in 1 .. q /\ j \in 1 .. q
    BY <1>1, <1>5, <1>16, <2>1
  <2>2. CASE i > q /\ j > q
    <3>1. PICK k \in 1 .. m : i = q + k /\ B[i] = F[k]
      BY <1>1, <1>11, <2>2
    <3>2. PICK h \in 1 .. m : j = q + h /\ B[j] = F[h]
      BY <1>1, <1>11, <2>2
    <3>. QED
      BY <1>3, <1>16, <3>1, <3>2
  <2>3. CASE i \in 1 .. q /\ j > q
    <3>1. PICK h \in 1 .. m : j = q + h /\ B[j] = F[h]
      BY <1>1, <1>11, <2>3
    <3>. QED
      BY <1>5, <1>15, <1>16, <2>3, <3>1
  <2>4. CASE i > q /\ j \in 1 .. q
    <3>1. PICK h \in 1 .. m : i = q + h /\ B[i] = F[h]
      BY <1>1, <1>11, <2>4
    <3>. QED
      BY <1>5, <1>15, <1>16, <2>4, <3>1
  <2>5. (i \in 1 .. q \/ i > q) /\ (j \in 1 .. q \/ j > q)
    BY <1>11
  <2>. QED
    BY <2>1, <2>2, <2>3, <2>4, <2>5
<1>17. w.depth \in Nat /\ \A j \in 1 .. q : W[j].depth \in Nat
  BY <1>1, <1>10 DEF IsWork
<1>18. ASSUME NEW j \in 1 .. q PROVE W[j].depth <= w.depth + 1
  <2>1. CASE j = 1
    <3>1. W[j].depth = 0
      BY <1>1, <2>1 DEF FirstWork
    <3>. QED
      BY <1>17, <3>1
  <2>2. CASE j # 1
    <3>1. j \in 2 .. q
      BY <1>1, <2>2
    <3>2. W[j].depth = W[par[j]].depth + 1 /\ par[j] \in 1 .. q /\ par[j] \in 1 .. p
      BY <1>12, <3>1 DEF ComesFrom
    <3>3. par[j] <= p + 1
      BY <1>1, <3>2
    <3>4. W[par[j]].depth <= w.depth
      BY <1>1, <1>9, <3>2, <3>3 DEF w
    <3>. QED
      BY <1>17, <3>2, <3>4
  <2>. QED
    BY <2>1, <2>2
<1>19. ASSUME NEW i \in 1 .. q + m, NEW j \in 1 .. q + m, i <= j
       PROVE  B[i].depth <= B[j].depth
  <2>1. CASE j \in 1 .. q
    <3>1. i \in 1 .. q
      BY <1>1, <1>19, <2>1
    <3>. QED
      BY <1>1, <1>5, <1>19, <2>1, <3>1
  <2>2. CASE j > q
    <3>1. PICK k \in 1 .. m : B[j] = F[k]
      BY <1>1, <1>11, <2>2
    <3>2. B[j].depth = w.depth + 1
      BY <1>13, <3>1
    <3>3. CASE i \in 1 .. q
      BY <1>5, <1>18, <3>2, <3>3
    <3>4. CASE i > q
      <4>1. PICK h \in 1 .. m : B[i] = F[h]
        BY <1>1, <1>11, <3>4
      <4>. QED
        BY <1>13, <1>17, <3>2, <4>1
    <3>. QED
      BY <1>11, <3>3, <3>4
  <2>. QED
    BY <1>11, <2>1, <2>2
<1>20. ASSUME NEW j \in 2 .. q + m
       PROVE  /\ par2[j] \in 1 .. p + 1 /\ par2[j] < j
              /\ ComesFrom(t, B[j], rings2[par2[j]], B[par2[j]])
  <2>0. j \in 1 .. q + m
    BY <1>1, <1>3
  <2>1. CASE j \in 1 .. q
    <3>1. j \in 2 .. q
      BY <1>1, <2>1
    <3>2. /\ B[j] = W[j] /\ par2[j] = par[j] /\ par[j] \in 1 .. p /\ par[j] \in 1 .. q /\ par[j] < j
          /\ ComesFrom(t, W[j], rings[par[j]], W[par[j]])
      BY <1>12, <3>1
    <3>3. rings2[par[j]] = rings[par[j]] /\ B[par[j]] = W[par[j]]
      BY <1>5, <1>7, <3>2
    <3>4. par[j] \in 1 .. p + 1
      BY <1>1, <3>2
    <3>. QED
      BY <3>2, <3>3, <3>4
  <2>2. CASE j > q
    <3>1. PICK k \in 1 .. m : B[j] = F[k]
      BY <1>1, <1>11, <2>0, <2>2
    <3>2. par2[j] = p + 1
      BY <1>1, <1>11, <2>0, <2>2
    <3>3. rings2[p + 1] = g /\ B[p + 1] = w
      BY <1>5, <1>7, <1>9 DEF w
    <3>4. p + 1 \in 1 .. p + 1 /\ p + 1 < j
      BY <1>1, <2>2
    <3>. QED
      BY <1>3, <3>1, <3>2, <3>3, <3>4
  <2>. QED
    BY <1>11, <2>0, <2>1, <2>2
<1>21. ASSUME NEW i \in 2 .. q + m, NEW j \in 2 .. q + m, i < j
       PROVE  /\ par2[i] <= par2[j]
              /\ par2[i] = par2[j] => B[i].to <= B[j].from
              /\ B[i].depth = B[j].depth => 2 * (B[i].to - B[j].from) <= e2[par2[i]]
  <2>0. i \in 1 .. q + m /\ j \in 1 .. q + m
    BY <1>1, <1>3
  <2>1. CASE j <= q
    <3>1. i \in 2 .. q /\ j \in 2 .. q
      BY <1>1, <1>21, <2>1
    <3>2. /\ B[i] = W[i] /\ B[j] = W[j] /\ par2[i] = par[i] /\ par2[j] = par[j]
          /\ par[i] \in 0 .. p
      BY <1>12, <3>1
    <3>3. e2[par[i]] = e[par[i]]
      BY <1>7, <3>2
    <3>4. /\ par[i] <= par[j]
          /\ par[i] = par[j] => W[i].to <= W[j].from
          /\ W[i].depth = W[j].depth => 2 * (W[i].to - W[j].from) <= e[par[i]]
      BY <1>1, <1>21, <3>1
    <3>. QED
      BY <3>2, <3>3, <3>4
  <2>2. CASE j > q
    <3>1. PICK k \in 1 .. m : j = q + k /\ B[j] = F[k]
      BY <1>1, <1>11, <2>0, <2>2, SMTT(30)
    <3>2. par2[j] = p + 1 /\ B[j].from \in Int /\ B[j].depth = w.depth + 1 /\ w.from <= B[j].from
      BY <1>1, <1>11, <1>13, <2>0, <2>2, <3>1
    <3>3. CASE i > q
      <4>1. PICK h \in 1 .. m : i = q + h /\ B[i] = F[h]
        BY <1>1, <1>11, <2>0, <3>3
      <4>2. par2[i] = p + 1
        BY <1>1, <1>11, <2>0, <3>3
      <4>3. h < k
        BY <1>1, <1>21, <3>1, <4>1
      <4>4. B[i].to <= B[j].from /\ B[i].to \in Int
        BY <1>3, <1>13, <3>1, <4>1, <4>3
      <4>5. e2[p + 1] \in Nat
        <5>1. p \in 0 .. p
          BY <1>1
        <5>2. e[p] \in Nat
          BY <1>2, <5>1
        <5>. QED
          BY <1>7, <1>8, <5>2
      <4>6. 2 * (B[i].to - B[j].from) <= e2[p + 1]
        BY <3>2, <4>4, <4>5
      <4>. QED
        BY <1>1, <3>2, <4>2, <4>4, <4>6
    <3>4. CASE i <= q
      <4>1. i \in 2 .. q
        BY <1>1, <3>4
      <4>. DEFINE a == par[i]
      <4>2. /\ B[i] = W[i] /\ par2[i] = a /\ a \in 1 .. p /\ a \in 1 .. q /\ a \in 0 .. p /\ a < i
            /\ ComesFrom(t, W[i], rings[a], W[a])
        BY <1>12, <4>1
      <4>. HIDE DEF a
      <4>3. a <= p + 1 /\ a # p + 1
        BY <1>1, <4>2
      <4>4. ASSUME W[i].depth = B[j].depth PROVE 2 * (W[i].to - B[j].from) <= e[a]
        <5>1. W[i].depth = W[a].depth + 1 /\ 2 * (W[i].to - W[a].to) <= Len(rings[a])
          BY <4>2 DEF ComesFrom
        <5>2. W[a].depth = w.depth
          <6>1. W[a].depth \in Nat /\ w.depth \in Nat
            BY <1>17, <4>2
          <6>2. W[a].depth + 1 = w.depth + 1
            BY <3>2, <4>4, <5>1
          <6>. QED
            BY <6>1, <6>2, SMTT(30)
        <5>3. p + 1 \in 2 .. q
          BY <1>1, <1>9, <4>2
        <5>4. W[p + 1].depth = W[par[p + 1]].depth + 1 /\ par[p + 1] \in 1 .. q
          BY <1>12, <5>3 DEF ComesFrom
        <5>5. w.depth >= 1
          BY <1>17, <5>4 DEF w
        <5>6. a # 1
          <6>. SUFFICES ASSUME a = 1 PROVE FALSE
            OBVIOUS
          <6>1. W[a].depth = 0
            BY <1>1 DEF FirstWork
          <6>. QED
            BY <5>2, <5>5, <6>1
        <5>7. a \in 2 .. q /\ a < p + 1
          BY <1>1, <4>2, <5>6
        <5>8. 2 * (W[a].to - w.from) <= e[par[a]]
          BY <1>1, <5>2, <5>3, <5>7 DEF w
        <5>9. par[a] \in 0 .. p /\ par[a] < a
          BY <1>12, <5>7
        <5>10. a - 1 \in 0 .. p /\ par[a] <= a - 1
          BY <1>1, <4>2, <5>9, SMTT(30)
        <5>11. e[par[a]] <= e[a - 1] /\ e[a] = e[a - 1] + Len(rings[a])
          BY <1>2, <4>2, <5>9, <5>10
        <5>12. e[par[a]] \in Nat /\ e[a - 1] \in Nat /\ e[a] \in Nat
          BY <1>2, <4>2, <5>9, <5>10
        <5>13. Len(rings[a]) \in Nat
          BY <1>2, <4>2 DEF IsRing
        <5>14. W[i].to \in Int /\ W[a].to \in Int /\ w.from \in Int
          <6>1. i \in 1 .. q
            BY <1>12, <4>1
          <6>. QED
            BY <1>1, <1>10, <4>2, <6>1 DEF IsWork
        <5>15. 2 * (W[i].to - w.from) <= e[a]
          <6>. DEFINE x == W[i].to
                      y == W[a].to
                      z == w.from
                      b == e[par[a]]
                      c == e[a - 1]
                      d == e[a]
                      n == Len(rings[a])
          <6>1. /\ x \in Int /\ y \in Int /\ z \in Int
                /\ b \in Int /\ c \in Int /\ d \in Int /\ n \in Int
            BY <5>12, <5>13, <5>14, SMTT(30)
          <6>2. 2 * (x - y) <= n /\ 2 * (y - z) <= b /\ b <= c /\ d = c + n
            BY <5>1, <5>8, <5>11
          <6>. HIDE DEF x, y, z, b, c, d, n
          <6>3. 2 * (x - z) <= d
            BY <6>1, <6>2
          <6>. QED
            BY <6>3 DEF x, z, d
        <5>. QED
          <6>1. \A x, y, z, d \in Int : 2 * (x - y) <= d /\ y <= z => 2 * (x - z) <= d
            OBVIOUS
          <6>2. e[a] \in Int
            BY <5>12
          <6>. QED
            BY <3>2, <5>14, <5>15, <6>1, <6>2
      <4>5. e2[a] = e[a]
        BY <1>7, <4>2
      <4>. QED
        BY <1>1, <3>2, <4>2, <4>3, <4>4, <4>5
    <3>. QED
      BY <1>1, <3>3, <3>4
  <2>. QED
    BY <1>1, <2>1, <2>2
<1>22. B[1] = FirstWork(start)
  BY <1>1, <1>5, <1>9
<1>23. /\ Len(B) \in Nat \ {0} /\ p + 1 \in Nat /\ p + 1 <= Len(B) /\ q <= Len(B)
  BY <1>1, <1>3, <1>5
<1>24. /\ \A j \in 1 .. Len(B) : IsWork(t, B[j]) /\ start <= B[j].node
       /\ \A i, j \in 1 .. Len(B) : B[i].node = B[j].node => i = j
       /\ \A i, j \in 1 .. Len(B) : i <= j => B[i].depth <= B[j].depth
       /\ \A j \in 2 .. Len(B) : /\ par2[j] \in 1 .. p + 1 /\ par2[j] < j
                                 /\ ComesFrom(t, B[j], rings2[par2[j]], B[par2[j]])
       /\ \A i, j \in 2 .. Len(B) :
            i < j => /\ par2[i] <= par2[j]
                     /\ par2[i] = par2[j] => B[i].to <= B[j].from
                     /\ B[i].depth = B[j].depth => 2 * (B[i].to - B[j].from) <= e2[par2[i]]
  BY <1>5, <1>14, <1>16, <1>19, <1>20, <1>21
<1>25. IsWorkList(t, start, B, p + 1, rings2, e2, par2)
  BY <1>4, <1>22, <1>23, <1>24 DEF IsWorkList
<1>. QED
  BY <1>5, <1>23, <1>25 DEF B, q

NothingDone(start) == [arcs |-> <<>>, work |-> <<FirstWork(start)>>]

\* f has what is done after each of the first n rounds.
AreRounds(f, n, t, x, start) ==
  f = [k \in 0 .. n |-> IF k = 0 THEN NothingDone(start) ELSE Round(t, x, f[k - 1], k)]

\* There is a function of the rounds up to the n-th, by induction on n.
LEMMA RoundsExist ==
  ASSUME NEW n \in Nat, NEW t, NEW x, NEW start
  PROVE  \E f : AreRounds(f, n, t, x, start)
<1>. DEFINE Good == {i \in Nat : \E f : AreRounds(f, i, t, x, start)}
<1>1. 0 \in Good
  <2>. DEFINE f == [k \in 0 .. 0 |-> NothingDone(start)]
  <2>1. \A k \in 0 .. 0 : k = 0
    OBVIOUS
  <2>2. AreRounds(f, 0, t, x, start)
    BY <2>1 DEF AreRounds
  <2>. QED
    BY <2>2
<1>2. ASSUME NEW i \in Good PROVE i + 1 \in Good
  <2>1. i \in Nat
    OBVIOUS
  <2>2. PICK f : AreRounds(f, i, t, x, start)
    OBVIOUS
  <2>. DEFINE g == [k \in 0 .. i + 1 |-> IF k <= i THEN f[k] ELSE Round(t, x, f[i], i + 1)]
  <2>3. ASSUME NEW k \in 0 .. i + 1
        PROVE  g[k] = IF k = 0 THEN NothingDone(start) ELSE Round(t, x, g[k - 1], k)
    <3>1. CASE k \in 0 .. i
      <4>1. g[k] = f[k]
        BY <2>1, <3>1
      <4>2. f[k] = IF k = 0 THEN NothingDone(start) ELSE Round(t, x, f[k - 1], k)
        BY <2>2, <3>1 DEF AreRounds
      <4>3. k # 0 => g[k - 1] = f[k - 1]
        BY <2>1, <3>1
      <4>. HIDE DEF g
      <4>. QED
        BY <4>1, <4>2, <4>3
    <3>2. CASE k = i + 1
      <4>1. g[k] = Round(t, x, f[i], i + 1) /\ k - 1 = i /\ k # 0 /\ i \in 0 .. i + 1
        BY <2>1, <3>2
      <4>2. g[i] = f[i]
        BY <2>1, <4>1
      <4>. HIDE DEF g
      <4>. QED
        BY <3>2, <4>1, <4>2
    <3>3. k \in 0 .. i \/ k = i + 1
      BY <2>1
    <3>. QED
      BY <3>1, <3>2, <3>3
  <2>4. g = [k \in 0 .. i + 1 |-> g[k]]
    OBVIOUS
  <2>. HIDE DEF g
  <2>5. AreRounds(g, i + 1, t, x, start)
    BY <2>3, <2>4 DEF AreRounds
  <2>. QED
    BY <2>1, <2>5
<1>3. Good \in SUBSET Nat
  OBVIOUS
<1>4. n \in Good
  <2>. HIDE DEF Good
  <2>1. Good = Nat
    BY <1>1, <1>2, <1>3, AllNumbers
  <2>. QED
    BY <2>1
<1>. QED
  BY <1>4

\* The rounds of a chart are that function.
LEMMA RoundsAre ==
  ASSUME NEW t, NEW x, NEW start, Cardinality(Directory[t]) \in Nat
  PROVE  AreRounds(Rounds(t, x, start), Cardinality(Directory[t]), t, x, start)
<1>. DEFINE n == Cardinality(Directory[t])
<1>1. Rounds(t, x, start)
        = CHOOSE f : f = [k \in 0 .. n |-> IF k = 0 THEN NothingDone(start)
                                           ELSE Round(t, x, f[k - 1], k)]
  BY DEF Rounds, NothingDone
<1>2. \E f : f = [k \in 0 .. n |-> IF k = 0 THEN NothingDone(start) ELSE Round(t, x, f[k - 1], k)]
  <2>1. n \in Nat
    OBVIOUS
  <2>. HIDE DEF n
  <2>2. PICK f : AreRounds(f, n, t, x, start)
    BY <2>1, RoundsExist
  <2>. QED
    BY <2>2 DEF AreRounds
<1>. HIDE DEF n
<1>3. Rounds(t, x, start)
        = [k \in 0 .. n |-> IF k = 0 THEN NothingDone(start)
                            ELSE Round(t, x, Rounds(t, x, start)[k - 1], k)]
  BY <1>1, <1>2
<1>. QED
  BY <1>3 DEF AreRounds, n

-----------------------------------------------------------------------------
\* A is laid ring by ring as the work list W says.
AreLaid(t, r, start, A, W, p, rings, e, par) ==
  /\ AreArcs(t, r, A, W, p, rings, e)
  /\ IsWorkList(t, start, W, p, rings, e, par)
  /\ Len(A) <= MaxSegments

\* k rounds are done, unless the work list or the room for arcs came to an end.
IsDone(t, r, start, done, k) ==
  \E p, rings, e, par :
    /\ AreLaid(t, r, start, done.arcs, done.work, p, rings, e, par)
    /\ p = k \/ Len(done.work) <= k \/ Len(done.arcs) >= MaxSegments
    /\ k >= 1 => p >= 1

\* The work list before the first round.
LEMMA NothingIsDone ==
  ASSUME NEW t \in Trees, NEW r, NEW start \in Directory[t]
  PROVE  IsDone(t, r, start, NothingDone(start), 0)
<1>. DEFINE W == <<FirstWork(start)>>
            e == [i \in 0 .. 0 |-> 0]
            A == <<>>
<1>1. start \in Nodes(t) /\ start \in Nat
  BY TreeFacts
<1>2. IsWork(t, FirstWork(start)) /\ FirstWork(start).node = start
  BY LayoutAssumption DEF IsWork, FirstWork
<1>3. W \in Seq(Works(t)) /\ Len(W) = 1 /\ W[1] = FirstWork(start)
  <2>1. FirstWork(start) \in Works(t)
    BY LayoutAssumption DEF FirstWork, Works
  <2>. QED
    BY <2>1
<1>4. A \in Seq(Arcs(Nodes(t))) /\ Len(A) = 0
  OBVIOUS
<1>5. e[0] = 0
  OBVIOUS
<1>. HIDE DEF W, A, e
<1>6. AreArcs(t, r, A, W, 0, <<>>, e)
  <2>1. \A i \in 0 .. 0 : i = 0
    OBVIOUS
  <2>2. 1 .. 0 = {}
    OBVIOUS
  <2>. QED
    BY <1>3, <1>4, <1>5, <2>1, <2>2 DEF AreArcs
<1>7. IsWorkList(t, start, W, 0, <<>>, e, <<>>)
  <2>1. 2 .. 1 = {} /\ \A i \in 1 .. 1 : i = 1
    OBVIOUS
  <2>2. W[1].depth <= W[1].depth /\ start <= W[1].node
    BY <1>1, <1>2, <1>3 DEF FirstWork
  <2>. QED
    BY <1>2, <1>3, <2>1, <2>2 DEF IsWorkList
<1>8. MaxSegments \in Nat
  BY LayoutAssumption
<1>9. AreLaid(t, r, start, A, W, 0, <<>>, e, <<>>)
  BY <1>4, <1>6, <1>7, <1>8 DEF AreLaid
<1>10. NothingDone(start).arcs = A /\ NothingDone(start).work = W
  BY DEF NothingDone, A, W
<1>. QED
  BY <1>9, <1>10 DEF IsDone

\* A round keeps what is laid: a ring more, and its folders behind the others.
LEMMA RoundIsDone ==
  ASSUME NEW t \in Trees, TotalsFit(t), NEW r, IsReview(t, r), NEW start \in Directory[t],
         NEW done, NEW k \in Nat \ {0}, IsDone(t, r, start, done, k - 1)
  PROVE  IsDone(t, r, start, Round(t, r, done, k), k)
<1>. DEFINE A == done.arcs
            W == done.work
<1>1. PICK p, rings, e, par :
        /\ AreLaid(t, r, start, A, W, p, rings, e, par)
        /\ p = k - 1 \/ Len(W) <= k - 1 \/ Len(A) >= MaxSegments
        /\ k - 1 >= 1 => p >= 1
  BY DEF IsDone
<1>. HIDE DEF A, W
<1>2. /\ AreArcs(t, r, A, W, p, rings, e)
      /\ IsWorkList(t, start, W, p, rings, e, par)
      /\ Len(A) <= MaxSegments
  BY <1>1 DEF AreLaid
<1>3. /\ p \in Nat /\ p <= Len(W)
      /\ A \in Seq(Arcs(Nodes(t))) /\ Len(A) \in Nat
      /\ e[0] = 0 /\ e[p] = Len(A)
  BY <1>2 DEF AreArcs
<1>4. /\ Len(W) \in Nat \ {0}
      /\ \A j \in 1 .. Len(W) : IsWork(t, W[j])
  BY <1>2 DEF IsWorkList
<1>5. MaxSegments \in Nat \ {0}
  BY LayoutAssumption
<1>6. CASE k > Len(W) \/ Len(A) >= MaxSegments
  <2>1. Round(t, r, done, k) = done
    BY <1>6 DEF Round, A, W
  <2>2. p >= 1
    <3>. SUFFICES ASSUME p = 0 PROVE FALSE
      BY <1>3
    <3>1. k = 1
      BY <1>1
    <3>2. Len(A) = 0
      BY <1>3
    <3>. QED
      BY <1>4, <1>5, <1>6, <3>1, <3>2
  <2>3. Len(W) <= k \/ Len(A) >= MaxSegments
    BY <1>4, <1>6
  <2>. QED
    BY <1>1, <2>1, <2>2, <2>3 DEF IsDone, A, W
<1>7. CASE ~(k > Len(W)) /\ ~(Len(A) >= MaxSegments)
  <2>1. p = k - 1 /\ p < Len(W) /\ k = p + 1 /\ k \in 1 .. Len(W)
    BY <1>1, <1>3, <1>4, <1>7
  <2>. DEFINE w == W[k]
              remaining == MaxSegments - Len(A)
              raw == Ring(t, r, w, remaining)
              g == Closed(raw, w.to)
              F == FoldersOf(t, raw)
  <2>2. IsWork(t, w)
    BY <1>4, <2>1
  <2>3. remaining \in Nat \ {0}
    BY <1>3, <1>5, <1>7
  <2>4. IsRing(t, r, g, w) /\ ArePushed(t, F, g, w) /\ Len(g) <= remaining
    <3>. HIDE DEF w, remaining
    <3>. QED
      BY <2>2, <2>3, RingIsGood
  <2>5. Round(t, r, done, k) = [arcs |-> A \o g, work |-> W \o F]
    BY <1>7 DEF Round, WithRing, PushedBack, A, W
  <2>. HIDE DEF g, F, raw
  <2>. DEFINE rings2 == [i \in 1 .. p + 1 |-> IF i <= p THEN rings[i] ELSE g]
              e2 == [i \in 0 .. p + 1 |-> IF i <= p THEN e[i] ELSE e[p] + Len(g)]
              par2 == [j \in 2 .. Len(W) + Len(F) |-> IF j <= Len(W) THEN par[j] ELSE p + 1]
              B == A \o g
              V == W \o F
  <2>6. GoesOn(rings, rings2, 1, p, g)
    BY <1>3 DEF GoesOn
  <2>7. GoesOn(e, e2, 0, p, e[p] + Len(g))
    BY <1>3 DEF GoesOn
  <2>8. \A j \in 2 .. Len(W) + Len(F) : par2[j] = IF j <= Len(W) THEN par[j] ELSE p + 1
    OBVIOUS
  <2>9. IsRing(t, r, g, W[p + 1]) /\ ArePushed(t, F, g, W[p + 1])
    BY <2>1, <2>4
  <2>. HIDE DEF rings2, e2, par2
  <2>10. start \in Nodes(t)
    BY TreeFacts
  <2>11. /\ IsWorkList(t, start, V, p + 1, rings2, e2, par2)
         /\ Len(V) \in Nat /\ Len(W) <= Len(V)
         /\ \A j \in 1 .. Len(W) : V[j] = W[j]
    BY <1>2, <2>1, <2>6, <2>7, <2>8, <2>9, <2>10, FoldersAdded, SMTT(30)
  <2>. HIDE DEF V
  <2>12. AreArcs(t, r, B, V, p + 1, rings2, e2)
    BY <1>2, <2>1, <2>6, <2>7, <2>9, <2>11, RingAdded
  <2>13. Len(B) <= MaxSegments
    <3>1. g \in Seq(Arcs(Nodes(t))) /\ Len(g) \in Nat
      BY <2>4 DEF IsRing
    <3>2. Len(B) = Len(A) + Len(g)
      BY <1>3, <3>1, ConcatProperties
    <3>. QED
      BY <1>3, <1>5, <2>4, <3>1, <3>2
  <2>. HIDE DEF B
  <2>14. AreLaid(t, r, start, B, V, k, rings2, e2, par2)
    BY <2>1, <2>11, <2>12, <2>13 DEF AreLaid
  <2>15. Round(t, r, done, k).arcs = B /\ Round(t, r, done, k).work = V
    BY <2>5 DEF B, V
  <2>. QED
    BY <2>14, <2>15 DEF IsDone
<1>. QED
  BY <1>6, <1>7

\* What a chart consists of.
LEMMA ArcsAreLaid ==
  ASSUME NEW t \in Trees, TotalsFit(t), NEW r, IsReview(t, r), NEW start \in Directory[t],
         EffectiveSize(t, r, start) # 0
  PROVE  \E W, p, rings, e, par :
           AreLaid(t, r, start, ArcsOf(t, r, start), W, p, rings, e, par) /\ p >= 1
<1>. DEFINE n == Cardinality(Directory[t])
            f == Rounds(t, r, start)
<1>1. n \in Nat /\ n >= 1
  <2>1. IsFiniteSet(Directory[t])
    BY TreeFacts, TreeIsFinite, FS_Subset
  <2>2. n \in Nat
    BY <2>1, FS_CardinalityType
  <2>3. n # 0
    BY <2>1, FS_EmptySet
  <2>. QED
    BY <2>2, <2>3
<1>2. f = [k \in 0 .. n |-> IF k = 0 THEN NothingDone(start) ELSE Round(t, r, f[k - 1], k)]
  BY <1>1, RoundsAre DEF AreRounds
<1>. DEFINE Good == {k \in Nat : k <= n => IsDone(t, r, start, f[k], k)}
<1>. HIDE DEF n, f
<1>3. 0 \in Good
  <2>1. 0 \in 0 .. n
    BY <1>1
  <2>2. f[0] = NothingDone(start)
    BY <1>2, <2>1
  <2>. QED
    BY <2>2, NothingIsDone
<1>4. ASSUME NEW k \in Good PROVE k + 1 \in Good
  <2>. SUFFICES ASSUME k + 1 <= n PROVE IsDone(t, r, start, f[k + 1], k + 1)
    OBVIOUS
  <2>1. k \in Nat /\ k + 1 \in 0 .. n /\ k + 1 # 0 /\ (k + 1) - 1 = k /\ k <= n
    BY <1>1
  <2>2. f[k + 1] = Round(t, r, f[k], k + 1)
    BY <1>2, <2>1
  <2>3. IsDone(t, r, start, f[k], (k + 1) - 1)
    BY <2>1
  <2>4. k + 1 \in Nat \ {0}
    BY <2>1
  <2>. QED
    BY <2>2, <2>3, <2>4, RoundIsDone
<1>5. IsDone(t, r, start, f[n], n)
  <2>1. Good \in SUBSET Nat
    OBVIOUS
  <2>2. n \in Good
    <3>. HIDE DEF Good
    <3>1. Good = Nat
      BY <1>3, <1>4, <2>1, AllNumbers
    <3>. QED
      BY <1>1, <3>1
  <2>. QED
    BY <1>1, <2>2
<1>6. ArcsOf(t, r, start) = f[n].arcs
  BY DEF ArcsOf, f, n
<1>7. PICK p, rings, e, par :
        /\ AreLaid(t, r, start, f[n].arcs, f[n].work, p, rings, e, par)
        /\ n >= 1 => p >= 1
  BY <1>5 DEF IsDone
<1>. QED
  BY <1>1, <1>6, <1>7

\* x is the k-th arc of the i-th ring.
IsAt(x, i, k, A, W, p, rings, e) ==
  /\ i \in 1 .. p /\ i \in 1 .. Len(W) /\ i - 1 \in 0 .. p /\ i \in 0 .. p
  /\ k \in 1 .. Len(rings[i])
  /\ x = e[i - 1] + k
  /\ A[x] = rings[i][k]
  /\ e[i - 1] < x /\ x <= e[i]

\* Every arc is in a ring.
LEMMA Located ==
  ASSUME NEW t, NEW r, NEW A, NEW W, NEW p, NEW rings, NEW e,
         AreArcs(t, r, A, W, p, rings, e), NEW x \in 1 .. Len(A)
  PROVE  \E i, k : IsAt(x, i, k, A, W, p, rings, e)
<1>1. /\ p \in Nat /\ Len(W) \in Nat /\ p <= Len(W)
      /\ \A i \in 0 .. p : e[i] \in Nat
      /\ \A i \in 1 .. p :
           /\ IsRing(t, r, rings[i], W[i])
           /\ e[i] = e[i - 1] + Len(rings[i])
           /\ \A k \in 1 .. Len(rings[i]) : A[e[i - 1] + k] = rings[i][k]
      /\ \A y \in 1 .. Len(A) : \E i \in 1 .. p : \E k \in 1 .. Len(rings[i]) : y = e[i - 1] + k
  BY DEF AreArcs
<1>2. PICK i \in 1 .. p : \E k \in 1 .. Len(rings[i]) : x = e[i - 1] + k
  BY <1>1
<1>3. PICK k \in 1 .. Len(rings[i]) : x = e[i - 1] + k
  BY <1>2
<1>4. i \in 1 .. Len(W) /\ i - 1 \in 0 .. p /\ i \in 0 .. p
  BY <1>1
<1>5. A[x] = rings[i][k] /\ e[i] = e[i - 1] + Len(rings[i])
  BY <1>1, <1>3
<1>. DEFINE low == e[i - 1]
            high == e[i]
            len == Len(rings[i])
<1>6. len \in Nat /\ low \in Nat /\ high \in Nat
  <2>1. IsRing(t, r, rings[i], W[i])
    BY <1>1
  <2>2. low \in Nat
    BY <1>1, <1>4
  <2>3. high \in Nat
    BY <1>1, <1>4
  <2>. QED
    BY <2>1, <2>2, <2>3 DEF IsRing
<1>7. e[i - 1] < x /\ x <= e[i]
  <2>1. k \in 1 .. len /\ x = low + k /\ high = low + len
    BY <1>3, <1>5
  <2>. HIDE DEF low, high, len
  <2>2. low < x /\ x <= high
    BY <1>6, <2>1
  <2>. QED
    BY <2>2 DEF low, high
<1>. QED
  BY <1>3, <1>4, <1>5, <1>7 DEF IsAt

\* The owner of an arc is the folder of its ring.
LEMMA OwnerIs ==
  ASSUME NEW t, NEW r, NEW A, NEW W, NEW p, NEW rings, NEW e,
         AreArcs(t, r, A, W, p, rings, e),
         NEW x, NEW i, NEW k, IsAt(x, i, k, A, W, p, rings, e)
  PROVE  /\ OwnerOf(t, A[x]) = W[i].node
         /\ A[x].depth = W[i].depth
         /\ ~A[x].aggregate => A[x].node \in Nodes(t) \ {Root}
<1>1. i \in 1 .. p /\ k \in 1 .. Len(rings[i]) /\ A[x] = rings[i][k]
  BY DEF IsAt
<1>2. IsRing(t, r, rings[i], W[i])
  BY <1>1 DEF AreArcs
<1>. QED
  BY <1>1, <1>2 DEF IsRing

\* A later arc is in the same ring or in a later one.
LEMMA LaterRing ==
  ASSUME NEW t, NEW r, NEW A, NEW W, NEW p, NEW rings, NEW e,
         AreArcs(t, r, A, W, p, rings, e),
         NEW x, NEW i, NEW k, IsAt(x, i, k, A, W, p, rings, e),
         NEW y, NEW j, NEW l, IsAt(y, j, l, A, W, p, rings, e),
         x < y
  PROVE  i < j \/ (i = j /\ k < l)
<1>1. /\ p \in Nat
      /\ \A h \in 0 .. p : e[h] \in Nat
      /\ \A g, h \in 0 .. p : g <= h => e[g] <= e[h]
  BY DEF AreArcs
<1>2. /\ i \in 1 .. p /\ j \in 1 .. p /\ i - 1 \in 0 .. p /\ i \in 0 .. p
      /\ j - 1 \in 0 .. p /\ j \in 0 .. p
      /\ x = e[i - 1] + k /\ y = e[j - 1] + l
      /\ e[i - 1] < x /\ x <= e[i]
      /\ e[j - 1] < y /\ y <= e[j]
      /\ k \in 1 .. Len(rings[i]) /\ l \in 1 .. Len(rings[j])
  BY DEF IsAt
<1>. DEFINE e1 == e[i - 1]
            e2 == e[j]
            e3 == e[j - 1]
<1>3. e1 \in Int /\ e2 \in Int /\ e3 \in Int /\ i \in Int /\ j \in Int /\ k \in Int /\ l \in Int
  <2>1. e1 \in Nat
    BY <1>1, <1>2
  <2>2. e2 \in Nat
    BY <1>1, <1>2
  <2>3. e3 \in Nat
    BY <1>1, <1>2
  <2>. QED
    BY <1>2, <2>1, <2>2, <2>3, SMTT(30)
<1>4. j < i => e2 <= e1
  <2>1. j < i => j <= i - 1
    BY <1>3
  <2>. QED
    BY <1>1, <1>2, <2>1
<1>5. i = j => e1 = e3
  OBVIOUS
<1>6. x = e1 + k /\ y = e3 + l /\ e1 < x /\ y <= e2
  BY <1>2
<1>. HIDE DEF e1, e2, e3
<1>. QED
  BY <1>3, <1>4, <1>5, <1>6

\* Where arcs of two rings of a depth overlap, it is by what rounding lost.
LEMMA OverlapIsLost ==
  ASSUME NEW t, NEW r, NEW start, NEW A, NEW W, NEW p, NEW rings, NEW e, NEW par,
         AreLaid(t, r, start, A, W, p, rings, e, par),
         NEW x \in 1 .. Len(A), NEW y \in 1 .. Len(A), x < y, A[x].depth = A[y].depth
  PROVE  /\ A[x].to \in Int /\ A[y].from \in Int
         /\ 2 * (A[x].to - A[y].from) <= Len(A)
<1>1. AreArcs(t, r, A, W, p, rings, e) /\ IsWorkList(t, start, W, p, rings, e, par)
  BY DEF AreLaid
<1>2. PICK i, k : IsAt(x, i, k, A, W, p, rings, e)
  BY <1>1, Located
<1>3. PICK j, l : IsAt(y, j, l, A, W, p, rings, e)
  BY <1>1, Located
<1>4. /\ i \in 1 .. p /\ i \in 1 .. Len(W) /\ k \in 1 .. Len(rings[i]) /\ A[x] = rings[i][k]
      /\ j \in 1 .. p /\ j \in 1 .. Len(W) /\ l \in 1 .. Len(rings[j]) /\ A[y] = rings[j][l]
      /\ i \in 0 .. p /\ i - 1 \in 0 .. p
  BY <1>2, <1>3 DEF IsAt
<1>5. IsRing(t, r, rings[i], W[i]) /\ IsRing(t, r, rings[j], W[j])
  BY <1>1, <1>4 DEF AreArcs
<1>6. /\ A[x].to \in Int /\ A[y].from \in Int /\ A[x].from \in Int
      /\ 2 * (A[x].to - W[i].to) <= Len(rings[i])
      /\ W[j].from <= A[y].from
      /\ Len(rings[i]) \in Nat
  <2>1. /\ A[x].to \in Int /\ A[x].from \in Int
        /\ 2 * (A[x].to - W[i].to) <= Len(rings[i])
        /\ Len(rings[i]) \in Nat
    BY <1>4, <1>5, SMTT(30) DEF IsRing
  <2>2. A[y].from \in Int /\ W[j].from <= A[y].from
    BY <1>4, <1>5 DEF IsRing
  <2>. QED
    BY <2>1, <2>2
<1>7. Len(A) \in Nat
  <2>1. A \in Seq(Arcs(Nodes(t)))
    BY <1>1 DEF AreArcs
  <2>. QED
    BY <2>1, LenProperties
<1>11. /\ p \in Nat
       /\ \A h \in 0 .. p : e[h] \in Nat
       /\ e[p] = Len(A)
       /\ \A g, h \in 0 .. p : g <= h => e[g] <= e[h]
       /\ \A h \in 1 .. p : e[h] = e[h - 1] + Len(rings[h])
  BY <1>1 DEF AreArcs
<1>8. CASE i = j /\ k < l
  <2>1. A[x].to <= A[y].from
    <3>1. k \in 1 .. Len(rings[i]) /\ l \in 1 .. Len(rings[i]) /\ k < l
      BY <1>4, <1>8
    <3>2. rings[i][k].to <= rings[i][l].from
      BY <1>5, <3>1 DEF IsRing
    <3>. QED
      BY <1>4, <1>8, <3>2
  <2>. QED
    <3>. DEFINE a == A[x].to
                d == A[y].from
                all == Len(A)
    <3>1. a \in Int /\ d \in Int /\ all \in Nat /\ a <= d
      BY <1>6, <1>7, <2>1
    <3>. HIDE DEF a, d, all
    <3>2. 2 * (a - d) <= all
      BY <3>1
    <3>. QED
      BY <1>6, <3>2 DEF a, d, all
<1>9. CASE i < j
  <2>1. W[i].depth = W[j].depth
    BY <1>1, <1>2, <1>3, OwnerIs
  <2>2. /\ Len(W) \in Nat /\ W[1] = FirstWork(start)
        /\ \A h \in 2 .. Len(W) : /\ par[h] \in 1 .. p /\ par[h] < h
                                  /\ ComesFrom(t, W[h], rings[par[h]], W[par[h]])
        /\ \A h \in 1 .. Len(W) : IsWork(t, W[h])
        /\ p <= Len(W)
    BY <1>1 DEF IsWorkList
  <2>3. j \in 2 .. Len(W)
    BY <1>4, <1>9, <2>2
  <2>20. \A h \in 1 .. Len(W) : IsWork(t, W[h])
    BY <2>2
  <2>30. par[j] \in 1 .. Len(W)
    <3>1. par[j] \in 1 .. p
      BY <2>2, <2>3
    <3>. DEFINE q == par[j]
                L == Len(W)
    <3>2. q \in 1 .. p /\ p \in Nat /\ L \in Nat /\ p <= L
      BY <1>11, <2>2, <3>1
    <3>. HIDE DEF q, L
    <3>3. q \in 1 .. L
      BY <3>2
    <3>. QED
      BY <3>3 DEF q, L
  <2>4. i # 1
    <3>. SUFFICES ASSUME i = 1 PROVE FALSE
      OBVIOUS
    <3>1. W[i].depth = 0
      BY <2>2 DEF FirstWork
    <3>2. W[j].depth = W[par[j]].depth + 1 /\ par[j] \in 1 .. Len(W)
      BY <2>2, <2>3, <2>30 DEF ComesFrom
    <3>. DEFINE before == W[par[j]].depth
    <3>3. before \in Nat
      <4>1. IsWork(t, W[par[j]])
        BY <2>20, <2>30
      <4>. QED
        BY <4>1 DEF IsWork
    <3>4. before + 1 = 0
      BY <2>1, <3>1, <3>2
    <3>. HIDE DEF before
    <3>. QED
      BY <3>3, <3>4
  <2>5. i \in 2 .. Len(W)
    BY <1>4, <2>2, <2>4
  <2>6. 2 * (W[i].to - W[j].from) <= e[par[i]]
    BY <1>1, <1>9, <2>1, <2>3, <2>5 DEF IsWorkList
  <2>7. par[i] \in 1 .. p /\ par[i] < i
    BY <2>2, <2>5
  <2>8. par[i] \in 0 .. p /\ par[i] <= i - 1 /\ i <= p /\ p \in 0 .. p
    <3>. DEFINE q == par[i]
    <3>1. q \in 1 .. p /\ q < i /\ i \in 1 .. p /\ p \in Nat
      BY <1>4, <1>11, <2>7
    <3>. HIDE DEF q
    <3>2. q \in 0 .. p /\ q <= i - 1 /\ i <= p /\ p \in 0 .. p
      BY <3>1
    <3>. QED
      BY <3>2 DEF q
  <2>9. e[par[i]] <= e[i - 1] /\ e[i] = e[i - 1] + Len(rings[i]) /\ e[i] <= e[p]
    <3>1. e[par[i]] <= e[i - 1]
      BY <1>4, <1>11, <2>8
    <3>2. e[i] = e[i - 1] + Len(rings[i])
      BY <1>4, <1>11
    <3>3. e[i] <= e[p]
      BY <1>4, <1>11, <2>8
    <3>. QED
      BY <3>1, <3>2, <3>3
  <2>10. W[i].to \in Int /\ W[j].from \in Int
    <3>1. IsWork(t, W[i]) /\ IsWork(t, W[j])
      BY <1>4, <2>20
    <3>. QED
      BY <3>1 DEF IsWork
  <2>. DEFINE a == A[x].to
              b == W[i].to
              c == W[j].from
              d == A[y].from
              n == Len(rings[i])
              e1 == e[par[i]]
              e2 == e[i - 1]
              e3 == e[i]
              all == Len(A)
  <2>11. /\ a \in Int /\ b \in Int /\ c \in Int /\ d \in Int /\ n \in Int
         /\ e1 \in Int /\ e2 \in Int /\ e3 \in Int /\ all \in Int
    <3>1. e[par[i]] \in Nat
      BY <1>11, <2>8
    <3>2. e[i - 1] \in Nat
      BY <1>4, <1>11
    <3>3. e[i] \in Nat
      BY <1>4, <1>11
    <3>. QED
      BY <1>6, <1>7, <2>10, <3>1, <3>2, <3>3, SMTT(30)
  <2>12. /\ 2 * (a - b) <= n /\ 2 * (b - c) <= e1 /\ e1 <= e2
         /\ e3 = e2 + n /\ e3 <= all /\ c <= d
    BY <1>6, <1>11, <2>6, <2>9
  <2>. HIDE DEF a, b, c, d, n, e1, e2, e3, all
  <2>13. 2 * (a - d) <= all
    BY <2>11, <2>12
  <2>. QED
    BY <1>6, <2>13 DEF a, d, all
<1>10. i < j \/ (i = j /\ k < l)
  BY <1>1, <1>2, <1>3, LaterRing
<1>. QED
  BY <1>6, <1>8, <1>9, <1>10

\* Rings are laid depth by depth.
LEMMA DepthsGrow ==
  ASSUME NEW t, NEW r, NEW start, NEW A, NEW W, NEW p, NEW rings, NEW e, NEW par,
         AreLaid(t, r, start, A, W, p, rings, e, par),
         NEW x \in 1 .. Len(A), NEW y \in 1 .. Len(A), x <= y
  PROVE  A[x].depth \in Nat /\ A[y].depth \in Nat /\ A[x].depth <= A[y].depth
<1>1. AreArcs(t, r, A, W, p, rings, e) /\ IsWorkList(t, start, W, p, rings, e, par)
  BY DEF AreLaid
<1>2. PICK i, k : IsAt(x, i, k, A, W, p, rings, e)
  BY <1>1, Located
<1>3. PICK j, l : IsAt(y, j, l, A, W, p, rings, e)
  BY <1>1, Located
<1>4. A[x].depth = W[i].depth /\ A[y].depth = W[j].depth
  BY <1>1, <1>2, <1>3, OwnerIs
<1>5. i \in 1 .. Len(W) /\ j \in 1 .. Len(W) /\ Len(W) \in Nat
  BY <1>1, <1>2, <1>3 DEF IsAt, AreArcs
<1>6. W[i].depth \in Nat /\ W[j].depth \in Nat
  BY <1>1, <1>5 DEF IsWorkList, IsWork
<1>7. CASE x = y
  BY <1>4, <1>6, <1>7
<1>8. CASE x # y
  <2>1. x < y
    BY <1>8
  <2>2. i <= j
    <3>1. i < j \/ (i = j /\ k < l)
      BY <1>1, <1>2, <1>3, <2>1, LaterRing
    <3>2. i \in Int /\ j \in Int
      BY <1>5
    <3>. QED
      BY <3>1, <3>2
  <2>3. W[i].depth <= W[j].depth
    BY <1>1, <1>5, <2>2 DEF IsWorkList
  <2>. QED
    BY <1>4, <1>6, <2>3
<1>. QED
  BY <1>7, <1>8

\* The arcs of A that show the children of n.
RingIn(t, A, n) == MembersAt(A, {y \in DOMAIN A : OwnerOf(t, A[y]) = n})

\* The ring that is found for a folder of the work list is the one that was laid.
LEMMA RingIsFound ==
  ASSUME NEW t, NEW r, NEW start, NEW A, NEW W, NEW p, NEW rings, NEW e, NEW par,
         AreLaid(t, r, start, A, W, p, rings, e, par), NEW i \in 1 .. p
  PROVE  RingIn(t, A, W[i].node) = rings[i]
<1>1. AreArcs(t, r, A, W, p, rings, e) /\ IsWorkList(t, start, W, p, rings, e, par)
  BY DEF AreLaid
<1>. DEFINE a == e[i - 1]
            g == rings[i]
            n == Len(g)
            I == {y \in DOMAIN A : OwnerOf(t, A[y]) = W[i].node}
<1>2. p \in Nat /\ i \in Nat /\ i - 1 \in 0 .. p /\ i \in 0 .. p /\ p \in 0 .. p
  BY <1>1 DEF AreArcs
<1>3. a \in Nat /\ IsRing(t, r, g, W[i]) /\ e[i] = a + n
  <2>1. a \in Nat
    BY <1>1, <1>2 DEF AreArcs
  <2>. QED
    BY <1>1, <2>1 DEF AreArcs
<1>4. n \in Nat /\ DOMAIN g = 1 .. n
  BY <1>3 DEF IsRing
<1>5. \A k \in 1 .. n : A[a + k] = g[k]
  BY <1>1 DEF AreArcs
<1>6. DOMAIN A = 1 .. Len(A) /\ Len(A) \in Nat
  <2>1. A \in Seq(Arcs(Nodes(t)))
    BY <1>1 DEF AreArcs
  <2>. QED
    BY <2>1, LenProperties
<1>7. a + n <= Len(A)
  <2>1. e[i] <= e[p] /\ e[p] = Len(A)
    BY <1>1, <1>2 DEF AreArcs
  <2>. QED
    BY <1>3, <2>1
<1>8. ASSUME NEW y \in a + 1 .. a + n PROVE y \in I
  <2>. DEFINE k == y - a
  <2>1. k \in 1 .. n /\ y = a + k /\ y \in 1 .. Len(A)
    <3>. HIDE DEF a, n
    <3>. QED
      BY <1>3, <1>4, <1>6, <1>7
  <2>2. A[y] = g[k]
    BY <1>5, <2>1
  <2>3. OwnerOf(t, g[k]) = W[i].node
    BY <1>3, <2>1 DEF IsRing
  <2>. QED
    BY <1>6, <2>1, <2>2, <2>3
<1>9. ASSUME NEW y \in I PROVE y \in a + 1 .. a + n
  <2>1. y \in 1 .. Len(A) /\ OwnerOf(t, A[y]) = W[i].node
    BY <1>6
  <2>2. PICK j, k : IsAt(y, j, k, A, W, p, rings, e)
    BY <1>1, <2>1, Located
  <2>3. W[j].node = W[i].node
    BY <1>1, <2>1, <2>2, OwnerIs
  <2>4. j \in 1 .. Len(W) /\ i \in 1 .. Len(W)
    <3>1. j \in 1 .. Len(W)
      BY <2>2 DEF IsAt
    <3>2. Len(W) \in Nat /\ p <= Len(W)
      BY <1>1 DEF AreArcs
    <3>. QED
      BY <1>2, <3>1, <3>2
  <2>5. j = i
    BY <1>1, <2>3, <2>4 DEF IsWorkList
  <2>6. k \in 1 .. n /\ y = a + k
    BY <2>2, <2>5 DEF IsAt
  <2>. HIDE DEF a, n
  <2>. QED
    BY <1>3, <1>4, <2>6
<1>10. I = a + 1 .. a + n
  BY <1>8, <1>9
<1>11. /\ Cardinality(a + 1 .. a + n) = n
       /\ Ascending(a + 1 .. a + n) = [k \in 1 .. n |-> a + k]
  <2>. HIDE DEF a, n
  <2>. DEFINE b == a + 1
              c == a + n
  <2>1. b \in Int /\ c \in Int /\ b <= c + 1 /\ c - b + 1 = n
        /\ \A k \in 1 .. n : b + k - 1 = a + k
    BY <1>3, <1>4
  <2>. HIDE DEF b, c
  <2>2. /\ Cardinality(b .. c) = c - b + 1
        /\ Ascending(b .. c) = [k \in 1 .. c - b + 1 |-> b + k - 1]
    BY <2>1, AscendingInterval
  <2>3. [k \in 1 .. c - b + 1 |-> b + k - 1] = [k \in 1 .. n |-> a + k]
    BY <2>1
  <2>. QED
    BY <2>1, <2>2, <2>3 DEF b, c
<1>12. MembersAt(A, a + 1 .. a + n) = [k \in 1 .. n |-> A[a + k]]
  <2>. HIDE DEF a, n
  <2>. QED
    BY <1>11 DEF MembersAt
<1>13. [k \in 1 .. n |-> A[a + k]] = [k \in 1 .. n |-> g[k]]
  BY <1>5
<1>14. g = [k \in 1 .. n |-> g[k]]
  <2>1. g \in Seq(Arcs(Nodes(t)))
    BY <1>3 DEF IsRing
  <2>2. g = [k \in DOMAIN g |-> g[k]]
    BY <2>1
  <2>. QED
    BY <1>4, <2>2
<1>. QED
  BY <1>10, <1>12, <1>13, <1>14 DEF RingIn

\* Only the folders whose round came have arcs for what they hold.
LEMMA OnlyLaidHaveRings ==
  ASSUME NEW t, NEW r, NEW start, NEW A, NEW W, NEW p, NEW rings, NEW e, NEW par,
         AreLaid(t, r, start, A, W, p, rings, e, par),
         NEW n, RingIn(t, A, n) # <<>>
  PROVE  \E i \in 1 .. p : n = W[i].node
<1>1. AreArcs(t, r, A, W, p, rings, e)
  BY DEF AreLaid
<1>. DEFINE I == {y \in DOMAIN A : OwnerOf(t, A[y]) = n}
<1>2. I # {}
  <2>. SUFFICES ASSUME I = {} PROVE FALSE
    OBVIOUS
  <2>1. MembersAt(A, {}) = [k \in 1 .. 0 |-> A[Ascending({})[k]]]
    BY FS_EmptySet DEF MembersAt
  <2>2. MembersAt(A, {}) = <<>>
    BY <2>1
  <2>. QED
    BY <2>2 DEF RingIn
<1>3. PICK y \in DOMAIN A : OwnerOf(t, A[y]) = n
  BY <1>2
<1>4. y \in 1 .. Len(A)
  <2>1. A \in Seq(Arcs(Nodes(t)))
    BY <1>1 DEF AreArcs
  <2>. QED
    BY <2>1
<1>5. PICK i, k : IsAt(y, i, k, A, W, p, rings, e)
  BY <1>1, <1>4, Located
<1>6. n = W[i].node
  BY <1>1, <1>3, <1>5, OwnerIs
<1>. QED
  BY <1>5, <1>6 DEF IsAt

\* An arc that has a ring of its own is the one that put its folder on the work list.
LEMMA ArcOfFolder ==
  ASSUME NEW t \in Trees, NEW r, NEW start, NEW A, NEW W, NEW p, NEW rings, NEW e, NEW par,
         AreLaid(t, r, start, A, W, p, rings, e, par),
         NEW x \in 1 .. Len(A), ~A[x].aggregate, NEW j \in 1 .. p, A[x].node = W[j].node
  PROVE  \E i \in 1 .. p :
           /\ Parent[t][A[x].node] = W[i].node
           /\ IsArcOf(W[j], A[x], Len(rings[i]))
<1>1. AreArcs(t, r, A, W, p, rings, e) /\ IsWorkList(t, start, W, p, rings, e, par)
  BY DEF AreLaid
<1>2. PICK i, k : IsAt(x, i, k, A, W, p, rings, e)
  BY <1>1, Located
<1>3. i \in 1 .. p /\ i \in 1 .. Len(W) /\ k \in 1 .. Len(rings[i]) /\ A[x] = rings[i][k]
  BY <1>2 DEF IsAt
<1>4. Parent[t][A[x].node] = W[i].node /\ A[x].node \in Nodes(t) \ {Root}
  BY <1>1, <1>2, OwnerIs DEF OwnerOf
<1>5. p \in Nat /\ Len(W) \in Nat /\ p <= Len(W) /\ W[1].node = start
  BY <1>1 DEF IsWorkList, FirstWork
<1>6. W[i].node < W[j].node /\ W[i].node \in Nat /\ W[j].node \in Nat
  BY <1>4, TreeFacts
<1>7. j # 1
  <2>. SUFFICES ASSUME j = 1 PROVE FALSE
    OBVIOUS
  <2>1. start <= W[i].node
    BY <1>1, <1>3 DEF IsWorkList
  <2>2. W[j].node = start
    BY <1>5
  <2>. QED
    BY <1>6, <2>1, <2>2
<1>8. j \in 2 .. Len(W)
  BY <1>5, <1>7
<1>9. par[j] \in 1 .. p /\ ComesFrom(t, W[j], rings[par[j]], W[par[j]])
  BY <1>1, <1>8 DEF IsWorkList
<1>10. par[j] = i
  <2>1. W[par[j]].node = W[i].node
    BY <1>4, <1>9 DEF ComesFrom
  <2>. DEFINE q == par[j]
              L == Len(W)
  <2>2. q \in 1 .. L
    <3>1. q \in 1 .. p /\ L \in Nat /\ p <= L /\ p \in Nat
      BY <1>5, <1>9
    <3>. HIDE DEF q, L
    <3>. QED
      BY <3>1
  <2>. QED
    BY <1>1, <1>3, <2>1, <2>2 DEF IsWorkList
<1>11. PICK l \in 1 .. Len(rings[i]) : IsArcOf(W[j], rings[i][l], Len(rings[i]))
  BY <1>9, <1>10 DEF ComesFrom
<1>12. l = k
  <2>1. ~rings[i][l].aggregate /\ rings[i][l].node = rings[i][k].node
    BY <1>3, <1>11 DEF IsArcOf
  <2>2. IsRing(t, r, rings[i], W[i])
    BY <1>1, <1>3 DEF AreArcs
  <2>3. ~rings[i][k].aggregate
    BY <1>3
  <2>. QED
    BY <1>3, <2>1, <2>2, <2>3 DEF IsRing
<1>. QED
  BY <1>3, <1>4, <1>11, <1>12

\* An angle that is off by no more than half of n is off by no more than Lost(n).
LEMMA HalfIsLost ==
  ASSUME NEW n \in Nat, NEW d \in Int, 2 * d <= n
  PROVE  d <= Lost(n) /\ Lost(n) \in Nat
BY DEF Lost

\* The chart has the rings of its folder's work list.
ChartIs(W, p, rings, e, par) ==
  /\ p >= 1
  /\ AreLaid(scan, review, root, arcs, W, p, rings, e, par)

\* The rings on display are those that were laid.
LEMMA RingOfIs == ASSUME NEW n PROVE RingOf(n) = RingIn(scan, arcs, n)
<1>1. {k \in DOMAIN arcs : IF arcs[k].aggregate THEN arcs[k].node = n
                           ELSE Parent[scan][arcs[k].node] = n}
        = {y \in DOMAIN arcs : OwnerOf(scan, arcs[y]) = n}
  BY DEF OwnerOf
<1>. QED
  BY <1>1 DEF RingOf, RingIn

\* A folder whose ring was laid over about its own arc is tiled.
LEMMA LaidIsTiled ==
  ASSUME NEW W, NEW p, NEW rings, NEW e, NEW par, ChartIs(W, p, rings, e, par),
         NEW j \in 1 .. p,
         NEW f, f.node = W[j].node, f.from = W[j].from, f.to \in Int,
         NEW n \in Nat, f.lost = Lost(n),
         2 * (W[j].to - f.to) <= n, 2 * (f.to - W[j].to) <= n
  PROVE  IsTiled(f)
<1>. DEFINE g == rings[j]
            size == [k \in DOMAIN g |-> g[k].bytes]
<1>1. RingOf(f.node) = g
  BY RingOfIs, RingIsFound DEF ChartIs
<1>2. IsRing(scan, review, g, W[j])
  BY DEF ChartIs, AreLaid, AreArcs
<1>3. SUFFICES ASSUME g # <<>>
      PROVE  /\ SumFunction(size) = EffectiveSize(scan, review, f.node)
             /\ Head(g).from = f.from
             /\ Last(g).to \in f.to - f.lost .. f.to + f.lost
             /\ \A k \in 2 .. Len(g) : g[k].from = g[k - 1].to
  BY <1>1 DEF IsTiled
<1>4. Len(g) > 0
  <2>1. g \in Seq(Arcs(Nodes(scan)))
    BY <1>2 DEF IsRing
  <2>. QED
    BY <1>3, <2>1
<1>5. SumFunction(size) = EffectiveSize(scan, review, f.node)
  <2>1. SumFunction(size) = SumFunctionOnSet(size, DOMAIN g)
    BY DEF SumFunction
  <2>. QED
    BY <1>2, <1>4, <2>1 DEF IsRing
<1>6. Head(g).from = f.from
  <2>1. Head(g) = g[1]
    BY <1>4, <1>2 DEF IsRing
  <2>. QED
    BY <1>2, <1>4, <2>1 DEF IsRing
<1>7. Last(g).to \in f.to - f.lost .. f.to + f.lost
  <2>. DEFINE a == W[j].to
              b == f.to
  <2>1. Last(g).to = a
    BY <1>2, <1>4 DEF IsRing, Last
  <2>2. a \in Int /\ b \in Int
    <3>1. IsWork(scan, W[j])
      <4>1. j \in 1 .. Len(W)
        BY DEF ChartIs, AreLaid, IsWorkList
      <4>. QED
        BY <4>1 DEF ChartIs, AreLaid, IsWorkList
    <3>. QED
      BY <3>1 DEF IsWork
  <2>3. 2 * (a - b) <= n /\ 2 * (b - a) <= n
    OBVIOUS
  <2>. HIDE DEF a, b
  <2>4. a - b <= Lost(n) /\ b - a <= Lost(n) /\ Lost(n) \in Nat
    BY <2>2, <2>3, HalfIsLost
  <2>5. a \in b - Lost(n) .. b + Lost(n)
    BY <2>2, <2>4
  <2>. QED
    BY <2>1, <2>5 DEF b
<1>8. \A k \in 2 .. Len(g) : g[k].from = g[k - 1].to
  BY <1>2 DEF IsRing
<1>. QED
  BY <1>5, <1>6, <1>7, <1>8

\* Every folder that may have a ring is tiled by it.
LEMMA ChartIsTiled ==
  ASSUME scan \in Trees, NEW W, NEW p, NEW rings, NEW e, NEW par,
         ChartIs(W, p, rings, e, par), NEW f \in Charted
  PROVE  IsTiled(f)
<1>1. AreLaid(scan, review, root, arcs, W, p, rings, e, par)
  BY DEF ChartIs
<1>2. AreArcs(scan, review, arcs, W, p, rings, e)
      /\ IsWorkList(scan, root, W, p, rings, e, par)
  BY <1>1 DEF AreLaid
<1>3. p \in Nat /\ p >= 1 /\ p <= Len(W) /\ Len(W) \in Nat /\ W[1] = FirstWork(root)
  BY <1>2 DEF IsWorkList, ChartIs
<1>4. CASE f = [node |-> root, from |-> 0, to |-> Circle, lost |-> 0]
  <2>1. 1 \in 1 .. p
    BY <1>3
  <2>2. f.node = root /\ f.from = 0 /\ f.to = Circle /\ f.lost = 0
    BY <1>4
  <2>3. W[1].node = root /\ W[1].from = 0 /\ W[1].to = Circle
    BY <1>3 DEF FirstWork
  <2>. DEFINE w == W[1].to
  <2>4. w \in Int
    <3>1. 1 \in 1 .. Len(W)
      BY <1>3
    <3>2. IsWork(scan, W[1])
      BY <1>2, <3>1 DEF IsWorkList
    <3>. QED
      BY <3>2 DEF IsWork
  <2>5. 2 * (w - f.to) <= 0 /\ 2 * (f.to - w) <= 0 /\ f.to \in Int
    <3>1. f.to = w
      BY <2>2, <2>3
    <3>. HIDE DEF w
    <3>2. 2 * (w - w) <= 0
      BY <2>4
    <3>. QED
      BY <2>4, <3>1, <3>2
  <2>6. f.lost = Lost(0)
    BY <2>2 DEF Lost
  <2>. QED
    BY <2>1, <2>2, <2>3, <2>5, <2>6, LaidIsTiled
<1>5. CASE f # [node |-> root, from |-> 0, to |-> Circle, lost |-> 0]
  <2>1. PICK x \in DOMAIN arcs :
          /\ ~arcs[x].aggregate
          /\ f = [node |-> arcs[x].node, from |-> arcs[x].from, to |-> arcs[x].to,
                  lost |-> Lost(Len(RingOf(Parent[scan][arcs[x].node])))]
    BY <1>5 DEF Charted
  <2>2. /\ f.node = arcs[x].node /\ f.from = arcs[x].from /\ f.to = arcs[x].to
        /\ f.lost = Lost(Len(RingOf(Parent[scan][arcs[x].node])))
    BY <2>1
  <2>3. x \in 1 .. Len(arcs)
    <3>1. arcs \in Seq(Arcs(Nodes(scan)))
      BY <1>2 DEF AreArcs
    <3>. QED
      BY <3>1
  <2>4. CASE RingIn(scan, arcs, f.node) = <<>>
    BY <2>4, RingOfIs DEF IsTiled
  <2>5. CASE RingIn(scan, arcs, f.node) # <<>>
    <3>1. PICK j \in 1 .. p : f.node = W[j].node
      BY <1>1, <2>5, OnlyLaidHaveRings
    <3>2. PICK i \in 1 .. p :
            /\ Parent[scan][arcs[x].node] = W[i].node
            /\ IsArcOf(W[j], arcs[x], Len(rings[i]))
      <4>1. ~arcs[x].aggregate
        BY <2>1
      <4>2. arcs[x].node = W[j].node
        BY <2>2, <3>1
      <4>. QED
        BY <1>1, <2>3, <3>1, <4>1, <4>2, ArcOfFolder, ZenonT(30)
    <3>. DEFINE n == Len(rings[i])
    <3>3. n \in Nat
      <4>1. IsRing(scan, review, rings[i], W[i])
        BY <1>2 DEF AreArcs
      <4>. QED
        BY <4>1 DEF IsRing
    <3>4. f.lost = Lost(n)
      <4>1. RingOf(W[i].node) = rings[i]
        BY <1>1, RingOfIs, RingIsFound
      <4>. QED
        BY <2>2, <3>2, <4>1
    <3>5. /\ f.from = W[j].from
          /\ 2 * (W[j].to - f.to) <= n
          /\ 2 * (f.to - W[j].to) <= n
      BY <2>2, <3>2 DEF IsArcOf
    <3>6. f.to \in Int
      <4>1. PICK h, k : IsAt(x, h, k, arcs, W, p, rings, e)
        BY <1>2, <2>3, Located
      <4>2. h \in 1 .. p /\ k \in 1 .. Len(rings[h]) /\ arcs[x] = rings[h][k]
        BY <4>1 DEF IsAt
      <4>3. IsRing(scan, review, rings[h], W[h])
        BY <1>2, <4>2 DEF AreArcs
      <4>. QED
        BY <2>2, <4>2, <4>3 DEF IsRing
    <3>. HIDE DEF n
    <3>. QED
      BY <3>1, <3>3, <3>4, <3>5, <3>6, LaidIsTiled
  <2>. QED
    BY <2>4, <2>5
<1>. QED
  BY <1>4, <1>5

\* A point of an arc is found, if not as another arc of its depth that overlaps it.
LEMMA ArcIsFound ==
  ASSUME NEW W, NEW p, NEW rings, NEW e, NEW par,
         ChartIs(W, p, rings, e, par), NEW k \in DOMAIN arcs
  PROVE  IsFound(k)
<1>1. AreLaid(scan, review, root, arcs, W, p, rings, e, par)
  BY DEF ChartIs
<1>2. DOMAIN arcs = 1 .. Len(arcs) /\ Len(arcs) \in Nat
  <2>1. arcs \in Seq(Arcs(Nodes(scan)))
    BY <1>1 DEF AreLaid, AreArcs
  <2>. QED
    BY <2>1
<1>. DEFINE ofDepth == {y \in DOMAIN arcs : arcs[y].depth = arcs[k].depth}
            m == Max(ofDepth)
<1>3. m \in ofDepth /\ \A y \in ofDepth : y <= m
  <2>1. ofDepth \in SUBSET (0 .. Len(arcs)) /\ k \in ofDepth
    BY <1>2
  <2>2. \E z \in ofDepth : \A y \in ofDepth : y <= z
    <3>. HIDE DEF ofDepth
    <3>. QED
      BY <1>2, <2>1, GreatestMember
  <2>3. \E z \in ofDepth : \A y \in ofDepth : z >= y
    BY <1>2, <2>2
  <2>4. m \in ofDepth /\ \A y \in ofDepth : m >= y
    <3>. HIDE DEF ofDepth
    <3>. QED
      BY <2>3, Zenon DEF Max
  <2>. QED
    BY <1>2, <2>4
<1>4. DepthRange(arcs, arcs[k].depth) = ofDepth
  <2>1. ASSUME NEW y \in ofDepth, NEW z \in y .. m PROVE z \in ofDepth
    <3>1. y \in 1 .. Len(arcs) /\ z \in 1 .. Len(arcs) /\ m \in 1 .. Len(arcs) /\ y <= z /\ z <= m
      BY <1>2, <1>3, <2>1
    <3>2. arcs[y].depth \in Nat /\ arcs[z].depth \in Nat /\ arcs[y].depth <= arcs[z].depth
      BY <1>1, <3>1, DepthsGrow
    <3>3. arcs[m].depth \in Nat /\ arcs[z].depth <= arcs[m].depth
      BY <1>1, <3>1, DepthsGrow
    <3>4. arcs[m].depth = arcs[k].depth /\ arcs[y].depth = arcs[k].depth
      BY <1>3
    <3>5. arcs[z].depth = arcs[k].depth
      BY <3>2, <3>3, <3>4
    <3>. QED
      BY <1>2, <3>1, <3>5
  <2>2. \A y \in ofDepth : y .. m \subseteq ofDepth
    BY <2>1
  <2>3. DepthRange(arcs, arcs[k].depth) = {y \in ofDepth : y .. m \subseteq ofDepth}
    BY DEF DepthRange
  <2>. QED
    BY <2>2, <2>3
<1>5. SUFFICES ASSUME NEW angle \in arcs[k].from .. arcs[k].to - 1
      PROVE  LET hit == HitAt(arcs, arcs[k].depth, angle)
             IN  hit = k \/ (hit \in 1 .. k - 1 /\ arcs[hit].to - arcs[k].from <= Lost(Len(arcs)))
  BY DEF IsFound
<1>. DEFINE hits == {y \in ofDepth : arcs[y].from <= angle /\ angle < arcs[y].to}
            hit == HitAt(arcs, arcs[k].depth, angle)
<1>6. arcs[k].from \in Int /\ arcs[k].to \in Int
  <2>1. PICK i, l : IsAt(k, i, l, arcs, W, p, rings, e)
    BY <1>1, <1>2, Located DEF AreLaid
  <2>2. i \in 1 .. p /\ l \in 1 .. Len(rings[i]) /\ arcs[k] = rings[i][l]
    BY <2>1 DEF IsAt
  <2>3. IsRing(scan, review, rings[i], W[i])
    BY <1>1, <2>2 DEF AreLaid, AreArcs
  <2>. QED
    BY <2>2, <2>3 DEF IsRing
<1>7. k \in hits
  <2>1. arcs[k].from <= angle /\ angle < arcs[k].to
    BY <1>6
  <2>. QED
    BY <1>2, <2>1
<1>8. hit \in hits /\ \A y \in hits : hit <= y
  <2>1. hit = Min(hits)
    BY <1>4, <1>7 DEF HitAt
  <2>2. hits \in SUBSET Nat
    BY <1>2
  <2>. HIDE DEF hits, hit
  <2>3. \E z \in hits : \A y \in hits : z <= y
    BY <1>7, <2>2, LeastMember
  <2>4. Min(hits) \in hits /\ \A y \in hits : Min(hits) <= y
    BY <2>3, Zenon DEF Min
  <2>. QED
    BY <2>1, <2>4
<1>9. CASE hit # k
  <2>1. hit \in 1 .. Len(arcs) /\ k \in 1 .. Len(arcs) /\ hit < k
    BY <1>2, <1>7, <1>8, <1>9
  <2>2. arcs[hit].depth = arcs[k].depth
    BY <1>8
  <2>3. /\ arcs[hit].to \in Int /\ arcs[k].from \in Int
        /\ 2 * (arcs[hit].to - arcs[k].from) <= Len(arcs)
    BY <1>1, <2>1, <2>2, OverlapIsLost
  <2>4. arcs[hit].to - arcs[k].from <= Lost(Len(arcs))
    <3>. DEFINE d == arcs[hit].to - arcs[k].from
    <3>1. d \in Int /\ 2 * d <= Len(arcs)
      BY <2>3
    <3>. HIDE DEF d
    <3>2. d <= Lost(Len(arcs))
      BY <1>2, <3>1, HalfIsLost
    <3>. QED
      BY <3>2 DEF d
  <2>5. hit \in 1 .. k - 1
    <3>. HIDE DEF hit
    <3>. QED
      BY <1>2, <2>1
  <2>. HIDE DEF hit
  <2>. QED
    BY <2>4, <2>5 DEF hit
<1>. QED
  BY <1>9

\* The chart of any review of any folder.
LEMMA PlaceTiles == PlaceInv => RingTilesFolder
<1>. SUFFICES ASSUME PlaceInv, TotalsFit(scan) PROVE RingTilesFolder
  BY DEF RingTilesFolder
<1>1. scan \in Trees /\ IsReview(scan, review) /\ root \in Directory[scan]
      /\ arcs = ArcsOf(scan, review, root)
  BY ScanIsTree DEF PlaceInv
<1>2. CASE EffectiveSize(scan, review, root) = 0
  <2>1. arcs = <<>> /\ DOMAIN arcs = {} /\ Len(arcs) = 0
    BY <1>1, <1>2 DEF ArcsOf
  <2>2. ASSUME NEW f \in Charted PROVE IsTiled(f)
    <3>1. RingOf(f.node) = [k \in 1 .. 0 |-> arcs[Ascending({})[k]]]
      <4>1. {k \in DOMAIN arcs : IF arcs[k].aggregate THEN arcs[k].node = f.node
                                 ELSE Parent[scan][arcs[k].node] = f.node} = {}
        BY <2>1
      <4>. QED
        BY <4>1, FS_EmptySet DEF RingOf, MembersAt
    <3>2. RingOf(f.node) = <<>>
      BY <3>1
    <3>. QED
      BY <3>2 DEF IsTiled
  <2>3. 0 <= MaxSegments
    BY LayoutAssumption
  <2>. QED
    BY <1>2, <2>1, <2>2, <2>3 DEF RingTilesFolder
<1>3. CASE EffectiveSize(scan, review, root) # 0
  <2>1. PICK W, p, rings, e, par :
          AreLaid(scan, review, root, arcs, W, p, rings, e, par) /\ p >= 1
    BY <1>1, <1>3, ArcsAreLaid
  <2>2. ChartIs(W, p, rings, e, par)
    BY <2>1 DEF ChartIs
  <2>3. \A f \in Charted : IsTiled(f)
    BY <1>1, <2>2, ChartIsTiled
  <2>4. \A k \in DOMAIN arcs : IsFound(k)
    BY <2>2, ArcIsFound
  <2>5. Len(arcs) <= MaxSegments
    BY <2>1 DEF AreLaid
  <2>6. EffectiveSize(scan, review, root) > 0 => RingOf(root) # <<>>
    <3>1. 1 \in 1 .. p /\ W[1].node = root
      BY <2>1 DEF AreLaid, IsWorkList, FirstWork
    <3>2. RingOf(root) = rings[1]
      BY <2>1, <3>1, RingOfIs, RingIsFound
    <3>3. IsRing(scan, review, rings[1], W[1])
      BY <2>1, <3>1 DEF AreLaid, AreArcs
    <3>4. EffectiveSize(scan, review, root) > 0 => Len(rings[1]) > 0
      BY <3>1, <3>3 DEF IsRing
    <3>5. Len(<<>>) = 0
      OBVIOUS
    <3>. QED
      BY <3>2, <3>4, <3>5
  <2>. QED
    BY <2>3, <2>4, <2>5, <2>6 DEF RingTilesFolder
<1>. QED
  BY <1>2, <1>3

\* The chart of build_sunburst_layout does not lie about a folder: whatever was
\* navigated to, collected or restored, each folder that has a ring has all its
\* bytes in it, without a gap, where its own arc is but for the rounding; and
\* hit_test_sunburst finds every arc that is drawn.
THEOREM RingsTile == Spec => []RingTilesFolder
BY InitPlace, NextKeepsPlace, PlaceTiles, PTL DEF Spec

-----------------------------------------------------------------------------
(***************************************************************************)
(* Transitions.                                                            *)
(***************************************************************************)

\* The states of a transition.
States ==
  [node : Nodes(scan), aggregate : BOOLEAN, depth : Nat, from : Int, to : Int, inner : Int,
   opacity : 0 .. Full]

\* m turns a state of S into one of D, or into none, or comes from none.
IsMorph(m, S, D) ==
  /\ m.source = <<>> \/ \E i \in 1 .. Len(S) : m.source = <<S[i]>>
  /\ m.destination = <<>> \/ \E j \in 1 .. Len(D) : m.destination = <<D[j]>>
  /\ m.source # <<>> \/ m.destination # <<>>

\* Every state of S is the source of a morph, and every one of D is a destination.
AreMorphs(M, S, D) ==
  /\ \E m \in Nat : DOMAIN M = 1 .. m
  /\ \A k \in DOMAIN M : IsMorph(M[k], S, D)
  /\ \A i \in 1 .. Len(S) : \E k \in DOMAIN M : M[k].source = <<S[i]>>
  /\ \A j \in 1 .. Len(D) : \E k \in DOMAIN M : M[k].destination = <<D[j]>>

IsAnchor(a) == a.angle \in Int /\ a.inner \in Int

\* What a snapshot takes of a drawn arc.
Shot(f) ==
  [node |-> f.node, aggregate |-> f.aggregate, depth |-> f.depth,
   from |-> f.from, to |-> f.to, inner |-> f.inner, opacity |-> Opacity(f)]

\* The drawn arc f looks as the state s does.
LooksAs(f, s) ==
  f.from = s.from /\ f.to = s.to /\ f.inner = s.inner /\ Opacity(f) = s.opacity

\* A product is divided by one of its factors.
LEMMA FactorDivides ==
  ASSUME NEW x \in Int, NEW d \in Nat \ {0}
  PROVE  (x * d) \div d = x
<1>. DEFINE y == x * d
            q == y \div d
            m == y % d
<1>1. y \in Int /\ y = d * x
  OBVIOUS
<1>. HIDE DEF y
<1>2. q \in Int /\ y = d * q + m
  BY <1>1
<1>4. m \in Int /\ 0 <= m /\ m < d
  BY <1>1
<1>. HIDE DEF q, m
<1>5. d * q <= d * x
  BY <1>1, <1>2, <1>4
<1>6. d * x <= d * q + (d - 1)
  BY <1>1, <1>2, <1>4
<1>7. q <= x
  BY <1>2, <1>5, FactorDropped
<1>8. x <= q
  <2>. SUFFICES ASSUME q + 1 <= x PROVE FALSE
    BY <1>2
  <2>1. d * (q + 1) <= d * x
    BY <1>2
  <2>2. d * (q + 1) = d * q + d
    BY <1>2
  <2>. QED
    BY <1>2, <1>6, <2>1, <2>2
<1>. QED
  BY <1>1, <1>2, <1>7, <1>8 DEF q, y

\* An interpolation goes from one end to the other.
LEMMA LerpFacts ==
  ASSUME NEW a \in Int, NEW b \in Int
  PROVE  /\ Lerp(a, b, 0) = a
         /\ Lerp(a, b, Full) = b
         /\ \A e \in 0 .. Full : Lerp(a, b, e) \in Int
<1>1. Full \in Nat \ {0}
  BY TransitionAssumption
<1>2. ((b - a) * 0) \div Full = 0
  <2>1. (b - a) * 0 = 0 * Full
    BY <1>1
  <2>. QED
    BY <1>1, <2>1, FactorDivides
<1>3. ((b - a) * Full) \div Full = b - a
  BY <1>1, FactorDivides
<1>4. ASSUME NEW e \in 0 .. Full PROVE ((b - a) * e) \div Full \in Int
  BY <1>1
<1>. QED
  BY <1>2, <1>3, <1>4 DEF Lerp

\* The part of an opacity that is left.
LEMMA FadeFacts ==
  ASSUME NEW o \in 0 .. Full
  PROVE  /\ (o * 0) \div Full = 0
         /\ (o * Full) \div Full = o
         /\ \A e \in 0 .. Full : (o * e) \div Full \in Nat
<1>1. Full \in Nat \ {0} /\ o \in Int /\ o \in Nat
  BY TransitionAssumption
<1>2. (o * 0) \div Full = 0
  <2>1. o * 0 = 0 * Full
    BY <1>1
  <2>. QED
    BY <1>1, <2>1, FactorDivides
<1>3. ASSUME NEW e \in 0 .. Full PROVE (o * e) \div Full \in Nat
  <2>1. e \in Nat /\ o * e \in Nat
    BY <1>1
  <2>. QED
    BY <1>1, <2>1, Quotient
<1>. QED
  BY <1>1, <1>2, <1>3, FactorDivides

-----------------------------------------------------------------------------
\* The ends of a morph and what is drawn of it.
LEMMA DrawnFacts ==
  ASSUME NEW S \in Seq(States), NEW D \in Seq(States),
         NEW m, IsMorph(m, S, D), NEW a, IsAnchor(a)
  PROVE  /\ \A e \in 0 .. Full : Shot(DrawnMorph(m, a, e)) \in States
         /\ m.source = <<>> => Opacity(DrawnMorph(m, a, 0)) = 0
         /\ \A i \in 1 .. Len(S) :
              m.source = <<S[i]>> => LooksAs(DrawnMorph(m, a, 0), S[i])
         /\ m.destination = <<>> => Opacity(DrawnMorph(m, a, Full)) = 0
         /\ \A j \in 1 .. Len(D) :
              m.destination = <<D[j]>> => LooksAs(DrawnMorph(m, a, Full), D[j])
<1>. DEFINE s == IF m.source # <<>> THEN Head(m.source) ELSE Collapsed(Head(m.destination), a)
            d == IF m.destination # <<>> THEN Head(m.destination)
                 ELSE Collapsed(Head(m.source), a)
            f(e) == DrawnMorph(m, a, e)
<1>1. Full \in Nat \ {0} /\ 0 \in 0 .. Full
  BY TransitionAssumption
<1>2. \A t \in States : /\ Collapsed(t, a) \in States
                        /\ Collapsed(t, a).opacity = 0
  BY <1>1 DEF States, Collapsed, IsAnchor
<1>3. \A i \in 1 .. Len(S) : S[i] \in States
  OBVIOUS
<1>4. \A j \in 1 .. Len(D) : D[j] \in States
  OBVIOUS
<1>5. /\ \A i \in 1 .. Len(S) : m.source = <<S[i]>> => m.source # <<>> /\ s = S[i]
      /\ m.source = <<>> => s.opacity = 0
      /\ s \in States
  <2>1. \A t : <<t>> # <<>> /\ Head(<<t>>) = t
    OBVIOUS
  <2>2. \A i \in 1 .. Len(S) : m.source = <<S[i]>> => m.source # <<>> /\ s = S[i]
    BY <2>1
  <2>3. CASE m.source = <<>>
    <3>1. PICK j \in 1 .. Len(D) : m.destination = <<D[j]>>
      BY <2>3 DEF IsMorph
    <3>2. s = Collapsed(D[j], a)
      BY <2>1, <2>3, <3>1
    <3>. QED
      BY <1>2, <1>4, <2>2, <3>2
  <2>4. CASE m.source # <<>>
    <3>1. PICK i \in 1 .. Len(S) : m.source = <<S[i]>>
      BY <2>4 DEF IsMorph
    <3>. QED
      BY <1>3, <2>2, <2>4, <3>1
  <2>. QED
    BY <2>3, <2>4
<1>6. /\ \A j \in 1 .. Len(D) : m.destination = <<D[j]>> => m.destination # <<>> /\ d = D[j]
      /\ m.destination = <<>> => d.opacity = 0
      /\ d \in States
  <2>1. \A t : <<t>> # <<>> /\ Head(<<t>>) = t
    OBVIOUS
  <2>2. \A j \in 1 .. Len(D) : m.destination = <<D[j]>> => m.destination # <<>> /\ d = D[j]
    BY <2>1
  <2>3. CASE m.destination = <<>>
    <3>1. PICK i \in 1 .. Len(S) : m.source = <<S[i]>>
      BY <2>3 DEF IsMorph
    <3>2. d = Collapsed(S[i], a)
      BY <2>1, <2>3, <3>1
    <3>. QED
      BY <1>2, <1>3, <2>2, <3>2
  <2>4. CASE m.destination # <<>>
    <3>1. PICK j \in 1 .. Len(D) : m.destination = <<D[j]>>
      BY <2>4 DEF IsMorph
    <3>. QED
      BY <1>4, <2>2, <2>4, <3>1
  <2>. QED
    BY <2>3, <2>4
<1>7. ASSUME NEW e
      PROVE  /\ f(e).from = Lerp(s.from, d.from, e)
             /\ f(e).to = Lerp(s.to, d.to, e)
             /\ f(e).inner = Lerp(s.inner, d.inner, e)
             /\ f(e).sourceOpacity = (s.opacity * (Full - e)) \div Full
             /\ f(e).destinationOpacity = (d.opacity * e) \div Full
             /\ \E t \in {s, d} : /\ f(e).node = t.node /\ f(e).aggregate = t.aggregate
                                  /\ f(e).depth = t.depth
  BY DEF DrawnMorph
<1>. HIDE DEF s, d, f
<1>8. /\ s.from \in Int /\ s.to \in Int /\ s.inner \in Int /\ s.opacity \in 0 .. Full
      /\ d.from \in Int /\ d.to \in Int /\ d.inner \in Int /\ d.opacity \in 0 .. Full
  BY <1>5, <1>6 DEF States
<1>9. Opacity(f(0)) = s.opacity /\ Opacity(f(Full)) = d.opacity
  <2>. DEFINE x == s.opacity
              y == d.opacity
  <2>1. x \in 0 .. Full /\ y \in 0 .. Full
    BY <1>8
  <2>2. f(0).sourceOpacity = x /\ f(0).destinationOpacity = 0
    <3>1. f(0).sourceOpacity = (x * (Full - 0)) \div Full /\ f(0).destinationOpacity = (y * 0) \div Full
      BY <1>7
    <3>2. Full - 0 = Full
      BY <1>1
    <3>. HIDE DEF x, y
    <3>. QED
      BY <2>1, <3>1, <3>2, FadeFacts
  <2>3. f(Full).sourceOpacity = 0 /\ f(Full).destinationOpacity = y
    <3>1. /\ f(Full).sourceOpacity = (x * (Full - Full)) \div Full
          /\ f(Full).destinationOpacity = (y * Full) \div Full
      BY <1>7
    <3>2. Full - Full = 0
      BY <1>1
    <3>. HIDE DEF x, y
    <3>. QED
      BY <2>1, <3>1, <3>2, FadeFacts
  <2>. HIDE DEF x, y
  <2>4. Opacity(f(0)) = x
    BY <1>1, <2>1, <2>2 DEF Opacity
  <2>5. Opacity(f(Full)) = y
    BY <1>1, <2>1, <2>3 DEF Opacity
  <2>. QED
    BY <2>4, <2>5 DEF x, y
<1>10. ASSUME NEW e \in 0 .. Full PROVE Shot(f(e)) \in States
  <2>1. f(e).from \in Int /\ f(e).to \in Int /\ f(e).inner \in Int
    <3>1. Lerp(s.from, d.from, e) \in Int
      BY <1>8, LerpFacts
    <3>2. Lerp(s.to, d.to, e) \in Int
      BY <1>8, LerpFacts
    <3>3. Lerp(s.inner, d.inner, e) \in Int
      BY <1>8, LerpFacts
    <3>. QED
      BY <1>7, <3>1, <3>2, <3>3
  <2>2. Opacity(f(e)) \in 0 .. Full
    <3>. DEFINE u == f(e).sourceOpacity
                v == f(e).destinationOpacity
    <3>1. u \in Nat /\ v \in Nat
      <4>1. Full - e \in 0 .. Full
        BY <1>1
      <4>. QED
        BY <1>7, <1>8, <4>1, FadeFacts
    <3>2. Opacity(f(e)) = IF u + v > Full THEN Full ELSE u + v
      BY DEF Opacity
    <3>. HIDE DEF u, v
    <3>. QED
      BY <1>1, <3>1, <3>2
  <2>3. f(e).node \in Nodes(scan) /\ f(e).aggregate \in BOOLEAN /\ f(e).depth \in Nat
    BY <1>5, <1>6, <1>7 DEF States
  <2>. QED
    BY <2>1, <2>2, <2>3 DEF States, Shot
<1>11. f(0).from = s.from /\ f(0).to = s.to /\ f(0).inner = s.inner
  <2>1. Lerp(s.from, d.from, 0) = s.from
    BY <1>8, LerpFacts
  <2>2. Lerp(s.to, d.to, 0) = s.to
    BY <1>8, LerpFacts
  <2>3. Lerp(s.inner, d.inner, 0) = s.inner
    BY <1>8, LerpFacts
  <2>. QED
    BY <1>7, <2>1, <2>2, <2>3
<1>12. f(Full).from = d.from /\ f(Full).to = d.to /\ f(Full).inner = d.inner
  <2>1. Lerp(s.from, d.from, Full) = d.from
    BY <1>8, LerpFacts
  <2>2. Lerp(s.to, d.to, Full) = d.to
    BY <1>8, LerpFacts
  <2>3. Lerp(s.inner, d.inner, Full) = d.inner
    BY <1>8, LerpFacts
  <2>. QED
    BY <1>7, <2>1, <2>2, <2>3
<1>13. \A e \in 0 .. Full : Shot(DrawnMorph(m, a, e)) \in States
  BY <1>10 DEF f
<1>14. m.source = <<>> => Opacity(DrawnMorph(m, a, 0)) = 0
  BY <1>5, <1>9 DEF f
<1>15. ASSUME NEW i \in 1 .. Len(S), m.source = <<S[i]>>
       PROVE  LooksAs(DrawnMorph(m, a, 0), S[i])
  <2>1. s = S[i]
    BY <1>5, <1>15
  <2>. QED
    BY <1>9, <1>11, <2>1 DEF f, LooksAs
<1>16. m.destination = <<>> => Opacity(DrawnMorph(m, a, Full)) = 0
  BY <1>6, <1>9 DEF f
<1>17. ASSUME NEW j \in 1 .. Len(D), m.destination = <<D[j]>>
       PROVE  LooksAs(DrawnMorph(m, a, Full), D[j])
  <2>1. d = D[j]
    BY <1>6, <1>17
  <2>. QED
    BY <1>9, <1>12, <2>1 DEF f, LooksAs
<1>. QED
  BY <1>13, <1>14, <1>15, <1>16, <1>17

\* An index sequence holds each of its indices, in a place that counts.
IsIndex(s, I) ==
  /\ Len(s) \in Nat
  /\ DOMAIN s = 1 .. Len(s)
  /\ \A k \in 1 .. Len(s) : s[k] \in I
  /\ \A i \in I : \E k \in 1 .. Len(s) : s[k] = i

\* The indices in ascending order are such a sequence.
LEMMA AscendingIndex ==
  ASSUME NEW n \in Nat, NEW I \in SUBSET (1 .. n)
  PROVE  IsIndex(Ascending(I), I)
<1>1. I \in SUBSET Int /\ IsFiniteSet(I)
  <2>1. IsFiniteSet(1 .. n)
    BY FirstNumbers
  <2>2. IsFiniteSet(I)
    BY <2>1, FS_Subset
  <2>. QED
    BY <2>2
<1>2. /\ Cardinality(I) \in Nat
      /\ Ascending(I) \in [1 .. Cardinality(I) -> I]
      /\ \A a \in I : \E k \in 1 .. Cardinality(I) : Ascending(I)[k] = a
  BY <1>1, AscendingFacts
<1>3. Len(Ascending(I)) = Cardinality(I) /\ DOMAIN Ascending(I) = 1 .. Cardinality(I)
  BY <1>2, NumberedSeq
<1>. QED
  BY <1>2, <1>3 DEF IsIndex

\* What is left of a chart, one after the other.
LEMMA OptionalFacts ==
  ASSUME NEW C, NEW I \in SUBSET (1 .. Len(C)), NEW s, IsIndex(s, I)
  PROVE  /\ \A k : Optional(C, s, k) = <<>> \/ \E i \in 1 .. Len(C) : Optional(C, s, k) = <<C[i]>>
         /\ \A k \in 1 .. Len(s) : Optional(C, s, k) = <<C[s[k]]>> /\ Optional(C, s, k) # <<>>
<1>1. DOMAIN s = 1 .. Len(s) /\ \A k \in 1 .. Len(s) : s[k] \in 1 .. Len(C)
  BY DEF IsIndex
<1>2. ASSUME NEW k, k \notin 1 .. Len(s) PROVE Optional(C, s, k) = <<>>
  BY <1>1, <1>2 DEF Optional
<1>3. ASSUME NEW k \in 1 .. Len(s)
      PROVE  /\ Optional(C, s, k) = <<C[s[k]]>> /\ Optional(C, s, k) # <<>>
             /\ s[k] \in 1 .. Len(C)
  <2>1. Optional(C, s, k) = <<C[s[k]]>>
    BY <1>1 DEF Optional
  <2>. QED
    BY <1>1, <2>1
<1>. QED
  BY <1>2, <1>3

\* A state has one peer at most: the pairs are one to one.
LEMMA PairsMatch ==
  ASSUME NEW S \in Seq(States), NEW D \in Seq(States)
  PROVE  LET pairs == MatchedPairs(S, D)
         IN  /\ {p[1] : p \in pairs} \in SUBSET (1 .. Len(S))
             /\ {p[2] : p \in pairs} \in SUBSET (1 .. Len(D))
             /\ \A i \in {p[1] : p \in pairs} : \E j \in 1 .. Len(D) : <<i, j>> \in pairs
             /\ \A j \in {p[2] : p \in pairs} : \E i \in 1 .. Len(S) : <<i, j>> \in pairs
             /\ \A i, j, k : <<i, j>> \in pairs /\ <<i, k>> \in pairs => j = k
<1>. DEFINE pairs == MatchedPairs(S, D)
<1>1. DOMAIN S = 1 .. Len(S) /\ DOMAIN D = 1 .. Len(D)
  OBVIOUS
<1>2. \A p \in pairs : /\ p = <<p[1], p[2]>>
                       /\ p[1] \in 1 .. Len(S) /\ p[2] \in 1 .. Len(D)
                       /\ Identity(S[p[1]]) = Identity(D[p[2]])
                       /\ IsFirst(D, p[2])
  BY <1>1 DEF MatchedPairs
<1>3. ASSUME NEW i, NEW j, NEW k, <<i, j>> \in pairs, <<i, k>> \in pairs
      PROVE  j = k
  <2>1. /\ j \in 1 .. Len(D) /\ k \in 1 .. Len(D)
        /\ Identity(D[j]) = Identity(D[k])
        /\ IsFirst(D, j) /\ IsFirst(D, k)
    BY <1>2, <1>3
  <2>2. ~(j < k) /\ ~(k < j)
    BY <2>1 DEF IsFirst
  <2>. QED
    BY <2>1, <2>2
<1>. HIDE DEF pairs
<1>4. ASSUME NEW i \in {p[1] : p \in pairs} PROVE \E j \in 1 .. Len(D) : <<i, j>> \in pairs
  <2>1. PICK p \in pairs : i = p[1]
    OBVIOUS
  <2>. QED
    BY <1>2, <2>1
<1>5. ASSUME NEW j \in {p[2] : p \in pairs} PROVE \E i \in 1 .. Len(S) : <<i, j>> \in pairs
  <2>1. PICK p \in pairs : j = p[2]
    OBVIOUS
  <2>. QED
    BY <1>2, <2>1
<1>6. /\ {p[1] : p \in pairs} \in SUBSET (1 .. Len(S))
      /\ {p[2] : p \in pairs} \in SUBSET (1 .. Len(D))
  BY <1>2
<1>. QED
  BY <1>3, <1>4, <1>5, <1>6 DEF pairs

\* No arc is lost between two charts, and none is made up.
LEMMA PlanMorphs ==
  ASSUME NEW S \in Seq(States), NEW D \in Seq(States), NEW n
  PROVE  AreMorphs(Plan(S, D, n).morphs, S, D)
<1>. DEFINE pairs == MatchedPairs(S, D)
            I == {p[1] : p \in pairs}
            J == {p[2] : p \in pairs}
            onlyS == {i \in DOMAIN S : i \notin I}
            onlyD == {j \in DOMAIN D : j \notin J}
            kept == Ascending(I)
            peer == [i \in I |-> CHOOSE j \in DOMAIN D : <<i, j>> \in pairs]
            leftS == Ascending(onlyS)
            leftD == Ascending(onlyD)
            count == RemainingCount(Len(leftS), Len(leftD))
            both == [k \in DOMAIN kept |-> [source |-> <<S[kept[k]]>>,
                                            destination |-> <<D[peer[kept[k]]]>>]]
            one == [k \in 1 .. count |-> [source |-> Optional(S, leftS, k),
                                          destination |-> Optional(D, leftD, k)]]
            M == both \o one
<1>1. DOMAIN S = 1 .. Len(S) /\ DOMAIN D = 1 .. Len(D) /\ Len(S) \in Nat /\ Len(D) \in Nat
  OBVIOUS
<1>2. Plan(S, D, n).morphs = M
  BY DEF Plan
<1>3. /\ I \in SUBSET (1 .. Len(S)) /\ J \in SUBSET (1 .. Len(D))
      /\ \A i \in I : \E j \in 1 .. Len(D) : <<i, j>> \in pairs
      /\ \A j \in J : \E i \in 1 .. Len(S) : <<i, j>> \in pairs
      /\ \A i, j, k : <<i, j>> \in pairs /\ <<i, k>> \in pairs => j = k
  BY PairsMatch
<1>4. \A i, j : <<i, j>> \in pairs => i \in I /\ j \in J
  <2>. SUFFICES ASSUME NEW i, NEW j, <<i, j>> \in pairs PROVE i \in I /\ j \in J
    OBVIOUS
  <2>. DEFINE p == <<i, j>>
  <2>1. p[1] = i /\ p[2] = j
    OBVIOUS
  <2>. QED
    BY <2>1
<1>5. \A i \in I : peer[i] \in 1 .. Len(D) /\ <<i, peer[i]>> \in pairs
  BY <1>1, <1>3
<1>6. IsIndex(kept, I)
  BY <1>1, <1>3, AscendingIndex
<1>7. onlyS \in SUBSET (1 .. Len(S)) /\ onlyD \in SUBSET (1 .. Len(D))
  BY <1>1
<1>8. IsIndex(leftS, onlyS)
  BY <1>1, <1>7, AscendingIndex
<1>9. IsIndex(leftD, onlyD)
  BY <1>1, <1>7, AscendingIndex
<1>10. /\ count \in Nat /\ Len(leftS) <= count /\ Len(leftD) <= count
       /\ \A k \in 1 .. count : k <= Len(leftS) \/ k <= Len(leftD)
  <2>1. Len(leftS) \in Nat /\ Len(leftD) \in Nat
    BY <1>8, <1>9 DEF IsIndex
  <2>. HIDE DEF leftS, leftD
  <2>. QED
    BY <2>1 DEF RemainingCount
<1>11. DOMAIN kept = 1 .. Len(kept) /\ Len(kept) \in Nat
  BY <1>6 DEF IsIndex
<1>. HIDE DEF count, kept, peer, leftS, leftD, onlyS, onlyD, I, J, pairs
<1>12. IsJoined(M, both, one) /\ Len(both) = Len(kept) /\ Len(one) = count
  <2>. DEFINE T == {both[k] : k \in 1 .. Len(kept)} \cup {one[k] : k \in 1 .. count}
  <2>1. both \in [1 .. Len(kept) -> T] /\ one \in [1 .. count -> T]
    BY <1>11
  <2>. HIDE DEF T, both, one
  <2>2. both \in Seq(T) /\ Len(both) = Len(kept)
    BY <1>11, <2>1, NumberedSeq
  <2>3. one \in Seq(T) /\ Len(one) = count
    BY <1>10, <2>1, NumberedSeq, SMTT(30)
  <2>. QED
    BY <2>2, <2>3, Joined
<1>13. /\ DOMAIN M = 1 .. Len(kept) + count
       /\ \A k \in 1 .. Len(kept) : M[k] = both[k]
       /\ \A k \in 1 .. count : M[Len(kept) + k] = one[k]
  BY <1>12 DEF IsJoined
<1>14. ASSUME NEW k \in 1 .. Len(kept) PROVE IsMorph(both[k], S, D)
  <2>1. kept[k] \in I
    BY <1>6, <1>14 DEF IsIndex
  <2>2. kept[k] \in 1 .. Len(S) /\ peer[kept[k]] \in 1 .. Len(D)
    BY <1>3, <1>5, <2>1
  <2>3. both[k].source = <<S[kept[k]]>> /\ both[k].destination = <<D[peer[kept[k]]]>>
    BY <1>11
  <2>4. both[k].source # <<>>
    BY <2>3
  <2>. HIDE DEF both
  <2>. QED
    BY <2>2, <2>3, <2>4 DEF IsMorph
<1>15. ASSUME NEW k \in 1 .. count PROVE IsMorph(one[k], S, D)
  <2>1. one[k].source = Optional(S, leftS, k) /\ one[k].destination = Optional(D, leftD, k)
    OBVIOUS
  <2>2. /\ one[k].source = <<>> \/ \E i \in 1 .. Len(S) : one[k].source = <<S[i]>>
        /\ k <= Len(leftS) => one[k].source # <<>>
    <3>1. k <= Len(leftS) => k \in 1 .. Len(leftS)
      BY <1>8, <1>10 DEF IsIndex
    <3>2. onlyS \in SUBSET (1 .. Len(S))
      BY <1>7
    <3>3. /\ Optional(S, leftS, k) = <<>> \/ \E i \in 1 .. Len(S) : Optional(S, leftS, k) = <<S[i]>>
          /\ k \in 1 .. Len(leftS) => Optional(S, leftS, k) # <<>>
      BY <1>8, <3>2, OptionalFacts
    <3>. HIDE DEF one
    <3>. QED
      BY <2>1, <3>1, <3>3
  <2>3. /\ one[k].destination = <<>> \/ \E j \in 1 .. Len(D) : one[k].destination = <<D[j]>>
        /\ k <= Len(leftD) => one[k].destination # <<>>
    <3>1. k <= Len(leftD) => k \in 1 .. Len(leftD)
      BY <1>9, <1>10 DEF IsIndex
    <3>2. onlyD \in SUBSET (1 .. Len(D))
      BY <1>7
    <3>3. /\ Optional(D, leftD, k) = <<>> \/ \E j \in 1 .. Len(D) : Optional(D, leftD, k) = <<D[j]>>
          /\ k \in 1 .. Len(leftD) => Optional(D, leftD, k) # <<>>
      BY <1>9, <3>2, OptionalFacts
    <3>. HIDE DEF one
    <3>. QED
      BY <2>1, <3>1, <3>3
  <2>. HIDE DEF one
  <2>. QED
    BY <1>10, <2>2, <2>3 DEF IsMorph
<1>16. ASSUME NEW i \in 1 .. Len(S) PROVE \E k \in DOMAIN M : M[k].source = <<S[i]>>
  <2>1. CASE i \in I
    <3>1. PICK k \in 1 .. Len(kept) : kept[k] = i
      BY <1>6, <2>1 DEF IsIndex
    <3>2. both[k].source = <<S[i]>>
      BY <1>11, <3>1
    <3>3. k \in DOMAIN M
      BY <1>10, <1>11, <1>13
    <3>. HIDE DEF both, M
    <3>. QED
      BY <1>13, <3>2, <3>3
  <2>2. CASE i \notin I
    <3>1. i \in onlyS
      BY <1>1, <2>2 DEF onlyS
    <3>2. PICK k \in 1 .. Len(leftS) : leftS[k] = i
      BY <1>8, <3>1 DEF IsIndex
    <3>3. k \in DOMAIN leftS /\ k \in 1 .. count
      BY <1>8, <1>10, <3>2 DEF IsIndex
    <3>4. one[k].source = <<S[i]>>
      BY <3>2, <3>3 DEF Optional
    <3>5. Len(kept) + k \in DOMAIN M
      BY <1>10, <1>11, <1>13, <3>3, SMTT(30)
    <3>. HIDE DEF one, M
    <3>. QED
      BY <1>13, <3>3, <3>4, <3>5
  <2>. QED
    BY <2>1, <2>2
<1>17. ASSUME NEW j \in 1 .. Len(D) PROVE \E k \in DOMAIN M : M[k].destination = <<D[j]>>
  <2>1. CASE j \in J
    <3>1. PICK i \in 1 .. Len(S) : <<i, j>> \in pairs
      BY <1>3, <2>1
    <3>2. i \in I /\ peer[i] = j
      BY <1>3, <1>4, <1>5, <3>1
    <3>3. PICK k \in 1 .. Len(kept) : kept[k] = i
      BY <1>6, <3>2 DEF IsIndex
    <3>4. both[k].destination = <<D[j]>>
      BY <1>11, <3>2, <3>3
    <3>5. k \in DOMAIN M
      BY <1>10, <1>11, <1>13
    <3>. HIDE DEF both, M
    <3>. QED
      BY <1>13, <3>4, <3>5
  <2>2. CASE j \notin J
    <3>1. j \in onlyD
      BY <1>1, <2>2 DEF onlyD
    <3>2. PICK k \in 1 .. Len(leftD) : leftD[k] = j
      BY <1>9, <3>1 DEF IsIndex
    <3>3. k \in DOMAIN leftD /\ k \in 1 .. count
      BY <1>9, <1>10, <3>2 DEF IsIndex
    <3>4. one[k].destination = <<D[j]>>
      BY <3>2, <3>3 DEF Optional
    <3>5. Len(kept) + k \in DOMAIN M
      BY <1>10, <1>11, <1>13, <3>3
    <3>. HIDE DEF one, M
    <3>. QED
      BY <1>13, <3>3, <3>4, <3>5
  <2>. QED
    BY <2>1, <2>2
<1>18. ASSUME NEW k \in DOMAIN M PROVE IsMorph(M[k], S, D)
  <2>. HIDE DEF both, one, M
  <2>1. k \in 1 .. Len(kept) \/ (k - Len(kept) \in 1 .. count /\ Len(kept) + (k - Len(kept)) = k)
    BY <1>10, <1>11, <1>13
  <2>2. CASE k \in 1 .. Len(kept)
    BY <1>13, <1>14, <2>2
  <2>3. CASE k - Len(kept) \in 1 .. count /\ Len(kept) + (k - Len(kept)) = k
    <3>. DEFINE h == k - Len(kept)
    <3>1. h \in 1 .. count /\ M[Len(kept) + h] = one[h] /\ Len(kept) + h = k
      BY <1>13, <2>3
    <3>2. IsMorph(one[h], S, D)
      BY <1>15, <3>1
    <3>. QED
      BY <3>1, <3>2
  <2>. QED
    BY <2>1, <2>2, <2>3
<1>19. \E m \in Nat : DOMAIN M = 1 .. m
  <2>1. Len(kept) + count \in Nat
    BY <1>10, <1>11
  <2>. QED
    BY <1>13, <2>1
<1>. HIDE DEF M
<1>. QED
  BY <1>2, <1>16, <1>17, <1>18, <1>19 DEF AreMorphs

\* The place where arcs without a peer come from and go to.
LEMMA PlanAnchor ==
  ASSUME NEW S \in Seq(States), NEW D \in Seq(States), NEW n
  PROVE  IsAnchor(Plan(S, D, n).anchor)
<1>. DEFINE spot(s) == [angle |-> (s.from + s.to) \div 2, inner |-> s.inner]
<1>1. \A s \in States : IsAnchor(spot(s))
  BY DEF States, IsAnchor
<1>2. ASSUME NEW C \in Seq(States), AnchorIn(C, n) # {}
      PROVE  C[Min(AnchorIn(C, n))] \in States
  <2>1. AnchorIn(C, n) \in SUBSET (1 .. Len(C))
    BY DEF AnchorIn
  <2>2. \E x \in AnchorIn(C, n) : \A y \in AnchorIn(C, n) : x <= y
    BY <1>2, <2>1, LeastMember
  <2>3. Min(AnchorIn(C, n)) \in AnchorIn(C, n)
    BY <2>2 DEF Min
  <2>. QED
    BY <2>1, <2>3
<1>3. S \o D # <<>> => Head(S \o D) \in States
  OBVIOUS
<1>4. IsAnchor([angle |-> 0, inner |-> 0])
  BY DEF IsAnchor
<1>5. Anchor(S, D, n) \in {spot(S[Min(AnchorIn(S, n))]), spot(D[Min(AnchorIn(D, n))]),
                           spot(Head(S \o D)), [angle |-> 0, inner |-> 0]}
  BY DEF Anchor
<1>6. /\ AnchorIn(S, n) # {} => Anchor(S, D, n) = spot(S[Min(AnchorIn(S, n))])
      /\ AnchorIn(S, n) = {} /\ AnchorIn(D, n) # {} =>
           Anchor(S, D, n) = spot(D[Min(AnchorIn(D, n))])
      /\ AnchorIn(S, n) = {} /\ AnchorIn(D, n) = {} /\ S \o D # <<>> =>
           Anchor(S, D, n) = spot(Head(S \o D))
      /\ AnchorIn(S, n) = {} /\ AnchorIn(D, n) = {} /\ S \o D = <<>> =>
           Anchor(S, D, n) = [angle |-> 0, inner |-> 0]
  BY DEF Anchor
<1>7. Plan(S, D, n).anchor = Anchor(S, D, n)
  BY DEF Plan
<1>. HIDE DEF spot
<1>. QED
  BY <1>1, <1>2, <1>3, <1>4, <1>6, <1>7

\* Two pictures are one when each arc of the frame that is to be seen is in the
\* chart, and each of the chart in the frame.
LEMMA SameSeen ==
  ASSUME NEW F, NEW C,
         \A k \in DOMAIN F : Opacity(F[k]) = 0 \/ \E i \in DOMAIN C : LooksAs(F[k], C[i]),
         \A i \in DOMAIN C : \E k \in DOMAIN F : LooksAs(F[k], C[i])
  PROVE  Seen(F) = SeenChart(C)
<1>. DEFINE look(f) == [from |-> f.from, to |-> f.to, inner |-> f.inner, opacity |-> Opacity(f)]
            chart(s) == [from |-> s.from, to |-> s.to, inner |-> s.inner, opacity |-> s.opacity]
<1>1. Seen(F) = {look(f) : f \in {g \in ToSet(F) : Opacity(g) > 0}}
  BY DEF Seen
<1>2. SeenChart(C) = {chart(s) : s \in {g \in ToSet(C) : g.opacity > 0}}
  BY DEF SeenChart
<1>3. \A f, s : LooksAs(f, s) => look(f) = chart(s) /\ Opacity(f) = s.opacity
  BY DEF LooksAs
<1>. HIDE DEF look, chart
<1>4. ASSUME NEW x \in Seen(F) PROVE x \in SeenChart(C)
  <2>1. PICK f \in ToSet(F) : x = look(f) /\ Opacity(f) > 0
    BY <1>1
  <2>2. PICK k \in DOMAIN F : f = F[k]
    BY DEF ToSet
  <2>3. Opacity(F[k]) # 0
    BY <2>1, <2>2
  <2>4. PICK i \in DOMAIN C : LooksAs(F[k], C[i])
    BY <2>3
  <2>5. look(f) = chart(C[i]) /\ C[i].opacity > 0
    BY <1>3, <2>1, <2>2, <2>4
  <2>6. C[i] \in ToSet(C)
    BY DEF ToSet
  <2>. QED
    BY <1>2, <2>1, <2>5, <2>6
<1>5. ASSUME NEW x \in SeenChart(C) PROVE x \in Seen(F)
  <2>1. PICK s \in ToSet(C) : x = chart(s) /\ s.opacity > 0
    BY <1>2
  <2>2. PICK i \in DOMAIN C : s = C[i]
    BY DEF ToSet
  <2>3. PICK k \in DOMAIN F : LooksAs(F[k], C[i])
    BY <2>2
  <2>4. look(F[k]) = chart(s) /\ Opacity(F[k]) > 0
    BY <1>3, <2>1, <2>2, <2>3
  <2>5. F[k] \in ToSet(F)
    BY DEF ToSet
  <2>. QED
    BY <1>1, <2>1, <2>4, <2>5
<1>. QED
  BY <1>4, <1>5

\* A transition begins with the picture it starts from and ends with the one
\* it goes to, and can be interrupted in between.
IsBetween(q, S, D) ==
  /\ Seen(FrameOf(q, 0)) = SeenChart(S)
  /\ Seen(FrameOf(q, Full)) = SeenChart(D)
  /\ \A e \in 0 .. Full : Snapshot(FrameOf(q, e)) \in Seq(States)

\* The plan of build_plan is such a transition, whatever the two charts are.
LEMMA PlanIsBetween ==
  ASSUME NEW S \in Seq(States), NEW D \in Seq(States), NEW n
  PROVE  IsBetween(Plan(S, D, n), S, D)
<1>. DEFINE q == Plan(S, D, n)
            M == q.morphs
            a == q.anchor
<1>1. /\ \E m \in Nat : DOMAIN M = 1 .. m
      /\ \A k \in DOMAIN M : IsMorph(M[k], S, D)
      /\ \A i \in 1 .. Len(S) : \E k \in DOMAIN M : M[k].source = <<S[i]>>
      /\ \A j \in 1 .. Len(D) : \E k \in DOMAIN M : M[k].destination = <<D[j]>>
  <2>1. AreMorphs(M, S, D)
    BY PlanMorphs
  <2>. HIDE DEF M
  <2>. QED
    BY <2>1 DEF AreMorphs
<1>2. IsAnchor(a)
  BY PlanAnchor
<1>. HIDE DEF q
<1>4. \A e : /\ DOMAIN FrameOf(q, e) = DOMAIN M
             /\ \A k \in DOMAIN M : FrameOf(q, e)[k] = DrawnMorph(M[k], a, e)
  BY DEF FrameOf
<1>. HIDE DEF M, a
<1>5. DOMAIN S = 1 .. Len(S) /\ DOMAIN D = 1 .. Len(D)
  OBVIOUS
<1>6. ASSUME NEW k \in DOMAIN M
      PROVE  /\ \A e \in 0 .. Full : Shot(DrawnMorph(M[k], a, e)) \in States
             /\ M[k].source = <<>> => Opacity(DrawnMorph(M[k], a, 0)) = 0
             /\ \A i \in 1 .. Len(S) :
                  M[k].source = <<S[i]>> => LooksAs(DrawnMorph(M[k], a, 0), S[i])
             /\ M[k].destination = <<>> => Opacity(DrawnMorph(M[k], a, Full)) = 0
             /\ \A j \in 1 .. Len(D) :
                  M[k].destination = <<D[j]>> => LooksAs(DrawnMorph(M[k], a, Full), D[j])
  <2>1. IsMorph(M[k], S, D)
    BY <1>1
  <2>. QED
    BY <1>2, <2>1, DrawnFacts
<1>7. Seen(FrameOf(q, 0)) = SeenChart(S)
  <2>. DEFINE F == FrameOf(q, 0)
  <2>1. ASSUME NEW k \in DOMAIN F
        PROVE  Opacity(F[k]) = 0 \/ \E i \in DOMAIN S : LooksAs(F[k], S[i])
    <3>1. k \in DOMAIN M /\ F[k] = DrawnMorph(M[k], a, 0)
      BY <1>4, <2>1
    <3>2. M[k].source = <<>> \/ \E i \in 1 .. Len(S) : M[k].source = <<S[i]>>
      BY <1>1, <3>1 DEF IsMorph
    <3>. HIDE DEF F
    <3>. QED
      BY <1>5, <1>6, <3>1, <3>2
  <2>2. ASSUME NEW i \in DOMAIN S PROVE \E k \in DOMAIN F : LooksAs(F[k], S[i])
    <3>1. PICK k \in DOMAIN M : M[k].source = <<S[i]>>
      BY <1>1, <1>5, <2>2
    <3>2. k \in DOMAIN F /\ F[k] = DrawnMorph(M[k], a, 0)
      BY <1>4, <3>1
    <3>. HIDE DEF F
    <3>. QED
      BY <1>5, <1>6, <3>1, <3>2
  <2>. HIDE DEF F
  <2>3. Seen(F) = SeenChart(S)
    BY <2>1, <2>2, SameSeen
  <2>. QED
    BY <2>3 DEF F
<1>8. Seen(FrameOf(q, Full)) = SeenChart(D)
  <2>. DEFINE F == FrameOf(q, Full)
  <2>1. ASSUME NEW k \in DOMAIN F
        PROVE  Opacity(F[k]) = 0 \/ \E j \in DOMAIN D : LooksAs(F[k], D[j])
    <3>1. k \in DOMAIN M /\ F[k] = DrawnMorph(M[k], a, Full)
      BY <1>4, <2>1
    <3>2. M[k].destination = <<>> \/ \E j \in 1 .. Len(D) : M[k].destination = <<D[j]>>
      BY <1>1, <3>1 DEF IsMorph
    <3>. HIDE DEF F
    <3>. QED
      BY <1>5, <1>6, <3>1, <3>2
  <2>2. ASSUME NEW j \in DOMAIN D PROVE \E k \in DOMAIN F : LooksAs(F[k], D[j])
    <3>1. PICK k \in DOMAIN M : M[k].destination = <<D[j]>>
      BY <1>1, <1>5, <2>2
    <3>2. k \in DOMAIN F /\ F[k] = DrawnMorph(M[k], a, Full)
      BY <1>4, <3>1
    <3>. HIDE DEF F
    <3>. QED
      BY <1>5, <1>6, <3>1, <3>2
  <2>. HIDE DEF F
  <2>3. Seen(F) = SeenChart(D)
    BY <2>1, <2>2, SameSeen
  <2>. QED
    BY <2>3 DEF F
<1>9. ASSUME NEW e \in 0 .. Full PROVE Snapshot(FrameOf(q, e)) \in Seq(States)
  <2>. DEFINE F == FrameOf(q, e)
  <2>1. Snapshot(F) = [k \in DOMAIN F |-> Shot(F[k])]
    BY DEF Snapshot, Shot
  <2>2. DOMAIN F = DOMAIN M /\ \A k \in DOMAIN M : F[k] = DrawnMorph(M[k], a, e)
    BY <1>4
  <2>3. PICK m \in Nat : DOMAIN M = 1 .. m
    BY <1>1
  <2>. HIDE DEF F
  <2>4. Snapshot(F) \in [1 .. m -> States]
    BY <1>6, <2>1, <2>2, <2>3
  <2>5. Snapshot(F) \in Seq(States)
    BY <2>3, <2>4, NumberedSeq
  <2>. QED
    BY <2>5 DEF F
<1>. QED
  BY <1>7, <1>8, <1>9 DEF IsBetween, q

\* A snapshot looks as its frame does.
LEMMA SnapshotLooks ==
  ASSUME NEW F
  PROVE  SeenChart(Snapshot(F)) = Seen(F)
<1>1. /\ DOMAIN Snapshot(F) = DOMAIN F
      /\ \A k \in DOMAIN F : LooksAs(F[k], Snapshot(F)[k])
  BY DEF Snapshot, LooksAs
<1>. QED
  BY <1>1, SameSeen

\* A size is a number of bytes, whatever the files of the scan come to.
LEMMA SizeIsNat ==
  ASSUME NEW t \in Trees, NEW x, NEW n
  PROVE  EffectiveSize(t, x, n) \in Nat
<1>1. MaxBytes \in Nat
  BY TreesAssumption
<1>2. \A S : SaturatedBytes(t, S) \in 0 .. MaxBytes
  BY <1>1 DEF SaturatedBytes
<1>3. Reduction(t, x, n) \in 0 .. MaxBytes
  BY <1>2 DEF Reduction
<1>4. CASE IsVisible(t, x, n) /\ Reduction(t, x, n) < Bytes[t][n]
  <2>1. Bytes[t][n] \in Nat
    BY <1>4, TreeIsFinite DEF IsVisible
  <2>2. EffectiveSize(t, x, n) = Bytes[t][n] - Reduction(t, x, n)
    BY <1>4 DEF EffectiveSize
  <2>. QED
    BY <1>1, <1>3, <1>4, <2>1, <2>2
<1>5. CASE ~(IsVisible(t, x, n) /\ Reduction(t, x, n) < Bytes[t][n])
  BY <1>5 DEF EffectiveSize
<1>. QED
  BY <1>4, <1>5

\* The angles of wide arcs are whole numbers.
LEMMA StartsAreInt ==
  ASSUME NEW C, NEW sweep, \A c \in C : sweep[c] \in Int,
         NEW single, IsSingle(single, C, sweep)
  PROVE  \A k \in 0 .. Len(single) : Upto(Along(sweep, single), k) \in Nat
<1>. DEFINE L == Len(single)
            f == Along(sweep, single)
<1>1. L \in Nat /\ DOMAIN single = 1 .. L
  BY DEF IsSingle
<1>2. IsFiniteSet(1 .. L)
  BY <1>1, FirstNumbers
<1>3. MinSweep \in Nat
  BY LayoutAssumption
<1>4. ASSUME NEW k \in 1 .. L PROVE f[k] \in Nat
  <2>1. single[k] \in C /\ sweep[single[k]] >= MinSweep
    BY DEF IsSingle
  <2>2. sweep[single[k]] \in Int
    BY <2>1
  <2>3. f[k] = sweep[single[k]]
    BY <1>1 DEF Along
  <2>. QED
    BY <1>3, <2>1, <2>2, <2>3
<1>5. Summable(f, 1 .. L)
  BY <1>2, <1>4 DEF Summable
<1>. HIDE DEF f
<1>6. ASSUME NEW k \in 0 .. L PROVE Upto(f, k) \in Nat
  <2>1. 1 .. k \in SUBSET (1 .. L)
    BY <1>1
  <2>. QED
    BY <1>5, <2>1, SumFacts DEF Upto
<1>. QED
  BY <1>6 DEF f

\* The arcs of some children, in their types.
LEMMA ChildArcsTyped ==
  ASSUME NEW t \in Trees, NEW w \in Works(t), NEW C \in SUBSET Nodes(t),
         NEW counted, IsListing(counted, C), ToSet(counted) = C,
         NEW size, Summable(size, C),
         NEW sweep, \A c \in C : sweep[c] \in Int, NEW remaining \in Nat \ {0}
  PROVE  ArcsOfChildren(w, counted, size, sweep, remaining) \in Seq(Arcs(Nodes(t)))
<1>. DEFINE single == SingleOf(counted, sweep, remaining)
            L == Len(single)
            others == C \ ToSet(single)
            sum == SumFunctionOnSet(size, others)
            rest == Saturated(sum)
            start(k) == w.from + SumFunctionOnSet([j \in DOMAIN single |-> sweep[single[j]]], 1 .. k - 1)
            arc(k) == [node |-> single[k], aggregate |-> FALSE, depth |-> w.depth,
                    from |-> start(k), to |-> start(k + 1), bytes |-> size[single[k]]]
            restArc == [node |-> w.node, aggregate |-> TRUE, depth |-> w.depth,
                    from |-> start(L + 1), to |-> w.to, bytes |-> rest]
            own == [k \in DOMAIN single |-> arc(k)]
            ring == ArcsOfChildren(w, counted, size, sweep, remaining)
<1>1. IsSingle(single, C, sweep)
  BY SingleFacts
<1>. HIDE DEF single
<1>2. L \in Nat /\ DOMAIN single = 1 .. L /\ \A k \in 1 .. L : single[k] \in C
  BY <1>1 DEF IsSingle
<1>3. ring = own \o (IF rest > 0 THEN <<restArc>> ELSE <<>>)
  BY DEF ArcsOfChildren, SingleOf, WideOf, single
<1>4. w.node \in Nodes(t) /\ w.depth \in Nat /\ w.from \in Int /\ w.to \in Int
  BY TreeFacts DEF Works
<1>5. \A k \in 0 .. L : Upto(Along(sweep, single), k) \in Nat
  BY <1>1, StartsAreInt
<1>6. ASSUME NEW k \in 1 .. L + 1 PROVE start(k) \in Int
  <2>1. k - 1 \in 0 .. L
    BY <1>2
  <2>2. start(k) = w.from + Upto(Along(sweep, single), k - 1)
    BY DEF Upto, Along
  <2>. HIDE DEF start
  <2>. QED
    BY <1>4, <1>5, <2>1, <2>2
<1>7. rest \in Nat
  <2>1. others \in SUBSET C
    OBVIOUS
  <2>2. sum \in Nat
    BY <2>1, SumFacts
  <2>. HIDE DEF sum
  <2>. QED
    BY <2>2, TreesAssumption DEF Saturated
<1>8. ASSUME NEW k \in 1 .. L PROVE arc(k) \in Arcs(Nodes(t))
  <2>1. single[k] \in Nodes(t) /\ size[single[k]] \in Nat
    BY <1>2 DEF Summable
  <2>2. start(k) \in Int /\ start(k + 1) \in Int
    <3>1. k \in 1 .. L + 1 /\ k + 1 \in 1 .. L + 1
      BY <1>2
    <3>. HIDE DEF start
    <3>. QED
      BY <1>6, <3>1
  <2>. HIDE DEF start
  <2>. QED
    BY <1>4, <2>1, <2>2 DEF Arcs
<1>9. restArc \in Arcs(Nodes(t))
  <2>1. start(L + 1) \in Int
    <3>1. L + 1 \in 1 .. L + 1
      BY <1>2
    <3>. HIDE DEF start
    <3>. QED
      BY <1>6, <3>1
  <2>. HIDE DEF start, rest
  <2>. QED
    BY <1>4, <1>7, <2>1 DEF Arcs
<1>10. own \in Seq(Arcs(Nodes(t)))
  <2>1. own \in [1 .. L -> Arcs(Nodes(t))]
    <3>. HIDE DEF arc
    <3>. QED
      BY <1>2, <1>8
  <2>. HIDE DEF own
  <2>. QED
    BY <1>2, <2>1, NumberedSeq
<1>. HIDE DEF own, restArc, rest, arc, start
<1>11. <<restArc>> \in Seq(Arcs(Nodes(t))) /\ <<>> \in Seq(Arcs(Nodes(t)))
  BY <1>9
<1>12. CASE rest > 0
  <2>. DEFINE last == <<restArc>>
  <2>1. ring = own \o last /\ last \in Seq(Arcs(Nodes(t)))
    BY <1>3, <1>11, <1>12
  <2>. HIDE DEF last, ring
  <2>2. ring \in Seq(Arcs(Nodes(t)))
    BY <1>10, <2>1, Joined
  <2>. QED
    BY <2>2 DEF ring
<1>13. CASE ~(rest > 0)
  <2>1. ring = own \o <<>>
    BY <1>3, <1>13
  <2>2. ring = own
    BY <1>10, <2>1, ConcatEmptySeq
  <2>. QED
    BY <1>10, <2>2
<1>. QED
  BY <1>12, <1>13

\* The ring of a folder, in its type.
LEMMA RingTyped ==
  ASSUME NEW t \in Trees, NEW x, NEW w \in Works(t), NEW remaining \in Nat \ {0}
  PROVE  Ring(t, x, w, remaining) \in Seq(Arcs(Nodes(t)))
<1>. DEFINE total == EffectiveSize(t, x, w.node)
            counted == CountedChildren(t, x, w.node)
            C == CountedIn(t, x, w.node)
            size == SizesOf(t, x, C)
            sweep == [c \in C |-> Share(size[c], w.to - w.from, total)]
            raw == Ring(t, x, w, remaining)
<1>1. CASE total = 0
  <2>1. raw = <<>>
    BY <1>1 DEF Ring
  <2>. QED
    BY <2>1
<1>2. CASE total # 0
  <2>1. IsListing(counted, C) /\ ToSet(counted) = C
    BY CountedListing
  <2>2. raw = ArcsOfChildren(w, counted, size, sweep, remaining)
    <3>1. size = [c \in ToSet(counted) |-> EffectiveSize(t, x, c)] /\ DOMAIN size = C
      BY <2>1 DEF SizesOf
    <3>2. sweep = [c \in DOMAIN size |-> Share(size[c], w.to - w.from, total)]
      BY <3>1
    <3>. HIDE DEF size, sweep
    <3>. QED
      BY <1>2, <3>1, <3>2 DEF Ring
  <2>3. C \in SUBSET Nodes(t) /\ IsFiniteSet(C)
    <3>1. C \in SUBSET Nodes(t)
      BY DEF CountedIn
    <3>. QED
      BY <3>1, TreeIsFinite, FS_Subset
  <2>4. total \in Nat \ {0}
    BY <1>2, SizeIsNat
  <2>5. \A c \in C : size[c] \in Nat
    BY SizeIsNat DEF SizesOf
  <2>6. Summable(size, C)
    BY <2>3, <2>5 DEF Summable
  <2>7. w.to - w.from \in Int
    BY DEF Works
  <2>8. \A c \in C : sweep[c] \in Int
    <3>1. \A b \in Nat, v \in Int, s \in Nat \ {0} : Share(b, v, s) \in Int
      BY DEF Share
    <3>. HIDE DEF size, total, C
    <3>. QED
      BY <2>4, <2>5, <2>7, <3>1
  <2>. HIDE DEF size, C, sweep, total, counted, raw
  <2>9. raw \in Seq(Arcs(Nodes(t)))
    BY <2>1, <2>2, <2>3, <2>6, <2>8, ChildArcsTyped
  <2>. QED
    BY <2>9 DEF raw
<1>. QED
  BY <1>1, <1>2

\* The folders of a ring, in their type.
LEMMA FoldersTyped ==
  ASSUME NEW t \in Trees, NEW ring \in Seq(Arcs(Nodes(t)))
  PROVE  FoldersOf(t, ring) \in Seq(Works(t))
<1>. DEFINE I == {k \in DOMAIN ring : /\ ~ring[k].aggregate /\ ring[k].node \in Directory[t]
                                      /\ ring[k].depth + 1 < MaxDepth}
            folders == MembersAt(ring, I)
            F == FoldersOf(t, ring)
            at == Ascending(I)
            m == Cardinality(I)
<1>1. DOMAIN ring = 1 .. Len(ring)
  OBVIOUS
<1>2. I \in SUBSET DOMAIN ring /\ I \in SUBSET Int
  BY <1>1
<1>3. IsFiniteSet(I) /\ m \in Nat
  <2>. HIDE DEF I
  <2>1. IsFiniteSet(I)
    BY <1>1, <1>2, MembersAtSeq
  <2>. QED
    BY <2>1, FS_CardinalityType
<1>4. at \in [1 .. m -> I]
  <2>. HIDE DEF I
  <2>. QED
    BY <1>2, <1>3, AscendingFacts
<1>5. F = [k \in 1 .. m |->
             [node |-> ring[at[k]].node, depth |-> ring[at[k]].depth + 1,
              from |-> ring[at[k]].from, to |-> ring[at[k]].to]]
  <2>1. folders = [k \in 1 .. m |-> ring[at[k]]]
    BY DEF MembersAt
  <2>2. F = [k \in DOMAIN folders |->
         [node |-> folders[k].node, depth |-> folders[k].depth + 1,
          from |-> folders[k].from, to |-> folders[k].to]]
    BY DEF FoldersOf
  <2>. HIDE DEF folders, F, at, m
  <2>. QED
    BY <2>1, <2>2
<1>6. ASSUME NEW k \in 1 .. m
      PROVE  [node |-> ring[at[k]].node, depth |-> ring[at[k]].depth + 1,
              from |-> ring[at[k]].from, to |-> ring[at[k]].to] \in Works(t)
  <2>1. at[k] \in I
    BY <1>4
  <2>2. at[k] \in DOMAIN ring /\ ring[at[k]].node \in Directory[t]
    BY <2>1
  <2>. HIDE DEF at, m, I
  <2>3. ring[at[k]] \in Arcs(Nodes(t))
    BY <2>2
  <2>. QED
    BY <2>2, <2>3, SMTT(30) DEF Arcs, Works
<1>7. F \in [1 .. m -> Works(t)]
  <2>. HIDE DEF at, m, F
  <2>. QED
    BY <1>5, <1>6
<1>. QED
  BY <1>3, <1>7, NumberedSeq

Dones(t) == [arcs : Seq(Arcs(Nodes(t))), work : Seq(Works(t))]

\* A round keeps the types.
LEMMA RoundTyped ==
  ASSUME NEW t \in Trees, NEW x, NEW done \in Dones(t), NEW k \in Nat \ {0}
  PROVE  Round(t, x, done, k) \in Dones(t)
<1>1. done.arcs \in Seq(Arcs(Nodes(t))) /\ done.work \in Seq(Works(t))
  BY DEF Dones
<1>2. Len(done.arcs) \in Nat /\ Len(done.work) \in Nat /\ MaxSegments \in Nat
  BY <1>1, LayoutAssumption
<1>3. CASE k > Len(done.work) \/ Len(done.arcs) >= MaxSegments
  BY <1>3 DEF Round
<1>4. CASE ~(k > Len(done.work) \/ Len(done.arcs) >= MaxSegments)
  <2>. DEFINE w == done.work[k]
              remaining == MaxSegments - Len(done.arcs)
              ring == Ring(t, x, w, remaining)
              g == Closed(ring, w.to)
              F == FoldersOf(t, ring)
  <2>1. w \in Works(t)
    BY <1>1, <1>2, <1>4
  <2>2. remaining \in Nat \ {0}
    BY <1>2, <1>4
  <2>3. Round(t, x, done, k) = [arcs |-> done.arcs \o g, work |-> done.work \o F]
    BY <1>4 DEF Round, WithRing, PushedBack
  <2>. HIDE DEF w, remaining
  <2>4. ring \in Seq(Arcs(Nodes(t)))
    BY <2>1, <2>2, RingTyped
  <2>5. w.to \in Int
    BY <2>1 DEF Works
  <2>. HIDE DEF ring
  <2>6. g \in Seq(Arcs(Nodes(t)))
    BY <2>4, <2>5, ClosedFacts
  <2>7. F \in Seq(Works(t))
    BY <2>4, FoldersTyped
  <2>. HIDE DEF g, F
  <2>8. done.arcs \o g \in Seq(Arcs(Nodes(t)))
    BY <1>1, <2>6, Joined
  <2>9. done.work \o F \in Seq(Works(t))
    BY <1>1, <2>7, Joined
  <2>. QED
    BY <2>3, <2>8, <2>9 DEF Dones
<1>. QED
  BY <1>3, <1>4

\* The arcs of a chart, in their type, whatever the files of the scan come to.
LEMMA ArcsTyped ==
  ASSUME NEW t \in Trees, NEW x, NEW start \in Directory[t]
  PROVE  ArcsOf(t, x, start) \in Seq(Arcs(Nodes(t)))
<1>. DEFINE n == Cardinality(Directory[t])
            f == Rounds(t, x, start)
<1>1. n \in Nat
  <2>1. IsFiniteSet(Directory[t])
    BY TreeFacts, TreeIsFinite, FS_Subset
  <2>. QED
    BY <2>1, FS_CardinalityType
<1>2. f = [k \in 0 .. n |-> IF k = 0 THEN NothingDone(start) ELSE Round(t, x, f[k - 1], k)]
  BY <1>1, RoundsAre DEF AreRounds
<1>. DEFINE Good == {k \in Nat : k <= n => f[k] \in Dones(t)}
<1>. HIDE DEF n, f
<1>3. 0 \in Good
  <2>1. 0 \in 0 .. n
    BY <1>1
  <2>2. f[0] = NothingDone(start)
    BY <1>2, <2>1
  <2>3. FirstWork(start) \in Works(t)
    BY LayoutAssumption DEF FirstWork, Works
  <2>4. NothingDone(start) \in Dones(t)
    <3>1. <<FirstWork(start)>> \in Seq(Works(t)) /\ <<>> \in Seq(Arcs(Nodes(t)))
      BY <2>3
    <3>. QED
      BY <3>1 DEF NothingDone, Dones
  <2>. QED
    BY <2>2, <2>4
<1>4. ASSUME NEW k \in Good PROVE k + 1 \in Good
  <2>. SUFFICES ASSUME k + 1 <= n PROVE f[k + 1] \in Dones(t)
    OBVIOUS
  <2>1. k \in Nat /\ k + 1 \in 0 .. n /\ k + 1 # 0 /\ (k + 1) - 1 = k /\ k <= n
    BY <1>1
  <2>2. f[k + 1] = Round(t, x, f[k], k + 1)
    BY <1>2, <2>1
  <2>3. f[k] \in Dones(t) /\ k + 1 \in Nat \ {0}
    BY <2>1
  <2>. QED
    BY <2>2, <2>3, RoundTyped
<1>5. f[n] \in Dones(t)
  <2>1. Good \in SUBSET Nat
    OBVIOUS
  <2>2. n \in Good
    <3>. HIDE DEF Good
    <3>1. Good = Nat
      BY <1>3, <1>4, <2>1, AllNumbers
    <3>. QED
      BY <1>1, <3>1
  <2>. QED
    BY <1>1, <2>2
<1>6. ArcsOf(t, x, start) = <<>> \/ ArcsOf(t, x, start) = f[n].arcs
  BY DEF ArcsOf, f, n
<1>7. f[n].arcs \in Seq(Arcs(Nodes(t)))
  BY <1>5 DEF Dones
<1>8. <<>> \in Seq(Arcs(Nodes(t)))
  OBVIOUS
<1>. QED
  BY <1>6, <1>7, <1>8

\* The greatest of finitely many numbers.
LEMMA MaxOfSome ==
  ASSUME NEW I \in SUBSET Nat, IsFiniteSet(I), I # {}
  PROVE  Max(I) \in I /\ \A y \in I : y <= Max(I)
<1>. DEFINE n == Cardinality(I)
            s == Ascending(I)
<1>1. I \in SUBSET Int
  OBVIOUS
<1>2. /\ n \in Nat /\ s \in [1 .. n -> I]
      /\ \A a \in I : \E k \in 1 .. n : s[k] = a
      /\ \A k, j \in 1 .. n : k < j <=> s[k] < s[j]
  BY <1>1, AscendingFacts
<1>. HIDE DEF n, s
<1>3. n \in 1 .. n
  <2>1. PICK a \in I : TRUE
    OBVIOUS
  <2>2. PICK k \in 1 .. n : s[k] = a
    BY <1>2
  <2>. QED
    BY <1>2, <2>2
<1>4. s[n] \in I
  BY <1>2, <1>3
<1>5. ASSUME NEW y \in I PROVE y <= s[n]
  <2>1. PICK k \in 1 .. n : s[k] = y
    BY <1>2
  <2>2. ~(n < k)
    BY <1>2
  <2>3. ~(s[n] < s[k])
    BY <1>2, <1>3, <2>2
  <2>4. s[n] \in Nat /\ y \in Nat
    BY <1>4
  <2>. QED
    BY <2>1, <2>3, <2>4
<1>6. \E x \in I : \A y \in I : x >= y
  BY <1>4, <1>5
<1>. QED
  BY <1>6 DEF Max

\* A chart, as a transition takes it.
LEMMA StatesTyped ==
  ASSUME NEW chart \in Seq(Arcs(Nodes(scan)))
  PROVE  PolarStates(chart) \in Seq(States)
<1>. DEFINE n == Len(chart)
            depths == {chart[k].depth : k \in DOMAIN chart}
            w == Radius \div Rings(chart)
<1>1. n \in Nat /\ DOMAIN chart = 1 .. n
  OBVIOUS
<1>2. ASSUME NEW k \in 1 .. n
      PROVE  /\ chart[k].node \in Nodes(scan) /\ chart[k].aggregate \in BOOLEAN
             /\ chart[k].depth \in Nat /\ chart[k].from \in Int /\ chart[k].to \in Int
  <2>1. chart[k] \in Arcs(Nodes(scan))
    BY <1>1
  <2>. QED
    BY <2>1 DEF Arcs
<1>3. n # 0 => w \in Int
  <2>. SUFFICES ASSUME n # 0 PROVE w \in Int
    OBVIOUS
  <2>1. 1 \in DOMAIN chart
    BY <1>1
  <2>2. depths \in SUBSET Nat /\ depths # {}
    BY <1>1, <1>2, <2>1
  <2>3. IsFiniteSet(depths)
    <3>1. IsFiniteSet(1 .. n)
      BY <1>1, FirstNumbers
    <3>2. depths = {chart[k].depth : k \in 1 .. n}
      BY <1>1
    <3>. DEFINE f == [k \in 1 .. n |-> chart[k].depth]
    <3>3. depths = {f[k] : k \in 1 .. n}
      BY <3>2
    <3>. HIDE DEF depths, n
    <3>4. f \in Surjection(1 .. n, depths)
      BY <3>2 DEF Surjection
    <3>. QED
      BY <3>1, <3>4, FS_Surjection
  <2>. HIDE DEF depths
  <2>4. Max(depths) \in Nat
    BY <2>2, <2>3, MaxOfSome
  <2>5. chart # <<>>
    BY <2>1
  <2>6. Rings(chart) = 1 + Max(depths)
    BY <2>5 DEF Rings, depths
  <2>7. Rings(chart) \in Nat \ {0}
    BY <2>4, <2>6
  <2>. QED
    BY <2>7, TransitionAssumption
<1>. DEFINE S == PolarStates(chart)
<1>4. S = [k \in 1 .. n |->
             [node |-> chart[k].node, aggregate |-> chart[k].aggregate, depth |-> chart[k].depth,
              from |-> chart[k].from, to |-> chart[k].to,
              inner |-> chart[k].depth * w, opacity |-> Full]]
  BY <1>1 DEF PolarStates
<1>. HIDE DEF w
<1>5. ASSUME NEW k \in 1 .. n
      PROVE  [node |-> chart[k].node, aggregate |-> chart[k].aggregate, depth |-> chart[k].depth,
              from |-> chart[k].from, to |-> chart[k].to,
              inner |-> chart[k].depth * w, opacity |-> Full] \in States
  <2>1. Full \in 0 .. Full
    BY TransitionAssumption
  <2>2. chart[k].depth * w \in Int
    BY <1>1, <1>2, <1>3
  <2>. HIDE DEF n
  <2>. QED
    BY <1>2, <2>1, <2>2 DEF States
<1>6. S \in [1 .. n -> States]
  <2>. HIDE DEF S, n
  <2>. QED
    BY <1>4, <1>5
<1>. QED
  BY <1>1, <1>6, NumberedSeq

\* The transition under way goes to the chart that is there.
MoveInv ==
  /\ turns \in Nat
  /\ progress \in 0 .. Full - 1
  /\ \/ plan = NoPlan
     \/ turns >= 1 /\ \E S \in Seq(States) : IsBetween(plan, S, PolarStates(arcs))

\* The chart that is there is typed.
LEMMA ChartTyped == PlaceInv => PolarStates(arcs) \in Seq(States)
<1>. SUFFICES ASSUME PlaceInv PROVE PolarStates(arcs) \in Seq(States)
  OBVIOUS
<1>1. scan \in Trees /\ root \in Directory[scan] /\ arcs = ArcsOf(scan, review, root)
  BY ScanIsTree DEF PlaceInv
<1>2. arcs \in Seq(Arcs(Nodes(scan)))
  BY <1>1, ArcsTyped
<1>. QED
  BY <1>2, StatesTyped

\* What a transition starts from, and what is to be seen then.
LEMMA DisplayFacts ==
  ASSUME PlaceInv, MoveInv, NEW e \in progress .. Full
  PROVE  /\ OnDisplay(e) \in Seq(States)
         /\ Active => turns >= 1
         /\ Active /\ e < Full => /\ e \in progress .. Full - 1
                                  /\ SeenChart(OnDisplay(e)) = Seen(FrameOf(plan, e))
         /\ ~(Active /\ e < Full) => OnDisplay(e) = PolarStates(arcs)
<1>1. e \in 0 .. Full /\ (e < Full => e \in progress .. Full - 1)
  BY TransitionAssumption DEF MoveInv
<1>2. Active => plan # NoPlan
  BY DEF Active, NoPlan
<1>3. CASE Active /\ e < Full
  <2>1. PICK S \in Seq(States) : IsBetween(plan, S, PolarStates(arcs))
    BY <1>2, <1>3 DEF MoveInv
  <2>2. OnDisplay(e) = Snapshot(FrameOf(plan, e))
    BY <1>3 DEF OnDisplay
  <2>3. Snapshot(FrameOf(plan, e)) \in Seq(States)
    BY <1>1, <2>1 DEF IsBetween
  <2>4. SeenChart(Snapshot(FrameOf(plan, e))) = Seen(FrameOf(plan, e))
    BY SnapshotLooks
  <2>5. turns >= 1
    BY <1>2, <1>3 DEF MoveInv
  <2>. QED
    BY <1>1, <1>3, <2>2, <2>3, <2>4, <2>5
<1>4. CASE ~(Active /\ e < Full)
  <2>1. OnDisplay(e) = PolarStates(arcs)
    BY <1>4 DEF OnDisplay
  <2>2. Active => turns >= 1
    BY <1>2 DEF MoveInv
  <2>. QED
    BY <1>4, <2>1, <2>2, ChartTyped
<1>. QED
  BY <1>3, <1>4

\* A transition that is begun goes from what is on display to the chart that
\* is there then.
LEMMA TurnsWell ==
  ASSUME PlaceInv, MoveInv, PlaceInv', NEW n, TurnedTo(n)
  PROVE  /\ MoveInv'
         /\ IF turns' = 1 THEN Seen(FrameOf(plan', 0)) = SeenChart(PolarStates(arcs))
            ELSE \E e \in progress .. Full - 1 :
                   Seen(FrameOf(plan', 0)) = Seen(FrameOf(plan, e))
<1>1. PICK e \in progress .. Full :
        /\ plan' = Plan(OnDisplay(e), PolarStates(arcs'), n)
        /\ progress' = 0
        /\ turns' = IF Active /\ e < Full THEN turns + 1 ELSE 1
  BY DEF TurnedTo
<1>2. /\ OnDisplay(e) \in Seq(States)
      /\ Active => turns >= 1
      /\ Active /\ e < Full => /\ e \in progress .. Full - 1
                               /\ SeenChart(OnDisplay(e)) = Seen(FrameOf(plan, e))
      /\ ~(Active /\ e < Full) => OnDisplay(e) = PolarStates(arcs)
  BY DisplayFacts
<1>3. PolarStates(arcs') \in Seq(States)
  <2>1. scan \in Trees /\ root' \in Directory[scan] /\ arcs' = ArcsOf(scan, review', root')
    BY ScanIsTree DEF PlaceInv
  <2>2. arcs' \in Seq(Arcs(Nodes(scan)))
    BY <2>1, ArcsTyped
  <2>. QED
    BY <2>2, StatesTyped
<1>. DEFINE S == OnDisplay(e)
            D == PolarStates(arcs')
<1>4. IsBetween(plan', S, D)
  <2>1. S \in Seq(States) /\ D \in Seq(States) /\ plan' = Plan(S, D, n)
    BY <1>1, <1>2, <1>3
  <2>. HIDE DEF S, D
  <2>. QED
    BY <2>1, PlanIsBetween
<1>5. Seen(FrameOf(plan', 0)) = SeenChart(S)
  BY <1>4 DEF IsBetween
<1>6. turns \in Nat
  BY DEF MoveInv
<1>7. turns' \in Nat /\ turns' >= 1
  BY <1>1, <1>2, <1>6
<1>8. MoveInv'
  <2>1. progress' \in 0 .. Full - 1
    BY <1>1, TransitionAssumption
  <2>2. \E s \in Seq(States) : IsBetween(plan', s, D)
    BY <1>2, <1>4
  <2>. QED
    BY <1>7, <2>1, <2>2 DEF MoveInv
<1>9. CASE Active /\ e < Full
  <2>1. turns' # 1
    BY <1>1, <1>2, <1>6, <1>9
  <2>. QED
    BY <1>2, <1>5, <1>8, <1>9, <2>1
<1>10. CASE ~(Active /\ e < Full)
  <2>1. turns' = 1 /\ S = PolarStates(arcs)
    BY <1>1, <1>2, <1>10
  <2>. QED
    BY <1>5, <1>8, <2>1
<1>. QED
  BY <1>9, <1>10

\* A step begins a transition, ends the one under way or leaves it.
LEMMA StepsOfPlan ==
  ASSUME PlaceInv, MoveInv, PlaceInv', [Next]_vars
  PROVE  \/ \E n : TurnedTo(n)
         \/ Cancelled
         \/ UNCHANGED <<arcs, plan, turns>> /\ progress' \in 0 .. Full - 1
<1>1. ASSUME NEW n \in Nodes(scan), NavigateToRoot(n)
      PROVE  (\E m : TurnedTo(m)) \/ Cancelled
  BY <1>1 DEF NavigateToRoot
<1>2. ASSUME NEW reviewed, Reflow(reviewed)
      PROVE  (\E m : TurnedTo(m)) \/ Cancelled
  BY <1>2 DEF Reflow
<1>3. ASSUME NEW n, RestoreReviewItem(n) \/ AddToReview(n)
      PROVE  (\E m : TurnedTo(m)) \/ Cancelled
  BY <1>2, <1>3 DEF RestoreReviewItem, AddToReview
<1>4. progress \in 0 .. Full - 1 /\ Full \in Nat
  BY TransitionAssumption DEF MoveInv
<1>5. ASSUME AdvanceTransition
      PROVE  Cancelled \/ (UNCHANGED <<arcs, plan, turns>> /\ progress' \in 0 .. Full - 1)
  BY <1>4, <1>5 DEF AdvanceTransition
<1>6. ASSUME NEW r, Resize(r) PROVE Cancelled
  BY <1>6 DEF Resize
<1>7. CancelTransition => Cancelled
  BY DEF CancelTransition
<1>8. Draw \/ UNCHANGED vars => UNCHANGED <<arcs, plan, turns, progress>>
  BY DEF Draw, vars, chartVars
<1>. QED
  BY <1>1, <1>3, <1>4, <1>5, <1>6, <1>7, <1>8 DEF Next

\* No transition is active at the start.
LEMMA InitMove == Init => MoveInv
BY TransitionAssumption DEF Init, MoveInv

\* Each step that changes the chart begins a transition to it or cancels.
LEMMA NextKeepsMove == PlaceInv /\ MoveInv /\ PlaceInv' /\ [Next]_vars => MoveInv'
<1>. SUFFICES ASSUME PlaceInv, MoveInv, PlaceInv', [Next]_vars PROVE MoveInv'
  OBVIOUS
<1>1. CASE \E n : TurnedTo(n)
  BY <1>1, TurnsWell
<1>2. CASE Cancelled
  BY <1>2, TransitionAssumption DEF Cancelled, MoveInv
<1>3. CASE UNCHANGED <<arcs, plan, turns>> /\ progress' \in 0 .. Full - 1
  BY <1>3 DEF MoveInv
<1>. QED
  BY <1>1, <1>2, <1>3, StepsOfPlan

-----------------------------------------------------------------------------
\* What the invariant says of the end of a transition.
LEMMA MoveInvLands == MoveInv => TransitionLands
<1>. SUFFICES ASSUME MoveInv, Active
              PROVE  Seen(FrameOf(plan, Full)) = SeenChart(PolarStates(arcs))
  BY DEF TransitionLands
<1>1. plan # NoPlan
  BY DEF Active, NoPlan
<1>2. PICK S \in Seq(States) : IsBetween(plan, S, PolarStates(arcs))
  BY <1>1 DEF MoveInv
<1>. QED
  BY <1>2 DEF IsBetween

\* A transition (SunburstTransition::build_plan and the frames taken from its
\* plan) ends with the chart that is shown after it, whatever was navigated to,
\* collected, restored or cancelled while it was under way.
THEOREM TransitionsLand == Spec => []TransitionLands
BY InitPlace, InitMove, NextKeepsPlace, NextKeepsMove, MoveInvLands, PTL DEF Spec

\* Whatever interrupts a transition, the next one begins with what is on
\* display (snapshot_transition_frame), and one that begins at rest begins with
\* the chart that is left: no arc jumps.
THEOREM FramesContinue == Spec => FrameContinues
<1>1. PlaceInv /\ MoveInv /\ PlaceInv' /\ [Next]_vars =>
        [plan' # plan /\ plan' # NoPlan =>
           IF turns' = 1 THEN Seen(FrameOf(plan', 0)) = SeenChart(PolarStates(arcs))
           ELSE \E e \in progress .. Full - 1 :
                  Seen(FrameOf(plan', 0)) = Seen(FrameOf(plan, e))]_vars
  <2>. SUFFICES ASSUME PlaceInv, MoveInv, PlaceInv', [Next]_vars,
                       plan' # plan, plan' # NoPlan
       PROVE  IF turns' = 1 THEN Seen(FrameOf(plan', 0)) = SeenChart(PolarStates(arcs))
              ELSE \E e \in progress .. Full - 1 :
                     Seen(FrameOf(plan', 0)) = Seen(FrameOf(plan, e))
    OBVIOUS
  <2>1. ~Cancelled
    BY DEF Cancelled
  <2>2. PICK n : TurnedTo(n)
    BY <2>1, StepsOfPlan
  <2>. QED
    BY <2>2, TurnsWell
<1>. QED
  BY <1>1, InitPlace, InitMove, NextKeepsPlace, NextKeepsMove, PTL DEF Spec, FrameContinues

-----------------------------------------------------------------------------
(***************************************************************************)
(* The window: the target belongs to the buffers on display, and a frame   *)
(* that was presented shows what is to be seen.                            *)
(***************************************************************************)

(* The inductive invariant: the keys of every cache tell the truth.        *)

SettingsMaps == [SettingNames -> Options]

Devices == [window : BOOLEAN, parts : SUBSET Parts, buffers : Nat, target : Nat, begun : 0 .. 2]

OverviewBrushes ==
    [same : BOOLEAN, own : BOOLEAN, key : [TextSettings -> Options], look : SettingsMaps]

\* Transitions: the chart they lead to, where it lies, and the frame they are at.
Moves == [lands : Nat, to : Nat \X Options, frame : Nat]

AnalyzerBrushes ==
    [same : BOOLEAN, own : BOOLEAN, key : SettingsMaps, look : SettingsMaps, valid : BOOLEAN,
     revision : Nat, geometry : Nat \X (Options \cup {0}),
     chart : SUBSET (Nat \X (Nat \X (Options \cup {0}))), frame : SUBSET Moves]

Texts == [valid : BOOLEAN, language : Options, of : Nat]

Widths == [full : BOOLEAN, room : Nat, language : Options, of : Nat, text : Options]

SceneTyped ==
    /\ client \in Nat
    /\ settings \in SettingsMaps
    /\ view \in {"Overview", "Analyzer"}
    /\ revision \in Nat /\ place \in Nat /\ news \in Nat

\* A transition under way leads to the chart there is.
MovingSound(motion) == motion \subseteq Moves /\ \A m \in motion : m.lands = revision

LaidTyped(l) == l \in [room : Nat, scale : Options]

AtMostOne(S) == \A a, b \in S : a = b

\* A device whose target, if it has one, is of the buffers of its chain, and as large as
\* the window.
DeviceSound(d, size) ==
    /\ d \in Devices
    /\ d.target # 0 =>
          /\ {"chain", "context"} \subseteq d.parts
          /\ d.target = d.buffers
          /\ size # 0 => d.target = size

\* Brushes are what their key says.
OverviewSound(resources) ==
    /\ resources \subseteq OverviewBrushes
    /\ AtMostOne(resources)
    /\ \A r \in resources : Look("Overview", r.look) = r.key

\* So are the analyzer's, and its chart, if there is one, is the one its keys name.
AnalyzerSound(resources) ==
    /\ resources \subseteq AnalyzerBrushes
    /\ AtMostOne(resources)
    /\ \A r \in resources : r.look = r.key /\ r.chart \subseteq {<<r.revision, r.geometry>>}

\* Valid batches of a transition are those of the frame it is at.
FramesSound(resources, motion) == \A r \in resources : r.frame \in {{}, motion}

\* Rows that are marked valid are of the last statuses.
DetailsSound(rows, statuses) == rows \in Texts /\ (rows.valid => rows.of = statuses)

\* Widths that are all there are of the trail on display.
TrailSound(widths, crumbs) == widths \in Widths /\ (widths.full => widths.of = crumbs)

CachesSound ==
    /\ OverviewSound(overview)
    /\ AnalyzerSound(analyzer)
    /\ DetailsSound(details, news)
    /\ TrailSound(labels, place)

\* What is under way, and what is kept of it.
MotionSound ==
    /\ MovingSound(moving) /\ LaidTyped(laid) /\ changes \in Nat
    /\ FramesSound(analyzer, moving)

IInv ==
    /\ SceneTyped
    /\ MotionSound
    /\ DeviceSound(device, client)
    /\ CachesSound
    /\ PresentedIsCurrent
    /\ FrameShownIsCurrent
-----------------------------------------------------------------------------
(* The device.                                                             *)

\* Making the device leaves it sound, however far it comes.
LEMMA InitializedSound ==
    ASSUME NEW size \in Nat, NEW d \in Initialized(size)
    PROVE  DeviceSound(d, size)
<1>1. PICK made \in DeviceResources([Discarded EXCEPT !.window = TRUE], size) :
          d \in IF made.parts = Parts THEN WindowSizeResources(made) ELSE {made}
      BY DEF Initialized
<1>2. /\ made \in Devices /\ made.target = 0
      /\ made.parts = Parts => made.buffers = size
  <2> DEFINE empty == [Discarded EXCEPT !.window = TRUE]
  <2>0. Discarded \in Devices /\ Discarded.target = 0
        BY DEF Discarded, Devices, Parts
  <2>1. empty \in Devices /\ empty.target = 0
        BY <2>0 DEF Devices
  <2>2. PICK p \in {{}, {"chain"}, {"chain", "context"}, Parts} :
            made = [empty EXCEPT !.parts = p, !.buffers = IF p = {} THEN 0 ELSE size]
        BY <1>1 DEF DeviceResources
  <2>3. p \in SUBSET Parts /\ (IF p = {} THEN 0 ELSE size) \in Nat
        BY DEF Parts
  <2>4. made \in Devices /\ made.target = 0 /\ made.parts = p
        BY <2>1, <2>2, <2>3 DEF Devices
  <2>5. p = Parts => made.buffers = size
        BY <2>1, <2>2 DEF Devices, Parts
  <2> QED BY <2>4, <2>5
<1>3. CASE made.parts = Parts
      BY <1>1, <1>2, <1>3 DEF WindowSizeResources, DeviceSound, Devices, Parts
<1>4. CASE made.parts # Parts
      BY <1>1, <1>2, <1>4 DEF DeviceSound
<1> QED BY <1>3, <1>4

\* A device that was given up and made anew is sound.
LEMMA RecoveredSound ==
    ASSUME NEW size \in Nat, NEW device0, NEW d \in Recovered(device0, size)
    PROVE  DeviceSound(d, size)
<1>1. DeviceSound(Discarded, size)
      BY DEF DeviceSound, Discarded, Devices, Parts
<1> QED BY <1>1, InitializedSound DEF Recovered

\* A sound device stays so between the begin and the end of a draw.
LEMMA BegunSound ==
    ASSUME NEW size \in Nat, NEW d, DeviceSound(d, size)
    PROVE  DeviceSound(Begun(d), size) /\ DeviceSound(Ended(Begun(d)), size)
<1>1. /\ Begun(d) \in Devices
      /\ Begun(d).target = d.target /\ Begun(d).parts = d.parts /\ Begun(d).buffers = d.buffers
      BY DEF DeviceSound, Devices, Begun
<1>2. DeviceSound(Begun(d), size)
      BY <1>1 DEF DeviceSound
<1>3. DeviceSound(Ended(Begun(d)), size)
      BY <1>2 DEF DeviceSound, Devices, Ended
<1> QED BY <1>2, <1>3

\* A target made again is of the same buffers.
LEMMA RetargetedSound ==
    ASSUME NEW size \in Nat, NEW d0, DeviceSound(d0, size), Drawable(d0),
           NEW d \in WindowSizeResources(d0)
    PROVE  DeviceSound(d, size)
BY DEF DeviceSound, Devices, WindowSizeResources, Drawable

\* ResizeBuffers leaves no target, or one of the new size.
LEMMA ResizedSound ==
    ASSUME NEW size \in Nat, NEW old \in Nat, NEW d0, DeviceSound(d0, old),
           Resizable(d0, size), NEW d \in Resized(d0, size)
    PROVE  DeviceSound(d, size)
<1> DEFINE none == Untargeted(d0)
           large == [none EXCEPT !.buffers = size]
<1>1. none \in Devices /\ none.target = 0 /\ none.parts = d0.parts
      BY DEF DeviceSound, Devices, Untargeted
<1>2. large \in Devices /\ large.target = 0 /\ large.parts = d0.parts /\ large.buffers = size
      BY <1>1 DEF Devices
<1>3. d = none \/ d = large \/ \E made \in {0, size} : d = [large EXCEPT !.target = made]
      BY <1>2 DEF Resized, WindowSizeResources
<1>4. ASSUME NEW made \in {0, size}, d = [large EXCEPT !.target = made]
      PROVE  DeviceSound(d, size)
      BY <1>2, <1>4 DEF DeviceSound, Devices, Resizable
<1> QED BY <1>1, <1>2, <1>3, <1>4 DEF DeviceSound

\* Without buffers to resize there is no target either, or the window is empty.
LEMMA NotResizableSound ==
    ASSUME NEW size \in Nat, NEW old \in Nat, NEW d, DeviceSound(d, old), ~Resizable(d, size)
    PROVE  DeviceSound(d, size)
BY DEF DeviceSound, Resizable

-----------------------------------------------------------------------------
(* The caches.                                                             *)

\* The overview depends on the settings of texts, the analyzer on all.
LEMMA LookTyped ==
    ASSUME NEW s \in SettingsMaps
    PROVE  /\ Look("Overview", s) = Restrict(s, TextSettings)
           /\ Look("Analyzer", s) = s
           /\ Restrict(s, TextSettings) \in [TextSettings -> Options]
BY DEF Look, SettingsMaps, Restrict, TextSettings

\* ensure_resources of the overview.
LEMMA OverviewEnsured ==
    ASSUME SceneTyped, OverviewSound(overview),
           NEW made \in EnsureResources(overview, OverviewKey, OverviewMade)
    PROVE  /\ OverviewSound(made.resources)
           /\ made.ok => \A r \in made.resources : r.key = OverviewKey
<1>1. OverviewMade \in OverviewBrushes /\ Look("Overview", OverviewMade.look) = OverviewMade.key
      BY LookTyped DEF OverviewMade, OverviewBrushes, OverviewKey, SceneTyped
<1>2. CASE \E r \in overview : r.same /\ r.key = OverviewKey
      BY <1>2 DEF EnsureResources, OverviewSound, AtMostOne
<1>3. CASE ~\E r \in overview : r.same /\ r.key = OverviewKey
  <2>1. CASE made = [resources |-> overview, ok |-> FALSE]
        BY <2>1
  <2>2. CASE made = [resources |-> {OverviewMade}, ok |-> TRUE]
    <3>1. OverviewMade.key = OverviewKey
          BY DEF OverviewMade
    <3> QED BY <1>1, <2>2, <3>1 DEF OverviewSound, AtMostOne
  <2> QED BY <1>3, <2>1, <2>2 DEF EnsureResources
<1> QED BY <1>2, <1>3

\* ensure_resources of the analyzer.
LEMMA AnalyzerEnsured ==
    ASSUME SceneTyped, AnalyzerSound(analyzer), FramesSound(analyzer, moving),
           NEW made \in EnsureResources(analyzer, AnalyzerKey, AnalyzerMade)
    PROVE  /\ AnalyzerSound(made.resources) /\ FramesSound(made.resources, moving)
           /\ made.ok => \A r \in made.resources : r.key = AnalyzerKey
<1>1. /\ AnalyzerMade \in AnalyzerBrushes /\ AnalyzerMade.key = AnalyzerKey
      /\ AnalyzerMade.look = AnalyzerMade.key /\ AnalyzerMade.chart = {}
      /\ AnalyzerMade.frame = {}
      BY DEF AnalyzerMade, AnalyzerBrushes, AnalyzerKey, SceneTyped
<1>2. CASE \E r \in analyzer : r.same /\ r.key = AnalyzerKey
      BY <1>2 DEF EnsureResources, AnalyzerSound, AtMostOne
<1>3. CASE ~\E r \in analyzer : r.same /\ r.key = AnalyzerKey
  <2>1. CASE made = [resources |-> analyzer, ok |-> FALSE]
        BY <2>1
  <2>2. CASE made = [resources |-> {AnalyzerMade}, ok |-> TRUE]
        BY <1>1, <2>2 DEF AnalyzerSound, FramesSound, AtMostOne
  <2> QED BY <1>3, <2>1, <2>2 DEF EnsureResources
<1> QED BY <1>2, <1>3

\* So does the geometry.
LEMMA GeometryTyped == ASSUME SceneTyped PROVE Geometry \in Nat \X (Options \cup {0})
BY DEF Geometry, SceneTyped, SettingsMaps, SettingNames

\* ensure_geometry: the chart is what the keys name, also when it failed half way.
LEMMA GeometryEnsured ==
    ASSUME SceneTyped, NEW S, AnalyzerSound(S), NEW r \in S, NEW made \in EnsureGeometry(r)
    PROVE  /\ AnalyzerSound(made.resources)
           /\ \A q \in made.resources : q.frame = r.frame
           /\ made.ok => \A q \in made.resources :
                 q.key = r.key /\ q.revision = revision /\ q.geometry = Geometry
<1>1. r \in AnalyzerBrushes /\ r.look = r.key /\ r.chart \subseteq {<<r.revision, r.geometry>>}
      BY DEF AnalyzerSound
<1>2. Geometry \in Nat \X (Options \cup {0}) /\ revision \in Nat
      BY GeometryTyped DEF SceneTyped
<1> DEFINE failed == [r EXCEPT !.chart = {}]
           built  == [r EXCEPT !.valid = TRUE, !.revision = revision, !.geometry = Geometry,
                               !.chart = {<<revision, Geometry>>}]
<1>3. /\ failed \in AnalyzerBrushes /\ failed.look = failed.key /\ failed.chart = {}
      /\ failed.frame = r.frame
      BY <1>1 DEF AnalyzerBrushes
<1>4. /\ built \in AnalyzerBrushes /\ built.look = built.key /\ built.key = r.key
      /\ built.revision = revision /\ built.geometry = Geometry /\ built.frame = r.frame
      /\ built.chart = {<<revision, Geometry>>}
  <2>1. {<<revision, Geometry>>} \in SUBSET (Nat \X (Nat \X (Options \cup {0})))
        BY <1>2
  <2> DEFINE G == Geometry
             C == {<<revision, Geometry>>}
  <2>2. G \in Nat \X (Options \cup {0}) /\ C \in SUBSET (Nat \X (Nat \X (Options \cup {0})))
        BY <1>2, <2>1
  <2>3. built = [r EXCEPT !.valid = TRUE, !.revision = revision, !.geometry = G, !.chart = C]
        OBVIOUS
  <2> HIDE DEF G, C, built
  <2>4. /\ built \in AnalyzerBrushes /\ built.look = built.key /\ built.key = r.key
        /\ built.revision = revision /\ built.geometry = G /\ built.chart = C
        /\ built.frame = r.frame
        BY <1>1, <1>2, <2>2, <2>3 DEF AnalyzerBrushes
  <2> QED BY <2>4 DEF G, C
<1>5. CASE made.resources = {r} /\ (made.ok => r.revision = revision /\ r.geometry = Geometry)
      BY <1>1, <1>5 DEF AnalyzerSound, AtMostOne
<1>6. CASE made = [resources |-> {failed}, ok |-> FALSE]
      BY <1>3, <1>6 DEF AnalyzerSound, AtMostOne
<1>7. CASE made = [resources |-> {built}, ok |-> TRUE]
      BY <1>4, <1>7 DEF AnalyzerSound, AtMostOne
<1> QED BY <1>5, <1>6, <1>7 DEF EnsureGeometry

\* Without their batches resources are as sound as with them.
LEMMA UnframedSound ==
    ASSUME NEW S, AnalyzerSound(S)
    PROVE  /\ AnalyzerSound(Unframed(S))
           /\ \A motion : FramesSound(Unframed(S), motion)
           /\ \A q \in Unframed(S) : \E r \in S : q.key = r.key
<1> DEFINE F(r) == [r EXCEPT !.frame = {}]
<1>1. ASSUME NEW r \in S
      PROVE  /\ F(r) \in AnalyzerBrushes
             /\ F(r).look = r.look /\ F(r).key = r.key /\ F(r).chart = r.chart
             /\ F(r).revision = r.revision /\ F(r).geometry = r.geometry
             /\ F(r).frame = {}
      BY DEF AnalyzerSound, AnalyzerBrushes
<1>2. \A r \in S : r.look = r.key /\ r.chart \subseteq {<<r.revision, r.geometry>>}
      BY DEF AnalyzerSound
<1>3. \A a, b \in S : a = b
      BY DEF AnalyzerSound, AtMostOne
<1> HIDE DEF F
<1>4. AnalyzerSound({F(r) : r \in S})
      BY <1>1, <1>2, <1>3 DEF AnalyzerSound, AtMostOne
<1>5. Unframed(S) = {F(r) : r \in S}
      BY DEF F, Unframed
<1>6. \A motion : FramesSound({F(r) : r \in S}, motion)
      BY <1>1 DEF FramesSound
<1>7. \A q \in {F(r) : r \in S} : \E r \in S : q.key = r.key
      BY <1>1
<1> QED BY <1>4, <1>5, <1>6, <1>7

\* ensure_transition_geometry: valid batches are those of the frame.
LEMMA FrameEnsured ==
    ASSUME MovingSound(moving), NEW S, AnalyzerSound(S), FramesSound(S, moving), NEW r \in S,
           NEW made \in EnsureFrame(r), made.ok, moving # {}
    PROVE  /\ AnalyzerSound(made.resources)
           /\ \A q \in made.resources : q.frame = moving /\ q.key = r.key
<1>1. /\ r \in AnalyzerBrushes /\ r.look = r.key /\ r.chart \subseteq {<<r.revision, r.geometry>>}
      /\ r.frame \in {{}, moving} /\ moving \in SUBSET Moves
      BY DEF AnalyzerSound, FramesSound, MovingSound
<1> DEFINE built == [r EXCEPT !.frame = moving]
<1>2. /\ built \in AnalyzerBrushes /\ built.look = built.key /\ built.key = r.key
      /\ built.chart \subseteq {<<built.revision, built.geometry>>} /\ built.frame = moving
      BY <1>1 DEF AnalyzerBrushes
<1>3. CASE made.resources = {r} /\ r.frame # {}
      BY <1>1, <1>3 DEF AnalyzerSound, AtMostOne
<1>4. CASE made.resources = {built}
      BY <1>2, <1>4 DEF AnalyzerSound, AtMostOne
<1> QED BY <1>3, <1>4 DEF EnsureFrame

\* What the chart's part of a draw leaves: the frame of a transition to the chart that is
\* to be seen, or that chart.
ChartSound(c) ==
    /\ AnalyzerSound(c.resources) /\ FramesSound(c.resources, c.moving)
    /\ c.moving \in {{}, moving}

ChartCurrent(c, key) ==
    /\ \A q \in c.resources : q.key = key
    /\ c.moving = {} => \A q \in c.resources : q.revision = revision /\ q.geometry = Geometry
    /\ c.moving # {} => /\ \A q \in c.resources : q.frame = moving
                       /\ \A m \in moving : m.to = Geometry

\* At rest the chart is drawn.
LEMMA RestEnsured ==
    ASSUME SceneTyped, NEW S, AnalyzerSound(S), FramesSound(S, {}), NEW q \in S,
           NEW g \in EnsureGeometry(q),
           NEW c, c = [resources |-> g.resources, moving |-> {}, ok |-> g.ok]
    PROVE  ChartSound(c) /\ (c.ok => ChartCurrent(c, q.key))
<1>1. /\ AnalyzerSound(g.resources)
      /\ \A p \in g.resources : p.frame = q.frame
      /\ g.ok => \A p \in g.resources :
            p.key = q.key /\ p.revision = revision /\ p.geometry = Geometry
      BY GeometryEnsured
<1>2. q.frame = {}
      BY DEF FramesSound
<1>3. c.resources = g.resources /\ c.moving = {} /\ c.ok = g.ok
      OBVIOUS
<1>4. FramesSound(c.resources, c.moving)
      BY <1>1, <1>2, <1>3 DEF FramesSound
<1>5. ChartSound(c)
      BY <1>1, <1>3, <1>4 DEF ChartSound
<1>6. c.ok => ChartCurrent(c, q.key)
      BY <1>1, <1>3 DEF ChartCurrent
<1> QED BY <1>5, <1>6

\* The chart's part of a draw.
LEMMA ChartEnsured ==
    ASSUME SceneTyped, MovingSound(moving), NEW S, AnalyzerSound(S), FramesSound(S, moving),
           NEW r \in S, NEW c \in EnsureChart(r)
    PROVE  ChartSound(c) /\ (c.ok => ChartCurrent(c, r.key))
<1> DEFINE AtRest(resources) ==
               {[resources |-> g.resources, moving |-> {}, ok |-> g.ok] :
                    g \in UNION {EnsureGeometry(q) : q \in resources}}
<1>1. S = {r}
      BY DEF AnalyzerSound, AtMostOne
<1>2. CASE moving = {}
  <2>1. c \in AtRest(S)
        BY <1>1, <1>2 DEF EnsureChart
  <2>2. PICK g \in EnsureGeometry(r) : c = [resources |-> g.resources, moving |-> {}, ok |-> g.ok]
        BY <1>1, <2>1
  <2>3. FramesSound(S, {})
        BY <1>2
  <2> HIDE DEF AtRest
  <2> QED BY <2>2, <2>3, RestEnsured
<1>3. CASE moving # {} /\ c \in AtRest(Unframed({r}))
  <2>0. PICK q \in Unframed(S) : \E g \in EnsureGeometry(q) :
            c = [resources |-> g.resources, moving |-> {}, ok |-> g.ok]
        BY <1>1, <1>3
  <2>1. PICK g \in EnsureGeometry(q) :
            c = [resources |-> g.resources, moving |-> {}, ok |-> g.ok]
        BY <2>0
  <2> HIDE DEF AtRest
  <2>2. /\ AnalyzerSound(Unframed(S)) /\ FramesSound(Unframed(S), {})
        /\ q.key = r.key
        BY <1>1, UnframedSound
  <2> QED BY <2>1, <2>2, RestEnsured
<1>4. ASSUME moving # {}, \A m \in moving : m.to = Geometry, NEW f \in EnsureFrame(r), f.ok,
             c = [resources |-> f.resources, moving |-> moving, ok |-> TRUE]
      PROVE  ChartSound(c) /\ ChartCurrent(c, r.key)
  <2>1. /\ AnalyzerSound(f.resources)
        /\ \A q \in f.resources : q.frame = moving /\ q.key = r.key
        BY <1>4, FrameEnsured
  <2>2. c.resources = f.resources /\ c.moving = moving
        BY <1>4
  <2>3. ChartSound(c)
        BY <2>1, <2>2 DEF ChartSound, FramesSound
  <2>4. ChartCurrent(c, r.key)
        BY <1>4, <2>1, <2>2 DEF ChartCurrent
  <2> QED BY <2>3, <2>4
<1>5. \/ moving = {}
      \/ moving # {} /\ c \in AtRest(Unframed({r}))
      \/ /\ moving # {} /\ \A m \in moving : m.to = Geometry
         /\ \E f \in EnsureFrame(r) :
               f.ok /\ c = [resources |-> f.resources, moving |-> moving, ok |-> TRUE]
      BY DEF EnsureChart
<1> HIDE DEF AtRest
<1> QED BY <1>2, <1>3, <1>4, <1>5

\* ensure_breadcrumb_layout.
LEMMA TrailEnsured ==
    ASSUME SceneTyped, TrailSound(labels, place), NEW made \in EnsureTrail
    PROVE  /\ TrailSound(made.trail, place)
           /\ made.ok => /\ made.trail.of = place
                         /\ made.trail.room = client
                         /\ made.trail.language = settings.language
<1> DEFINE part  == [labels EXCEPT !.full = FALSE]
           whole == [full |-> TRUE, room |-> client, language |-> settings.language,
                     of |-> place, text |-> settings.text]
<1>1. /\ client \in Nat /\ place \in Nat /\ settings["language"] \in Options
      /\ settings["text"] \in Options
      BY DEF SceneTyped, SettingsMaps, SettingNames
<1>2. TrailSound(part, place)
      BY DEF TrailSound, Widths
<1>3. TrailSound(whole, place)
      BY <1>1 DEF TrailSound, Widths
<1>4. CASE TrailHolds
      BY <1>4 DEF EnsureTrail, TrailHolds, TrailSound
<1>5. CASE made = [trail |-> part, ok |-> FALSE]
      BY <1>2, <1>5
<1>6. CASE made = [trail |-> whole, ok |-> TRUE]
      BY <1>3, <1>6
<1> QED BY <1>4, <1>5, <1>6 DEF EnsureTrail

\* What ensure_details leaves behind.
LEMMA DetailsEnsured ==
    ASSUME SceneTyped, DetailsSound(details, news)
    PROVE  /\ DetailsSound(EnsureDetails, news)
           /\ EnsureDetails.of = news
           /\ EnsureDetails.language = settings.language
BY DEF SceneTyped, SettingsMaps, SettingNames, DetailsSound, Texts, EnsureDetails

-----------------------------------------------------------------------------
(* A draw.                                                                 *)

\* What a draw leaves, whether it went through or not, and what it went through with.
DrawSound(d) ==
    /\ OverviewSound(d.overview)
    /\ AnalyzerSound(d.analyzer)
    /\ FramesSound(d.analyzer, d.moving)
    /\ d.moving \in {{}, moving}
    /\ LaidTyped(d.laid)
    /\ DetailsSound(d.details, news)
    /\ TrailSound(d.trail, place)

DrawCurrent(d) ==
    IF view = "Overview"
    THEN /\ \A r \in d.overview : r.key = OverviewKey
         /\ d.details.of = news /\ d.details.language = settings.language
    ELSE /\ ChartCurrent([resources |-> d.analyzer, moving |-> d.moving], AnalyzerKey)
         /\ d.trail.of = place /\ d.trail.room = client
         /\ d.trail.language = settings.language

\* What every draw starts from.
DrawAssumption ==
    /\ SceneTyped /\ CachesSound /\ MotionSound

\* A draw that does nothing leaves everything sound.
LEMMA UndrawnSound == DrawAssumption => DrawSound(Undrawn) /\ DrawSound(Unlaid)
<1> SUFFICES ASSUME DrawAssumption PROVE DrawSound(Undrawn) /\ DrawSound(Unlaid)
    OBVIOUS
<1>1. DrawSound(Undrawn)
      BY DEF DrawAssumption, DrawSound, CachesSound, MotionSound, Undrawn
<1>2. LaidTyped([room |-> laid.room, scale |-> settings.scale])
      BY DEF DrawAssumption, MotionSound, LaidTyped, SceneTyped, SettingsMaps, SettingNames
<1>3. /\ Unlaid.overview = overview /\ Unlaid.analyzer = analyzer /\ Unlaid.details = details
      /\ Unlaid.trail = labels /\ Unlaid.moving = moving
      /\ Unlaid.laid = [room |-> laid.room, scale |-> settings.scale]
      BY DEF Undrawn, Unlaid
<1>4. DrawSound(Unlaid)
      BY <1>2, <1>3 DEF DrawAssumption, DrawSound, CachesSound, MotionSound
<1> QED BY <1>1, <1>4

\* What drawing the overview leaves behind.
LEMMA OverviewDrawn ==
    ASSUME DrawAssumption, view = "Overview", NEW d \in OverviewDraws
    PROVE  DrawSound(d) /\ (d.ok => DrawCurrent(d))
<1>1. PICK made \in EnsureResources(overview, OverviewKey, OverviewMade) :
          d = [Undrawn EXCEPT !.overview = made.resources,
                              !.details = IF made.ok THEN EnsureDetails ELSE details,
                              !.ok = made.ok]
      BY DEF OverviewDraws
<1>2. /\ OverviewSound(made.resources)
      /\ made.ok => \A r \in made.resources : r.key = OverviewKey
      BY OverviewEnsured DEF CachesSound, DrawAssumption
<1>3. /\ DetailsSound(EnsureDetails, news)
      /\ EnsureDetails.of = news /\ EnsureDetails.language = settings.language
      BY DetailsEnsured DEF CachesSound, DrawAssumption
<1>4. /\ d.overview = made.resources /\ d.analyzer = analyzer /\ d.trail = labels /\ d.ok = made.ok
      /\ d.details = IF made.ok THEN EnsureDetails ELSE details
      /\ d.moving = moving /\ d.laid = laid
      BY <1>1 DEF Undrawn
<1>5. DrawSound(d)
  <2>1. /\ OverviewSound(d.overview) /\ AnalyzerSound(d.analyzer)
        /\ DetailsSound(d.details, news) /\ TrailSound(d.trail, place)
        BY <1>2, <1>3, <1>4 DEF CachesSound, DrawAssumption
  <2>2. FramesSound(d.analyzer, d.moving) /\ d.moving \in {{}, moving} /\ LaidTyped(d.laid)
        BY <1>4 DEF DrawAssumption, MotionSound
  <2> QED BY <2>1, <2>2 DEF DrawSound
<1>6. d.ok => DrawCurrent(d)
      BY <1>2, <1>3, <1>4 DEF DrawCurrent
<1> QED BY <1>5, <1>6

\* What drawing the analyzer leaves behind.
LEMMA AnalyzerDrawn ==
    ASSUME DrawAssumption, view # "Overview", NEW d \in AnalyzerDraws
    PROVE  DrawSound(d) /\ (d.ok => DrawCurrent(d))
<1> DEFINE now == [room |-> client, scale |-> settings.scale]
           Laid(resources, t) ==
               [Undrawn EXCEPT !.analyzer = resources, !.trail = t.trail, !.laid = now]
           Whole(c, t) == [Laid(c.resources, t) EXCEPT !.moving = c.moving, !.ok = c.ok]
           After(resources) ==
               UNION {IF t.ok
                      THEN {Whole(c, t) : c \in UNION {EnsureChart(r) : r \in resources}}
                      ELSE {Laid(resources, t)} : t \in EnsureTrail}
<1>0. PICK made \in EnsureResources(analyzer, AnalyzerKey, AnalyzerMade) :
          d \in IF made.ok THEN After(made.resources) ELSE {Unlaid}
      BY DEF AnalyzerDraws
<1>2. /\ AnalyzerSound(made.resources) /\ FramesSound(made.resources, moving)
      /\ made.ok => \A r \in made.resources : r.key = AnalyzerKey
      BY AnalyzerEnsured DEF CachesSound, DrawAssumption, MotionSound
<1>3. LaidTyped(now)
      BY DEF DrawAssumption, MotionSound, LaidTyped, SceneTyped, SettingsMaps, SettingNames
<1>4. ASSUME NEW S, NEW t
      PROVE  LET d0 == Laid(S, t)
             IN  /\ d0.overview = overview /\ d0.details = details /\ d0.analyzer = S
                 /\ d0.trail = t.trail /\ d0.laid = now /\ d0.moving = moving /\ ~d0.ok
      BY DEF Undrawn
<1>5. ASSUME NEW c, NEW t
      PROVE  LET d0 == Whole(c, t)
             IN  /\ d0.overview = overview /\ d0.details = details
                 /\ d0.analyzer = c.resources /\ d0.trail = t.trail /\ d0.laid = now
                 /\ d0.moving = c.moving /\ d0.ok = c.ok
      BY DEF Undrawn
<1> HIDE DEF now, Laid, Whole
<1>1. \/ ~made.ok /\ d = Unlaid
      \/ /\ made.ok
         /\ \E t \in EnsureTrail :
               \/ ~t.ok /\ d = Laid(made.resources, t)
               \/ /\ t.ok
                  /\ \E r \in made.resources : \E c \in EnsureChart(r) : d = Whole(c, t)
      BY <1>0
<1> HIDE DEF After
<1>6. CASE ~made.ok /\ d = Unlaid
  <2>1. d.ok = FALSE
        BY <1>6 DEF Unlaid, Undrawn
  <2> QED BY <1>6, <2>1, UndrawnSound
<1>7. ASSUME made.ok, NEW t \in EnsureTrail, ~t.ok, d = Laid(made.resources, t)
      PROVE  DrawSound(d) /\ (d.ok => DrawCurrent(d))
  <2>1. TrailSound(t.trail, place)
        BY TrailEnsured DEF CachesSound, DrawAssumption
  <2>2. /\ d.overview = overview /\ d.details = details /\ d.analyzer = made.resources
        /\ d.trail = t.trail /\ d.laid = now /\ d.moving = moving /\ ~d.ok
        BY <1>4, <1>7
  <2>3. DrawSound(d)
        BY <1>2, <1>3, <2>1, <2>2 DEF DrawSound, CachesSound, DrawAssumption
  <2> QED BY <2>2, <2>3
<1>8. ASSUME made.ok, NEW t \in EnsureTrail, t.ok, NEW r \in made.resources,
             NEW c \in EnsureChart(r), d = Whole(c, t)
      PROVE  DrawSound(d) /\ (d.ok => DrawCurrent(d))
  <2>1. /\ TrailSound(t.trail, place)
        /\ t.trail.of = place /\ t.trail.room = client /\ t.trail.language = settings.language
        BY <1>8, TrailEnsured DEF CachesSound, DrawAssumption
  <2>2. r.key = AnalyzerKey
        BY <1>2, <1>8
  <2>3. ChartSound(c) /\ (c.ok => ChartCurrent(c, AnalyzerKey))
        BY <1>2, <1>8, <2>2, ChartEnsured DEF DrawAssumption, MotionSound
  <2>4. /\ d.overview = overview /\ d.details = details /\ d.analyzer = c.resources
        /\ d.trail = t.trail /\ d.laid = now /\ d.moving = c.moving /\ d.ok = c.ok
        BY <1>5, <1>8
  <2>5. DrawSound(d)
        BY <1>3, <2>1, <2>3, <2>4 DEF DrawSound, CachesSound, ChartSound, DrawAssumption
  <2>6. c.ok => ChartCurrent([resources |-> d.analyzer, moving |-> d.moving], AnalyzerKey)
        BY <2>3, <2>4 DEF ChartCurrent
  <2>7. d.ok => DrawCurrent(d)
        BY <2>1, <2>4, <2>6 DEF DrawCurrent
  <2> QED BY <2>5, <2>7
<1> QED BY <1>1, <1>6, <1>7, <1>8

\* What drawing leaves behind, whatever is shown.
LEMMA Drawn ==
    ASSUME DrawAssumption, NEW d \in Draws
    PROVE  DrawSound(d) /\ (d.ok => DrawCurrent(d))
<1>1. CASE "writer" \notin device.parts
  <2>1. d \in {Undrawn, Unlaid}
        BY <1>1 DEF Draws
  <2>2. d.ok = FALSE
        BY <2>1 DEF Undrawn, Unlaid
  <2> QED BY <2>1, <2>2, UndrawnSound
<1>2. CASE "writer" \in device.parts
      BY <1>2, OverviewDrawn, AnalyzerDrawn DEF Draws
<1> QED BY <1>1, <1>2

\* A step starts with what a draw starts from.
LEMMA DrawsFromHere == IInv => DrawAssumption
BY DEF IInv, DrawAssumption

\* Brushes of a context that is gone still say what they were made for.
LEMMA OrphansSound ==
    ASSUME NEW S
    PROVE  /\ OverviewSound(S) => \A T \in Orphans(S) : OverviewSound(T)
           /\ AnalyzerSound(S) => \A T \in Orphans(S) : AnalyzerSound(T)
           /\ \A motion : AnalyzerSound(S) /\ FramesSound(S, motion)
                 => \A T \in Orphans(S) : FramesSound(T, motion)
<1>1. ASSUME OverviewSound(S), NEW again \in BOOLEAN
      PROVE  OverviewSound({[r EXCEPT !.own = FALSE, !.same = again] : r \in S})
      BY <1>1 DEF OverviewSound, OverviewBrushes, AtMostOne
<1>2. ASSUME AnalyzerSound(S), NEW again \in BOOLEAN
      PROVE  AnalyzerSound({[r EXCEPT !.own = FALSE, !.same = again] : r \in S})
  <2> DEFINE F(r) == [r EXCEPT !.own = FALSE, !.same = again]
  <2>1. ASSUME NEW r \in S
        PROVE  /\ F(r) \in AnalyzerBrushes
               /\ F(r).look = r.look /\ F(r).key = r.key /\ F(r).chart = r.chart
               /\ F(r).revision = r.revision /\ F(r).geometry = r.geometry
        BY <1>2 DEF AnalyzerSound, AnalyzerBrushes
  <2>2. \A r \in S : r.look = r.key /\ r.chart \subseteq {<<r.revision, r.geometry>>}
        BY <1>2 DEF AnalyzerSound
  <2>3. \A a, b \in S : a = b
        BY <1>2 DEF AnalyzerSound, AtMostOne
  <2> HIDE DEF F
  <2>4. AnalyzerSound({F(r) : r \in S})
        BY <2>1, <2>2, <2>3 DEF AnalyzerSound, AtMostOne
  <2> QED BY <2>4 DEF F
<1>3. ASSUME NEW motion, AnalyzerSound(S), FramesSound(S, motion), NEW again \in BOOLEAN
      PROVE  FramesSound({[r EXCEPT !.own = FALSE, !.same = again] : r \in S}, motion)
      BY <1>3 DEF AnalyzerSound, AnalyzerBrushes, FramesSound
<1>4. \A motion : AnalyzerSound(S) /\ FramesSound(S, motion)
         => \A T \in Orphans(S) : FramesSound(T, motion)
      BY <1>3 DEF Orphans
<1>5. /\ OverviewSound(S) => \A T \in Orphans(S) : OverviewSound(T)
      /\ AnalyzerSound(S) => \A T \in Orphans(S) : AnalyzerSound(T)
      BY <1>1, <1>2 DEF Orphans
<1> QED BY <1>4, <1>5

\* Caches stay sound when a new layout makes their geometry invalid.
LEMMA RelaidSound ==
    ASSUME NEW S, AnalyzerSound(S) PROVE AnalyzerSound(Relaid(S))
<1> DEFINE F(r) == [r EXCEPT !.valid = FALSE]
<1>1. ASSUME NEW r \in S
      PROVE  /\ F(r) \in AnalyzerBrushes
             /\ F(r).look = r.look /\ F(r).key = r.key /\ F(r).chart = r.chart
             /\ F(r).revision = r.revision /\ F(r).geometry = r.geometry
      BY DEF AnalyzerSound, AnalyzerBrushes
<1>2. \A r \in S : r.look = r.key /\ r.chart \subseteq {<<r.revision, r.geometry>>}
      BY DEF AnalyzerSound
<1>3. \A a, b \in S : a = b
      BY DEF AnalyzerSound, AtMostOne
<1> HIDE DEF F
<1>4. AnalyzerSound({F(r) : r \in S})
      BY <1>1, <1>2, <1>3 DEF AnalyzerSound, AtMostOne
<1> QED BY <1>4 DEF F, Relaid

-----------------------------------------------------------------------------
(* The steps.                                                              *)

\* The window starts with the invariant.
LEMMA Initially == PaintInit => IInv
<1> SUFFICES ASSUME PaintInit PROVE IInv
    OBVIOUS
<1> USE PaintingAssumption DEF PaintingAssumption
<1>1. SceneTyped
      BY DEF PaintInit, SceneTyped, SettingsMaps
<1>2. DeviceSound(device, client)
      BY <1>1, InitializedSound DEF PaintInit, SceneTyped
<1>3. CachesSound
  <2>1. OverviewSound(overview) /\ AnalyzerSound(analyzer)
        BY DEF PaintInit, OverviewSound, AnalyzerSound, AtMostOne
  <2>2. DetailsSound(details, news)
        BY DEF PaintInit, DetailsSound, Texts
  <2>3. TrailSound(labels, place)
        BY DEF PaintInit, TrailSound, Widths
  <2> QED BY <2>1, <2>2, <2>3 DEF CachesSound
<1>4. PresentedIsCurrent /\ FrameShownIsCurrent
      BY DEF PaintInit, PresentedIsCurrent, FrameShownIsCurrent
<1>5. MotionSound
      BY DEF PaintInit, MotionSound, MovingSound, LaidTyped, FramesSound
<1> QED BY <1>1, <1>2, <1>3, <1>4, <1>5 DEF IInv

\* While nothing is shown there is nothing to be wrong.
LEMMA NothingShown == shown' = {} => PresentedIsCurrent' /\ FrameShownIsCurrent'
BY DEF PresentedIsCurrent, FrameShownIsCurrent

\* Every paint leaves the scene as it is.
LEMMA SameScene == IInv /\ UNCHANGED scene => SceneTyped'
BY DEF IInv, SceneTyped, scene

\* What a draw leaves is sound.
LEMMA KeptCaches ==
    ASSUME IInv, UNCHANGED <<scene, changes>>, NEW d \in Draws, Keep(d)
    PROVE  CachesSound' /\ MotionSound'
<1>1. DrawSound(d)
      BY Drawn, DrawsFromHere
<1>2. CachesSound'
      BY <1>1 DEF DrawSound, CachesSound, Keep, KeepRest, scene
<1>3. MovingSound(moving) /\ moving' \in {{}, moving} /\ revision' = revision
      BY <1>1 DEF IInv, MotionSound, DrawSound, Keep, KeepRest, scene
<1>4. MovingSound(moving)'
      BY <1>3 DEF MovingSound
<1>5. LaidTyped(laid)' /\ FramesSound(analyzer, moving)' /\ changes' \in Nat
      BY <1>1 DEF IInv, MotionSound, DrawSound, Keep, KeepRest
<1> QED BY <1>2, <1>4, <1>5 DEF MotionSound

\* A paint that gives up keeps the invariant.
LEMMA PaintGivesUpKeeps == IInv /\ PaintGivesUp => IInv'
<1> SUFFICES ASSUME IInv, PaintGivesUp PROVE IInv'
    OBVIOUS
<1>1. UNCHANGED <<scene, changes>> /\ shown' = {} /\ client' = client /\ client \in Nat
      BY DEF PaintGivesUp, IInv, SceneTyped, scene
<1>2. DeviceSound(device, client)'
      BY <1>1, BegunSound DEF PaintGivesUp, IInv
<1>3. CachesSound' /\ MotionSound'
  <2>1. CASE UNCHANGED <<moving, laid, caches>>
        BY <1>1, <2>1 DEF IInv, CachesSound, MotionSound, MovingSound, caches, scene
  <2>2. CASE \E d \in Draws : Keep(d)
        BY <1>1, <2>2, KeptCaches
  <2> QED BY <2>1, <2>2 DEF PaintGivesUp
<1> QED BY <1>1, <1>2, <1>3, SameScene, NothingShown DEF IInv

\* So does a paint that is refused.
LEMMA PaintRefusedKeeps == IInv /\ PaintRefused => IInv'
<1> SUFFICES ASSUME IInv, PaintRefused PROVE IInv'
    OBVIOUS
<1>1. UNCHANGED <<scene, changes>> /\ shown' = {} /\ client' = client /\ client \in Nat
      BY DEF PaintRefused, IInv, SceneTyped, scene
<1>2. DeviceSound(device, client)'
  <2>1. DeviceSound(Ended(Begun(device)), client)
        BY <1>1, BegunSound DEF IInv
  <2>2. Drawable(Ended(Begun(device)))
        BY DEF PaintRefused, Drawable, Ended, Begun, IInv, DeviceSound, Devices
  <2>3. \A d \in WindowSizeResources(Ended(Begun(device))) : DeviceSound(d, client)
        BY <1>1, <2>1, <2>2, RetargetedSound
  <2> QED BY <1>1, <2>1, <2>3 DEF PaintRefused
<1>3. CachesSound' /\ MotionSound'
      BY <1>1, KeptCaches DEF PaintRefused
<1> QED BY <1>1, <1>2, <1>3, SameScene, NothingShown DEF IInv

\* So does a paint that loses the device.
LEMMA PaintLosesDeviceKeeps == IInv /\ PaintLosesDevice => IInv'
<1> SUFFICES ASSUME IInv, PaintLosesDevice PROVE IInv'
    OBVIOUS
<1>1. UNCHANGED <<scene, changes>> /\ shown' = {} /\ client' = client /\ client \in Nat
      BY DEF PaintLosesDevice, IInv, SceneTyped, scene
<1>2. DeviceSound(device, client)'
      BY <1>1, RecoveredSound DEF PaintLosesDevice
<1>3. CachesSound' /\ MotionSound'
  <2>1. PICK d \in Draws :
            /\ overview' \in Orphans(d.overview) /\ analyzer' \in Orphans(d.analyzer)
            /\ KeepRest(d)
        BY DEF PaintLosesDevice
  <2>2. DrawSound(d)
        BY Drawn, DrawsFromHere
  <2>3. CachesSound'
        BY <1>1, <2>1, <2>2, OrphansSound DEF DrawSound, CachesSound, KeepRest, scene
  <2>4. /\ moving' = d.moving /\ laid' = d.laid /\ FramesSound(analyzer', d.moving)
        /\ d.moving \in {{}, moving} /\ revision' = revision
        BY <1>1, <2>1, <2>2, OrphansSound DEF DrawSound, KeepRest, scene
  <2>5. MovingSound(moving)'
        BY <2>4 DEF IInv, MotionSound, MovingSound
  <2>6. LaidTyped(laid)' /\ FramesSound(analyzer, moving)' /\ changes' \in Nat
        BY <1>1, <2>2, <2>4 DEF IInv, MotionSound, DrawSound
  <2> QED BY <2>3, <2>5, <2>6 DEF MotionSound
<1> QED BY <1>1, <1>2, <1>3, SameScene, NothingShown DEF IInv

\* The frame that is presented is the one that is wanted.
LEMMA PaintPresentsCurrent ==
    ASSUME IInv, Drawable(device), NEW d \in Draws, d.ok, NEW image \in Image(d)
    PROVE  /\ \A part \in DOMAIN Wanted : image[part] = Wanted[part]
           /\ client # 0 => image.size = client
           /\ view = "Analyzer" =>
                 /\ image.chart \subseteq {<<revision, Geometry>>}
                 /\ image.frame = d.moving
                 /\ \A m \in image.frame : m.lands = revision /\ m.to = Geometry
<1>1. DrawSound(d) /\ DrawCurrent(d)
      BY Drawn, DrawsFromHere
<1>2. client # 0 => device.target = client
      BY DEF IInv, DeviceSound, Drawable
<1>3. CASE view = "Overview"
  <2>1. PICK r \in d.overview :
            image = [view |-> "Overview", size |-> device.target,
                     look |-> Look("Overview", r.look),
                     rows |-> <<d.details.of, d.details.language>>]
        BY <1>3 DEF Image, OverviewImage
  <2>2. Look("Overview", r.look) = OverviewKey
        BY <1>1, <1>3 DEF DrawSound, DrawCurrent, OverviewSound
  <2>3. OverviewKey = Look(view, settings)
        BY <1>3 DEF OverviewKey, Look
  <2>4. Wanted = [view |-> "Overview", look |-> Look(view, settings),
                  rows |-> <<news, settings.language>>]
        BY <1>3 DEF Wanted
  <2>5. d.details.of = news /\ d.details.language = settings.language
        BY <1>1, <1>3 DEF DrawCurrent
  <2> QED BY <1>2, <1>3, <2>1, <2>2, <2>3, <2>4, <2>5
<1>4. CASE view = "Analyzer"
  <2>1. PICK r \in d.analyzer :
            image = [view |-> "Analyzer", size |-> device.target,
                     look |-> Look("Analyzer", r.look),
                     chart |-> IF d.moving = {} THEN r.chart ELSE {},
                     frame |-> IF d.moving = {} THEN {} ELSE r.frame,
                     trail |-> <<d.trail.of, d.trail.room, d.trail.language>>,
                     measured |-> d.trail.text]
        BY <1>4 DEF Image, AnalyzerImage
  <2>2. Look("Analyzer", r.look) = AnalyzerKey
        BY <1>1, <1>4 DEF DrawSound, DrawCurrent, ChartCurrent, AnalyzerSound, Look
  <2>3. AnalyzerKey = Look(view, settings)
        BY <1>4 DEF AnalyzerKey, Look
  <2>4. Wanted = [view |-> "Analyzer", look |-> Look(view, settings),
                  trail |-> <<place, client, settings.language>>]
        BY <1>4 DEF Wanted
  <2>5. d.trail.of = place /\ d.trail.room = client /\ d.trail.language = settings.language
        BY <1>1, <1>4 DEF DrawCurrent
  <2>6. ChartCurrent([resources |-> d.analyzer, moving |-> d.moving], AnalyzerKey)
        BY <1>1, <1>4 DEF DrawCurrent
  <2>7. image.chart \subseteq {<<revision, Geometry>>}
    <3>1. d.moving = {} => r.chart \subseteq {<<revision, Geometry>>}
          BY <1>1, <2>6 DEF DrawSound, ChartCurrent, AnalyzerSound
    <3> QED BY <2>1, <3>1
  <2>8. d.moving # {} => r.frame = moving /\ d.moving = moving /\ \A m \in moving : m.to = Geometry
        BY <1>1, <2>6 DEF DrawSound, ChartCurrent
  <2>9. image.frame = d.moving
        BY <2>1, <2>8
  <2>10. \A m \in moving : m.lands = revision
        BY DEF IInv, MotionSound, MovingSound
  <2>11. \A m \in image.frame : m.lands = revision /\ m.to = Geometry
        BY <2>8, <2>9, <2>10
  <2>12. \A part \in DOMAIN Wanted : image[part] = Wanted[part]
        BY <2>1, <2>2, <2>3, <2>4, <2>5
  <2>13. client # 0 => image.size = client
        BY <1>2, <2>1
  <2> QED BY <2>7, <2>9, <2>11, <2>12, <2>13
<1> QED BY <1>3, <1>4 DEF IInv, SceneTyped

\* So does a paint that comes to the screen.
LEMMA PaintPresentsKeeps == IInv /\ PaintPresents => IInv'
<1> SUFFICES ASSUME IInv, PaintPresents PROVE IInv'
    OBVIOUS
<1>1. UNCHANGED <<scene, changes>> /\ client' = client /\ client \in Nat
      BY DEF PaintPresents, IInv, SceneTyped, scene
<1>2. PICK d \in Draws : d.ok /\ Keep(d) /\ shown' = Image(d)
      BY DEF PaintPresents
<1>3. DeviceSound(device, client)'
      BY <1>1, BegunSound DEF PaintPresents, IInv
<1>4. CachesSound' /\ MotionSound'
      BY <1>1, <1>2, KeptCaches
<1>5. Wanted' = Wanted /\ Geometry' = Geometry /\ view' = view /\ revision' = revision
      BY <1>1 DEF Wanted, Geometry, scene
<1>6. \A image \in Image(d) :
         /\ \A part \in DOMAIN Wanted : image[part] = Wanted[part]
         /\ client # 0 => image.size = client
         /\ view = "Analyzer" =>
               /\ image.chart \subseteq {<<revision, Geometry>>}
               /\ image.frame = d.moving
               /\ \A m \in image.frame : m.lands = revision /\ m.to = Geometry
      BY <1>2, PaintPresentsCurrent DEF PaintPresents
<1>7. PresentedIsCurrent'
      BY <1>1, <1>2, <1>5, <1>6 DEF PresentedIsCurrent
<1>8. moving' = d.moving
      BY <1>2 DEF Keep, KeepRest
<1>9. FrameShownIsCurrent'
      BY <1>2, <1>5, <1>6, <1>8 DEF FrameShownIsCurrent
<1> QED BY <1>1, <1>3, <1>4, <1>7, <1>9, SameScene DEF IInv

\* A change of a setting keeps the invariant.
LEMMA ChangeSettingKeeps ==
    ASSUME IInv, NEW s \in SettingNames, ChangeSetting(s) PROVE IInv'
<1>1. SceneTyped'
      BY DEF IInv, SceneTyped, SettingsMaps, ChangeSetting
<1>2. DeviceSound(device, client)' /\ CachesSound'
      BY DEF IInv, ChangeSetting, CachesSound, caches
<1>3. MotionSound'
      BY DEF IInv, ChangeSetting, MotionSound, MovingSound, Counted, caches
<1> QED BY <1>1, <1>2, <1>3, NothingShown DEF IInv, ChangeSetting, Invalidate

\* New scan statuses keep the invariant.
LEMMA SetScanStatusesKeeps == IInv /\ SetScanStatuses => IInv'
<1> SUFFICES ASSUME IInv, SetScanStatuses PROVE IInv'
    OBVIOUS
<1>1. SceneTyped'
      BY DEF IInv, SceneTyped, SetScanStatuses
<1>2. DetailsSound(details, news)'
      BY DEF IInv, CachesSound, DetailsSound, Texts, SetScanStatuses
<1>3. DeviceSound(device, client)' /\ CachesSound'
      BY <1>2 DEF IInv, SetScanStatuses, CachesSound
<1>4. MotionSound'
      BY DEF IInv, SetScanStatuses, MotionSound, MovingSound, Counted
<1> QED BY <1>1, <1>3, <1>4, NothingShown DEF IInv, SetScanStatuses, Invalidate

\* A transition that begins leads to the chart that is laid out with it.
LEMMA TransitionsSound ==
    ASSUME SceneTyped, MotionSound, NEW motion \in Transitions
    PROVE  motion \subseteq Moves /\ \A m \in motion : m.lands = revision + 1
BY DEF SceneTyped, MotionSound, LaidTyped, Transitions, Moves

\* Relaid caches without frames fit any transition.
LEMMA RelaidUnframed ==
    ASSUME NEW S, AnalyzerSound(S)
    PROVE  /\ AnalyzerSound(Unframed(Relaid(S))) /\ AnalyzerSound(Unframed(S))
           /\ \A motion : FramesSound(Unframed(Relaid(S)), motion) /\ FramesSound(Unframed(S), motion)
<1>1. AnalyzerSound(Relaid(S))
      BY RelaidSound
<1> QED BY <1>1, UnframedSound

\* A chart that is made anew keeps the invariant.
LEMMA ReflowChartKeeps == IInv /\ ReflowChart => IInv'
<1> SUFFICES ASSUME IInv, ReflowChart PROVE IInv'
    OBVIOUS
<1>1. SceneTyped'
      BY DEF IInv, SceneTyped, ReflowChart
<1>2. /\ AnalyzerSound(analyzer) /\ analyzer' = Unframed(Relaid(analyzer))
      /\ revision' = revision + 1 /\ laid' = laid /\ changes' = changes + 1
      /\ moving' \in {{}} \cup Transitions
      BY DEF IInv, CachesSound, ReflowChart, Counted
<1>3. AnalyzerSound(analyzer') /\ FramesSound(analyzer', moving')
      BY <1>2, RelaidUnframed
<1>4. DeviceSound(device, client)' /\ CachesSound'
      BY <1>3 DEF IInv, ReflowChart, CachesSound
<1>5. MovingSound(moving)'
      BY <1>2, TransitionsSound DEF IInv, MovingSound
<1>6. MotionSound'
      BY <1>2, <1>3, <1>5 DEF IInv, MotionSound
<1> QED BY <1>1, <1>4, <1>6, NothingShown DEF IInv, ReflowChart, Invalidate

\* Moving to another place keeps the invariant.
LEMMA NavigateKeeps == IInv /\ Navigate => IInv'
<1> SUFFICES ASSUME IInv, Navigate PROVE IInv'
    OBVIOUS
<1>1. SceneTyped'
      BY DEF IInv, SceneTyped, Navigate, OpenFolder, LeaveAnalyzer
<1>2. TrailSound(labels, place)'
      BY DEF IInv, CachesSound, SceneTyped, TrailSound, Widths, Navigate
<1>3. /\ AnalyzerSound(analyzer) /\ laid' = laid /\ changes' = changes + 1
      /\ analyzer' \in {Unframed(Relaid(analyzer)), Unframed(analyzer)}
      /\ \/ revision' = revision /\ moving' = {}
         \/ revision' = revision + 1 /\ moving' \in {{}} \cup Transitions
      BY DEF IInv, CachesSound, Navigate, OpenFolder, LeaveAnalyzer, Counted
<1>4. AnalyzerSound(analyzer') /\ FramesSound(analyzer', moving')
      BY <1>3, RelaidUnframed
<1>5. DeviceSound(device, client)' /\ CachesSound'
      BY <1>2, <1>4 DEF IInv, Navigate, CachesSound
<1>6. MovingSound(moving)'
      BY <1>3, TransitionsSound DEF IInv, MovingSound
<1>7. MotionSound'
      BY <1>3, <1>4, <1>6 DEF IInv, MotionSound
<1> QED BY <1>1, <1>5, <1>7, NothingShown DEF IInv, Navigate, Invalidate

\* So does the timer of a transition, and whatever ends a transition early.
LEMMA TransitionKeeps == IInv /\ (AdvanceFrame \/ CancelMove) => IInv'
<1> SUFFICES ASSUME IInv, AdvanceFrame \/ CancelMove PROVE IInv'
    OBVIOUS
<1>1. /\ UNCHANGED <<device, scene, laid, overview, details, labels>>
      /\ analyzer' = Unframed(analyzer) /\ shown' = {}
      /\ changes' \in {changes, changes + 1}
      /\ moving' \in {{}} \cup {{[m EXCEPT !.frame = changes + 1]} : m \in moving}
      BY DEF AdvanceFrame, CancelMove, Counted, Invalidate
<1>2. AnalyzerSound(analyzer') /\ FramesSound(analyzer', moving')
      BY <1>1, RelaidUnframed DEF IInv, CachesSound
<1>3. DeviceSound(device, client)' /\ CachesSound'
      BY <1>1, <1>2 DEF IInv, CachesSound, scene
<1>4. ASSUME NEW m \in moving
      PROVE  LET n == [m EXCEPT !.frame = changes + 1] IN n \in Moves /\ n.lands = revision
  <2>1. m \in Moves /\ m.lands = revision /\ changes + 1 \in Nat
        BY DEF IInv, MotionSound, MovingSound
  <2> QED BY <2>1 DEF Moves
<1>5. MovingSound(moving)'
      BY <1>1, <1>4 DEF MovingSound, scene
<1>6. MotionSound'
      BY <1>1, <1>2, <1>5 DEF IInv, MotionSound
<1> QED BY <1>1, <1>3, <1>6, SameScene, NothingShown DEF IInv

\* Another size of the window keeps the invariant.
LEMMA ResizeKeeps == ASSUME IInv, NEW size \in Sizes, ResizeClient(size) PROVE IInv'
<1>1. size \in Nat /\ client \in Nat /\ client' = size
      BY PaintingAssumption DEF PaintingAssumption, IInv, SceneTyped, ResizeClient
<1>2. SceneTyped'
      BY <1>1 DEF IInv, SceneTyped, ResizeClient
<1>3. DeviceSound(device, client)'
      BY <1>1, ResizedSound, NotResizableSound, RecoveredSound DEF IInv, ResizeClient
<1> DEFINE left == IF moving' = {} THEN Unframed(analyzer) ELSE analyzer
<1>4. /\ moving' \in {{}, moving}
      /\ analyzer' = left \/ analyzer' \in Orphans(left)
      /\ overview' = overview \/ overview' \in Orphans(overview)
      /\ UNCHANGED <<revision, place, news, laid, details, labels>>
      /\ changes' \in {changes, changes + 1}
      BY DEF ResizeClient, Counted
<1>5. AnalyzerSound(left) /\ FramesSound(left, moving')
      BY <1>4, UnframedSound DEF IInv, CachesSound, MotionSound
<1> HIDE DEF left
<1>6. AnalyzerSound(analyzer') /\ FramesSound(analyzer', moving')
      BY <1>4, <1>5, OrphansSound
<1>7. OverviewSound(overview')
      BY <1>4, OrphansSound DEF IInv, CachesSound
<1>8. CachesSound'
      BY <1>4, <1>6, <1>7 DEF IInv, CachesSound
<1>9. MotionSound'
      BY <1>4, <1>6 DEF IInv, MotionSound, MovingSound
<1>10. PresentedIsCurrent' /\ FrameShownIsCurrent'
  <2>1. CASE shown' = {}
        BY <2>1, NothingShown
  <2>2. CASE size = client /\ shown' = shown /\ device'.target = 0
    <3>1. Wanted' = Wanted /\ Geometry' = Geometry /\ view' = view /\ revision' = revision
          BY <1>1, <2>2 DEF Wanted, Geometry, ResizeClient
    <3>2. PresentedIsCurrent'
          BY <1>1, <2>2, <3>1 DEF IInv, PresentedIsCurrent
    <3>3. FrameShownIsCurrent'
          BY <2>2, <3>1 DEF IInv, FrameShownIsCurrent
    <3> QED BY <3>2, <3>3
  <2> QED BY <2>1, <2>2 DEF ResizeClient, Invalidate
<1> QED BY <1>2, <1>3, <1>8, <1>9, <1>10 DEF IInv

\* Every step keeps the invariant.
LEMMA StepKeeps == IInv /\ [PaintNext]_paintVars => IInv'
<1> SUFFICES ASSUME IInv, [PaintNext]_paintVars PROVE IInv'
    OBVIOUS
<1>1. CASE Paint
      BY <1>1, PaintGivesUpKeeps, PaintPresentsKeeps, PaintRefusedKeeps, PaintLosesDeviceKeeps
      DEF Paint
<1>2. ASSUME NEW s \in SettingNames, ChangeSetting(s) PROVE IInv'
      BY <1>2, ChangeSettingKeeps
<1>3. CASE SetScanStatuses
      BY <1>3, SetScanStatusesKeeps
<1>4. CASE ReflowChart
      BY <1>4, ReflowChartKeeps
<1>5. CASE Navigate
      BY <1>5, NavigateKeeps
<1>6. ASSUME NEW size \in Sizes, ResizeClient(size) PROVE IInv'
      BY <1>6, ResizeKeeps
<1>7. CASE AdvanceFrame \/ CancelMove
      BY <1>7, TransitionKeeps
<1>8. CASE Uncovered
  <2>1. CachesSound' /\ MotionSound'
        BY <1>8 DEF Uncovered, IInv, CachesSound, MotionSound, MovingSound, caches, scene
  <2> QED BY <1>8, <2>1, SameScene, NothingShown DEF Uncovered, Invalidate, IInv, scene
<1>9. CASE UNCHANGED paintVars
  <2>1. CachesSound' /\ SceneTyped' /\ DeviceSound(device, client)'
        BY <1>9 DEF paintVars, IInv, CachesSound, caches, scene, SceneTyped
  <2>2. Wanted' = Wanted /\ Geometry' = Geometry
        BY <1>9 DEF paintVars, scene, Wanted, Geometry
  <2>3. PresentedIsCurrent' /\ FrameShownIsCurrent'
        BY <1>9, <2>2 DEF paintVars, scene, IInv, PresentedIsCurrent, FrameShownIsCurrent
  <2>4. MotionSound'
        BY <1>9 DEF paintVars, scene, caches, IInv, MotionSound, MovingSound
  <2> QED BY <2>1, <2>3, <2>4 DEF IInv
<1> QED BY <1>1, <1>2, <1>3, <1>4, <1>5, <1>6, <1>7, <1>8, <1>9 DEF PaintNext

\* Device, caches and screen are sound in every behaviour.
THEOREM PaintingInvariant == PaintSpec => []IInv
<1>1. PaintInit => IInv
      BY Initially
<1>2. IInv /\ [PaintNext]_paintVars => IInv'
      BY StepKeeps
<1> QED BY <1>1, <1>2, PTL DEF PaintSpec

\* A frame is drawn into a buffer the chain shows, however often the device was lost,
\* resized or only made in part.
THEOREM TargetStaysWithChain == PaintSpec => []TargetIsOfChain
<1>1. IInv => TargetIsOfChain
      BY DEF IInv, DeviceSound, TargetIsOfChain
<1> QED BY <1>1, PaintingInvariant, PTL

\* Brushes, rows, trail and chart that were presented and not asked to be painted again
\* are those of the settings, the scans, the place and the window there are, but for the
\* widths of the trail.
THEOREM ShownIsCurrent == PaintSpec => []PresentedIsCurrent
<1>1. IInv => PresentedIsCurrent
      BY DEF IInv
<1> QED BY <1>1, PaintingInvariant, PTL

\* A frame that was presented is the one its transition is at, and leads to the chart
\* there is.
THEOREM FrameIsCurrent == PaintSpec => []FrameShownIsCurrent
<1>1. IInv => FrameShownIsCurrent
      BY DEF IInv
<1> QED BY <1>1, PaintingInvariant, PTL
=============================================================================
