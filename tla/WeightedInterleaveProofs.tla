----------------------- MODULE WeightedInterleaveProofs -----------------------
(***************************************************************************)
(* Proofs about WeightedInterleave, for any number of nodes, any weights   *)
(* and any segment: the parts of the entries bind the aligned range of the *)
(* segment, nothing else and all of it that the weights do not lack, and   *)
(* with ascending weights each node gets its weight of the pages, but for  *)
(* what the weights are over a hundred percent.                            *)
(***************************************************************************)
EXTENDS WeightedInterleave, InductionFacts, FiniteSetTheorems, TLAPS

\* The errors of all the shares together are less than a page.
ErrorsFitPage == N * (FloatError + 1) < PageSize

(***************************************************************************)
(* Pages and tables.                                                       *)
(***************************************************************************)
\* Rounding a length up to pages covers it with as few pages as can be.
LEMMA PagesUpFacts ==
  ASSUME NEW x \in Nat
  PROVE  /\ PagesUp(x) \in Nat
         /\ PagesUp(x) * PageSize >= x
         /\ PagesUp(x) * PageSize <= x + PageSize
         /\ PagesUp(x) <= PagesDown(x) + 1
BY SizesAssumption DEF PagesUp, PagesDown

LEMMA PagesDownFacts ==
  ASSUME NEW x \in Nat, NEW y \in Nat, x <= y
  PROVE  /\ PagesDown(x) \in Nat
         /\ PagesDown(x) <= PagesDown(y)
         /\ PagesDown(x) <= PagesUp(y)
BY SizesAssumption DEF PagesUp, PagesDown

\* The aligned range of a segment is a range of the pages.
LEMMA RangeFacts ==
  ASSUME NEW s \in Segments
  PROVE  /\ FirstPage(s) \in Nat
         /\ PageCount(s) \in Nat
         /\ FirstPage(s) .. (FirstPage(s) + PageCount(s) - 1) \subseteq Pages
<1>1. s.start \in Nat /\ s.end \in Nat /\ s.start <= s.end
  BY SegmentsAssumption
<1>2. /\ PagesDown(s.start) \in Nat
      /\ PagesDown(s.end) \in Nat
      /\ PagesDown(s.start) <= PagesUp(s.end)
  BY <1>1, PagesDownFacts
<1>3. PagesUp(s.end) \in Nat /\ PagesUp(s.end) <= PagesDown(s.end) + 1
  BY <1>1, PagesUpFacts
<1>4. PagesDown(s.start) .. PagesDown(s.end) \subseteq Pages
  BY PagesAssumption DEF PagesDown
<1> QED
  BY <1>2, <1>3, <1>4 DEF FirstPage, PageCount

\* The weights of a table are what it sums up.
LEMMA WeightFacts ==
  ASSUME NEW t \in Tables
  PROVE  /\ \A k \in 0..N : Weight(t, k) \in Int /\ SumUpTo(t, k) \in Int
         /\ \A k \in 1..N : SumUpTo(t, k) = SumUpTo(t, k - 1) + Weight(t, k)
         /\ Weight(t, 0) = 0 /\ SumUpTo(t, 0) = 0 /\ Total(t) \in Int
<1>1. N \in Nat
  BY SizesAssumption
<1>2. /\ \A k \in 0..N : SumUpTo(t, k) \in Int
      /\ SumUpTo(t, 0) = 0
  BY TablesAssumption
<1>3. Weight(t, 0) = 0
  BY DEF Weight
<1>4. ASSUME NEW k \in 1..N
      PROVE  SumUpTo(t, k) = SumUpTo(t, k - 1) + Weight(t, k) /\ Weight(t, k) \in Int
  <2>1. k \in 0..N /\ k - 1 \in 0..N /\ k # 0
    BY <1>1
  <2>2. Weight(t, k) = SumUpTo(t, k) - SumUpTo(t, k - 1)
    BY <2>1 DEF Weight
  <2>3. SumUpTo(t, k) \in Int /\ SumUpTo(t, k - 1) \in Int
    BY <1>2, <2>1
  <2> QED
    BY <2>2, <2>3
<1>5. ASSUME NEW k \in 0..N PROVE Weight(t, k) \in Int
  <2>1. k = 0 \/ k \in 1..N
    BY <1>1
  <2> QED
    BY <1>3, <1>4, <2>1
<1>6. Total(t) \in Int
  BY <1>1, <1>2 DEF Total
<1> QED
  BY <1>2, <1>3, <1>4, <1>5, <1>6

(***************************************************************************)
(* The arithmetic of the shares.                                           *)
(***************************************************************************)
\* What an entry may be short of its portion, and over it, in wholes of a byte.
Lack == Whole * (FloatError + 1)
Over == Whole * (PageSize + FloatError)

LEMMA Margins ==
  /\ Lack \in Nat /\ Over \in Nat /\ Whole \in Nat /\ Whole > 0
  /\ Lack = Whole * FloatError + Whole
  /\ Over = Whole * PageSize + Whole * FloatError
  /\ Whole * FloatError \in Nat /\ Whole * PageSize \in Nat
<1>1. Whole \in Nat /\ Whole > 0 /\ FloatError \in Nat /\ PageSize \in Nat
  BY SizesAssumption
<1> QED
  BY <1>1 DEF Lack, Over

\* The whole number of Wholes in x.
LEMMA Division ==
  ASSUME NEW x \in Nat
  PROVE  /\ x \div Whole \in Nat /\ Whole * (x \div Whole) <= x
         /\ x <= Whole * (x \div Whole) + Whole
<1>1. Whole \in Nat /\ Whole > 0
  BY SizesAssumption
<1>2. x % Whole \in Nat /\ x % Whole < Whole /\ x \div Whole \in Nat
      /\ x = Whole * (x \div Whole) + (x % Whole)
  BY <1>1
<1>3. Whole * (x \div Whole) \in Nat
  BY <1>1, <1>2
<1> QED
  BY <1>1, <1>2, <1>3

\* A share rounded up to pages is no less than x wholes but for Lack, and no more than
\* that but for Over.
LEMMA ShareBound ==
  ASSUME NEW x \in Nat, NEW share \in Nat,
         (x \div Whole) - FloatError <= share, share <= (x \div Whole) + FloatError
  PROVE  /\ Whole * (PagesUp(share) * PageSize) + Lack >= x
         /\ Whole * (PagesUp(share) * PageSize) <= x + Over
<1> DEFINE d == x \div Whole
           wd == Whole * d
           bytes == PagesUp(share) * PageSize
<1>1. d \in Nat /\ wd \in Nat /\ wd <= x /\ x <= wd + Whole
  BY Division, SizesAssumption
<1>2. PagesUp(share) \in Nat /\ bytes >= share /\ bytes <= share + PageSize
  BY PagesUpFacts
<1>3. bytes \in Nat
  BY <1>2, SizesAssumption
<1>4. Whole \in Nat /\ FloatError \in Nat /\ PageSize \in Nat
  BY SizesAssumption
<1>5. d <= bytes + FloatError /\ bytes <= d + FloatError + PageSize
  BY <1>1, <1>2, <1>3, <1>4
<1> HIDE DEF bytes, d
<1>6. wd <= Whole * (bytes + FloatError)
  BY <1>1, <1>3, <1>4, <1>5
<1>7. Whole * bytes <= Whole * (d + FloatError + PageSize)
  BY <1>1, <1>3, <1>4, <1>5
<1>8. Whole * (bytes + FloatError) = Whole * bytes + Whole * FloatError
  BY <1>3, <1>4
<1>9. Whole * (d + FloatError + PageSize) = wd + Whole * FloatError + Whole * PageSize
  BY <1>1, <1>4
<1>10. Whole * bytes \in Nat
  BY <1>3, <1>4
<1> HIDE DEF wd
<1>11. Whole * bytes + Lack >= x
  BY <1>1, <1>6, <1>8, <1>10, Margins
<1>12. Whole * bytes <= x + Over
  BY <1>1, <1>7, <1>9, <1>10, Margins
<1> QED
  BY <1>11, <1>12 DEF bytes

\* What the entries account for grows by the portion of the next one.
LEMMA PortionAdds ==
  ASSUME NEW U \in Int, NEW V \in Int, NEW X \in Int, NEW Y \in Int,
         NEW n \in Int, NEW k \in Int, V = U + Y
  PROVE  V + (n - (k + 1)) * Y = U + (n - k) * X + (n - (k + 1) + 1) * (Y - X)
<1>1. (n - k) * Y = (n - (k + 1)) * Y + Y
  OBVIOUS
<1>2. (n - k) * (Y - X) = (n - k) * Y - (n - k) * X
  OBVIOUS
<1>3. n - (k + 1) + 1 = n - k
  OBVIOUS
<1>4. (n - k) * Y \in Int /\ (n - k) * X \in Int /\ (n - (k + 1)) * Y \in Int
  OBVIOUS
<1> QED
  BY <1>1, <1>2, <1>3, <1>4

(***************************************************************************)
(* The inductive invariant.                                                *)
(***************************************************************************)
LEMMA InitInvariant == Init => IInv
<1> SUFFICES ASSUME Init
             PROVE  IInv
  OBVIOUS
<1> USE DEF Init
<1>1. size \in Nat
  BY RangeFacts DEF size
<1>2. SumUpTo(table, 0) = 0 /\ Weight(table, 0) = 0
  BY TablesAssumption DEF Weight
<1>3. TypeOK
  BY <1>1, SizesAssumption DEF TypeOK, Schemes, Unplaced
<1>4. ShortfallBounded
<2>1. Accounted = 0
<3>1. (N - 0) * 0 = 0
  BY SizesAssumption
<3> QED
  BY <1>2, <3>1 DEF Accounted
<2>2. Whole * (total_size * PageSize) = 0 /\ i * (Whole * (FloatError + 1)) = 0
<3>1. 0 * PageSize = 0 /\ Whole * 0 = 0 /\ 0 * Lack = 0
  BY Margins, SizesAssumption
<3> QED
  BY <3>1 DEF Lack
<2>3. Accounted * (size * PageSize) = 0
  BY <1>1, <2>1, SizesAssumption
<2> QED
  BY <2>2, <2>3 DEF ShortfallBounded
<1>5. BoundInOrder
  BY RangeFacts DEF BoundInOrder, Unplaced
<1>6. NodesLeft
<2>1. \A k \in 1..N : table.id[k] \in Nodes
  BY TablesAssumption
<2> QED
  BY <2>1 DEF NodesLeft
<1>7. pc = "done" /\ Length(segment) > PlaceMin => i = N \/ total_size = size
  OBVIOUS
<1> QED
  BY <1>2, <1>3, <1>4, <1>5, <1>6, <1>7 DEF IInv

\* What entry i + 1 places, and what it accounts for.
LEMMA EntryFacts ==
  ASSUME IInv, PlaceNext
  PROVE  \E my_size \in Nat :
           /\ my_size <= size - total_size
           /\ total_size' = total_size + my_size
           /\ policy' = Bind(my_size, Mask(i + 1))
           /\ Portion(i + 1) \in Int
           /\ Accounted \in Int /\ Accounted' = Accounted + Portion(i + 1)
           /\ \/ total_size' = size
              \/ Whole * (my_size * PageSize) + Lack >= Portion(i + 1) * (size * PageSize)
           /\ Portion(i + 1) >= 0 =>
                Whole * (my_size * PageSize) <= Portion(i + 1) * (size * PageSize) + Over
<1> DEFINE portion == Portion(i + 1)
           target == portion * (size * PageSize)
<1>1. /\ i \in Nat /\ i < N /\ i \in 0..N /\ i + 1 \in 1..N /\ i + 1 \in 0..N /\ (i + 1) - 1 = i
      /\ N \in Nat /\ table \in Tables /\ scheme \in Schemes
  BY SizesAssumption DEF IInv, TypeOK, PlaceNext
<1>2. /\ SumUpTo(table, i) \in Int /\ SumUpTo(table, i + 1) \in Int
      /\ Weight(table, i) \in Int /\ Weight(table, i + 1) \in Int
      /\ SumUpTo(table, i + 1) = SumUpTo(table, i) + Weight(table, i + 1)
<2>1. /\ \A k \in 0..N : Weight(table, k) \in Int /\ SumUpTo(table, k) \in Int
      /\ \A k \in 1..N : SumUpTo(table, k) = SumUpTo(table, k - 1) + Weight(table, k)
  BY <1>1, WeightFacts
<2>2. SumUpTo(table, i + 1) = SumUpTo(table, (i + 1) - 1) + Weight(table, i + 1)
  BY <1>1, <2>1
<2> QED
  BY <1>1, <2>1, <2>2
<1>3. w = Weight(table, i) /\ i' = i + 1 /\ table' = table /\ scheme' = scheme
  BY DEF IInv, PlaceNext
<1>4. portion \in Int /\ Accounted \in Int /\ Accounted' = Accounted + portion
<2> DEFINE u == SumUpTo(table, i)
           v == SumUpTo(table, i + 1)
           x == Weight(table, i)
           y == Weight(table, i + 1)
<2>1. Accounted' = IF scheme = "interleave" THEN v + (N - (i + 1)) * y ELSE v
  BY <1>3 DEF Accounted, SumUpTo, Weight
<2>2. Accounted = IF scheme = "interleave" THEN u + (N - i) * x ELSE u
  BY DEF Accounted
<2>3. portion = IF scheme = "interleave" THEN (N - (i + 1) + 1) * (y - x) ELSE y
  BY <1>3 DEF Portion
<2>4. u \in Int /\ v \in Int /\ x \in Int /\ y \in Int /\ v = u + y
  BY <1>2
<2> HIDE DEF u, v, x, y, portion
<2>5. v + (N - (i + 1)) * y = u + (N - i) * x + (N - (i + 1) + 1) * (y - x)
  BY <1>1, <2>4, PortionAdds
<2>6. (N - i) * x \in Int /\ (N - (i + 1) + 1) * (y - x) \in Int
  BY <1>1, <2>4
<2> QED
  BY <2>1, <2>2, <2>3, <2>4, <2>5, <2>6
<1>5. PICK share \in Shares(i + 1) :
        /\ policy' = Bind(MySize(share), Mask(i + 1))
        /\ total_size' = total_size + MySize(share)
  BY DEF PlaceNext
<1>6. size \in Nat /\ total_size \in Nat /\ total_size <= size /\ PageSize \in Nat /\ PageSize > 0
  BY RangeFacts, SizesAssumption DEF IInv, TypeOK, size
<1>7. size * PageSize \in Nat /\ target \in Int
<2>1. size * PageSize \in Nat
  BY <1>6
<2> QED
  BY <1>4, <2>1
<1>8. CASE portion < 0
<2>1. share \in {0, size * PageSize}
  BY <1>5, <1>8 DEF Shares
<2>2. share \in Nat
  BY <1>7, <2>1
<2>3. PagesUp(share) \in Nat
  BY <2>2, PagesUpFacts
<2>4. MySize(share) \in Nat /\ MySize(share) <= size - total_size
  BY <1>6, <2>3 DEF MySize, Lesser
<2>5. Whole * (MySize(share) * PageSize) + Lack >= target
<3> DEFINE m == MySize(share)
<3>1. m \in Nat
  BY <2>4
<3> HIDE DEF m, portion
<3>2. target <= 0
  BY <1>4, <1>7, <1>8
<3>3. Whole * (m * PageSize) \in Nat
<4>1. m * PageSize \in Nat
  BY <1>6, <3>1
<4> QED
  BY <4>1, Margins
<3> HIDE DEF target
<3>4. Whole * (m * PageSize) + Lack >= target
  BY <1>7, <3>2, <3>3, Margins
<3> QED
  BY <3>4 DEF m
<2> QED
  BY <1>4, <1>5, <1>8, <2>4, <2>5
<1>9. CASE portion >= 0
<2>1. portion \in Nat /\ target \in Nat
<3> HIDE DEF portion
<3>1. portion \in Nat
  BY <1>4, <1>9
<3> QED
  BY <1>7, <3>1
<2>2. target \div Whole \in Nat
  BY <2>1, Division
<2>3. /\ share \in Nat
      /\ (target \div Whole) - FloatError <= share
      /\ share <= (target \div Whole) + FloatError
<3>1. CASE portion = 0
<4>1. share = 0
  BY <1>5, <3>1 DEF Shares
<4>2. target = 0
<5>1. 0 * (size * PageSize) = 0
  BY <1>7
<5> QED
  BY <3>1, <5>1
<4>3. Whole * (target \div Whole) <= 0
  BY <2>1, <4>2, Division
<4>4. target \div Whole = 0
<5> DEFINE d == target \div Whole
<5>1. d \in Nat /\ Whole * d <= 0
  BY <2>2, <4>3
<5> HIDE DEF d
<5>2. d = 0
  BY <5>1, Margins
<5> QED
  BY <5>2 DEF d
<4> QED
  BY <4>1, <4>4, SizesAssumption
<3>2. CASE portion # 0
<4>1. ~(portion < 0)
  BY <1>4, <1>9
<4>2. ExactShare(i + 1) = target \div Whole
  BY DEF ExactShare
<4>3. share \in (target \div Whole - FloatError) .. (target \div Whole + FloatError) /\ share >= 0
  BY <1>5, <3>2, <4>1, <4>2 DEF Shares
<4> DEFINE d == target \div Whole
<4>4. d \in Nat
  BY <2>2
<4> HIDE DEF target, portion
<4> QED
  BY <2>2, <4>3, SizesAssumption
<3> QED
  BY <3>1, <3>2
<2> DEFINE up == PagesUp(share)
<2>4. Whole * (up * PageSize) + Lack >= target /\ Whole * (up * PageSize) <= target + Over
<3> HIDE DEF target
<3> QED
  BY <2>1, <2>3, ShareBound
<2>5. up \in Nat
  BY <2>3, PagesUpFacts
<2> DEFINE m == MySize(share)
<2>6. m \in Nat /\ m <= size - total_size /\ (m = up \/ m = size - total_size) /\ m <= up
  BY <1>6, <2>5 DEF MySize, Lesser
<2>7. total_size' = size \/ m = up
  BY <1>5, <1>6, <2>6
<2>8. m * PageSize \in Nat /\ up * PageSize \in Nat /\ m * PageSize <= up * PageSize
<3> HIDE DEF m, up
<3> QED
  BY <1>6, <2>5, <2>6
<2>9. Whole * (m * PageSize) <= Whole * (up * PageSize)
<3> DEFINE x == m * PageSize
           y == up * PageSize
<3>1. x \in Nat /\ y \in Nat /\ x <= y
  BY <2>8
<3> HIDE DEF x, y
<3>2. Whole * x <= Whole * y
  BY <3>1, Margins
<3> QED
  BY <3>2 DEF x, y
<2>10. Whole * (m * PageSize) <= target + Over
<3> DEFINE x == Whole * (m * PageSize)
           y == Whole * (up * PageSize)
<3>1. x \in Int /\ y \in Int
  BY <2>8, Margins
<3>2. x <= y /\ y <= target + Over
  BY <2>4, <2>9
<3> HIDE DEF x, y, target
<3>3. x <= target + Over
  BY <1>7, <3>1, <3>2, Margins
<3> QED
  BY <3>3 DEF x
<2>11. total_size' = size \/ Whole * (m * PageSize) + Lack >= target
  BY <2>4, <2>7
<2> QED
  BY <1>4, <1>5, <2>6, <2>10, <2>11
<1> QED
  BY <1>4, <1>8, <1>9

LEMMA PlaceNextInvariant == IInv /\ PlaceNext => IInv'
<1> SUFFICES ASSUME IInv, PlaceNext
             PROVE  IInv'
  OBVIOUS
<1> DEFINE portion == Portion(i + 1)
<1> PICK my_size \in Nat :
      /\ my_size <= size - total_size
      /\ total_size' = total_size + my_size
      /\ policy' = Bind(my_size, Mask(i + 1))
      /\ portion \in Int
      /\ Accounted \in Int /\ Accounted' = Accounted + portion
      /\ \/ total_size' = size
         \/ Whole * (my_size * PageSize) + Lack >= portion * (size * PageSize)
  BY EntryFacts
<1> HIDE DEF portion
<1>1. /\ i \in Nat /\ i < N /\ i + 1 \in 1..N /\ i + 1 \in 0..N
      /\ table \in Tables /\ scheme \in Schemes /\ segment \in Segments
      /\ node_set \subseteq Nodes /\ policy \in [Pages -> SUBSET Nodes]
      /\ total_size \in Nat /\ pc = "loop"
  BY RangeFacts, SizesAssumption DEF IInv, TypeOK, PlaceNext, size
<1>2. /\ i' = i + 1 /\ w' = Weight(table, i + 1)
      /\ table' = table /\ scheme' = scheme /\ segment' = segment /\ pc' = pc
      /\ node_set' = AfterMask(i + 1) /\ total_size # size
  BY DEF PlaceNext
<1>3. /\ size \in Nat /\ size' = size /\ FirstPage(segment) \in Nat
      /\ FirstPage(segment) .. (FirstPage(segment) + size - 1) \subseteq Pages
      /\ PageSize \in Nat
  BY <1>1, <1>2, RangeFacts, SizesAssumption DEF size, FirstPage, PageCount
<1>4. table.id[i + 1] \in Nodes
  BY <1>1, TablesAssumption
<1>5. Mask(i + 1) \subseteq Nodes /\ Mask(i + 1) # {}
<2>1. CASE scheme = "interleave"
<3>1. i + 1 \in (i + 1)..N
  BY <1>1, SizesAssumption
<3>2. table.id[i + 1] \in node_set
  BY <2>1, <3>1 DEF IInv, NodesLeft
<3> QED
  BY <1>1, <2>1, <3>2 DEF Mask
<2>2. CASE scheme # "interleave"
  BY <1>1, <1>4, <2>2 DEF Mask
<2> QED
  BY <2>1, <2>2
<1>6. TypeOK'
<2>1. w' \in Int
  BY <1>1, <1>2, WeightFacts
<2>2. policy' \in [Pages -> SUBSET Nodes]
  BY <1>1, <1>5 DEF Bind
<2>3. node_set' \subseteq Nodes
  BY <1>2, <1>5 DEF AfterMask
<2>4. total_size' \in 0..size'
  BY <1>1, <1>3
<2> QED
  BY <1>1, <1>2, <2>1, <2>2, <2>3, <2>4, SizesAssumption DEF TypeOK
<1>7. (w = Weight(table, i))'
  BY <1>2 DEF Weight, SumUpTo
<1>8. ShortfallBounded'
<2>1. CASE total_size' = size
  BY <1>3, <2>1 DEF ShortfallBounded
<2>2. CASE total_size' # size
<3> DEFINE bytes == size * PageSize
           a == Whole * (total_size * PageSize)
           b == Whole * (my_size * PageSize)
           c == Accounted * bytes
           d == portion * bytes
           e == i * Lack
<3>1. a + e >= c /\ b + Lack >= d
  BY <1>2, <2>2 DEF IInv, ShortfallBounded, Lack
<3>2. bytes \in Nat /\ a \in Int /\ b \in Int
<4>1. total_size * PageSize \in Nat /\ my_size * PageSize \in Nat /\ size * PageSize \in Nat
  BY <1>1, <1>3
<4> QED
  BY <4>1, Margins
<3>3. (i + 1) * Lack = e + Lack /\ e \in Int
<4>1. Lack \in Int
  BY Margins
<4> QED
  BY <1>1, <4>1
<3>4. (Accounted + portion) * bytes = c + d /\ c \in Int /\ d \in Int
<4> HIDE DEF bytes
<4> QED
  BY <3>2
<3>5. Whole * ((total_size + my_size) * PageSize) = a + b
<4>1. (total_size + my_size) * PageSize = total_size * PageSize + my_size * PageSize
  BY <1>1, <1>3
<4> DEFINE f == total_size * PageSize
           g == my_size * PageSize
<4>2. f \in Nat /\ g \in Nat
  BY <1>1, <1>3
<4> HIDE DEF f, g
<4>3. Whole * (f + g) = Whole * f + Whole * g
  BY <4>2, Margins
<4> QED
  BY <4>1, <4>3 DEF f, g
<3> HIDE DEF a, b, c, d, e, bytes
<3>6. (a + b) + (e + Lack) >= c + d
  BY <3>1, <3>2, <3>3, <3>4, Margins
<3>7. Whole * (total_size' * PageSize) + i' * Lack >= Accounted' * bytes
  BY <1>2, <3>3, <3>4, <3>5, <3>6
<3> QED
  BY <1>3, <3>7 DEF ShortfallBounded, Lack, bytes
<2> QED
  BY <2>1, <2>2
<1>9. BoundInOrder'
<2> SUFFICES ASSUME NEW p \in Pages
             PROVE  policy'[p] # {} <=>
                      p \in FirstPage(segment) .. (FirstPage(segment) + total_size' - 1)
  BY <1>2 DEF BoundInOrder
<2>1. p \in Nat
  BY PagesAssumption
<2>2. policy[p] # {} <=> p \in FirstPage(segment) .. (FirstPage(segment) + total_size - 1)
  BY DEF IInv, BoundInOrder
<2>3. policy'[p] = IF p \in (FirstPage(segment) + total_size)
                              .. (FirstPage(segment) + total_size + my_size - 1)
                   THEN Mask(i + 1) ELSE policy[p]
  BY DEF Bind
<2> QED
  BY <1>1, <1>3, <1>5, <2>1, <2>2, <2>3
<1>10. NodesLeft'
<2> SUFFICES ASSUME scheme = "interleave", NEW k \in (i + 2)..N
             PROVE  table.id[k] \in node_set'
  BY <1>1, <1>2 DEF NodesLeft
<2>1. k \in 1..N /\ k \in (i + 1)..N /\ k # i + 1
  BY <1>1
<2>2. table.id[k] \in node_set
  BY <2>1 DEF IInv, NodesLeft
<2>3. table.id[k] # table.id[i + 1]
  BY <1>1, <2>1, TablesAssumption
<2> QED
  BY <1>2, <2>2, <2>3 DEF AfterMask, Mask
<1>11. (pc = "done" /\ Length(segment) > PlaceMin => i = N \/ total_size = size)'
  BY <1>1, <1>2
<1> QED
  BY <1>6, <1>7, <1>8, <1>9, <1>10, <1>11 DEF IInv

LEMMA NextInvariant == IInv /\ [Next]_vars => IInv'
<1> SUFFICES ASSUME IInv, [Next]_vars
             PROVE  IInv'
  OBVIOUS
<1> USE DEF IInv, TypeOK, ShortfallBounded, Accounted, BoundInOrder, NodesLeft, size,
            SumUpTo, Weight
<1>1. CASE PlaceNext
  BY <1>1, PlaceNextInvariant
<1>2. CASE MbindFails
  BY <1>2 DEF MbindFails
<1>3. CASE Finish
  BY <1>3 DEF Finish
<1>4. CASE UNCHANGED vars
  BY <1>4 DEF vars
<1> QED
  BY <1>1, <1>2, <1>3, <1>4 DEF Next

(***************************************************************************)
(* Theorems.                                                               *)
(***************************************************************************)
\* The inductive invariant: among the rest, the pages bound so far fall short of
\* the weight of the entries done by the rounding errors of the loop only.
THEOREM Invariance == Spec => []IInv
<1> QED
  BY InitInvariant, NextInvariant, PTL DEF Spec

\* The loop never binds a page outside the aligned range of the segment, for any
\* weights and however the float products come out.
THEOREM OnlyTheRange == Spec => []NothingElseBound
<1>1. IInv => NothingElseBound
<2> SUFFICES ASSUME IInv, NEW p \in Pages \ AlignedRange
             PROVE  policy[p] = {}
  BY DEF NothingElseBound
<2>1. p \in Nat /\ FirstPage(segment) \in Nat /\ total_size \in 0..size /\ size \in Nat
  BY PagesAssumption, RangeFacts DEF IInv, TypeOK, size
<2> QED
  BY <2>1 DEF IInv, BoundInOrder, AlignedRange
<1> QED
  BY <1>1, Invariance, PTL

\* If the errors of all shares together fit in a page, what the loop leaves unbound of
\* the range is what the weights lack of a hundred percent: the entries account for all
\* the weight there is, what else is missing is less than a page, and lengths are
\* multiples of a page.
THEOREM TailIsLack ==
  ASSUME ErrorsFitPage
  PROVE  Spec => []UnboundOnlyForLack
<1>1. IInv => UnboundOnlyForLack
<2> DEFINE short == Greater(Whole - Total(table), 0)
<2> SUFFICES ASSUME IInv, pc = "done", Length(segment) > PlaceMin,
                    NEW p \in AlignedRange, policy[p] = {}
             PROVE  Whole * (FirstPage(segment) + size - p) < short * size + Whole
  BY DEF UnboundOnlyForLack
<2>1. /\ size \in Nat /\ total_size \in Nat /\ total_size <= size /\ FirstPage(segment) \in Nat
      /\ AlignedRange \subseteq Pages /\ table \in Tables
      /\ N \in Nat /\ PageSize \in Nat /\ PageSize > 0 /\ FloatError \in Nat
      /\ Whole \in Nat /\ Whole > 0
  BY RangeFacts, SizesAssumption DEF IInv, TypeOK, size, AlignedRange
<2>2. p \in Nat /\ p >= FirstPage(segment) + total_size /\ p < FirstPage(segment) + size
<3>1. p \in Nat /\ p >= FirstPage(segment) /\ p < FirstPage(segment) + size
  BY <2>1 DEF AlignedRange
<3>2. p \notin FirstPage(segment) .. (FirstPage(segment) + total_size - 1)
  BY <2>1 DEF IInv, BoundInOrder
<3> QED
  BY <2>1, <3>1, <3>2
<2>3. i = N /\ total_size # size
  BY <2>1, <2>2 DEF IInv
<2>4. Total(table) \in Int /\ Accounted = Total(table)
<3>1. Total(table) \in Int /\ Weight(table, N) \in Int
  BY <2>1, WeightFacts
<3>2. (N - N) * Weight(table, N) = 0
  BY <2>1, <3>1
<3> QED
  BY <2>3, <3>1, <3>2 DEF Accounted, Total
<2>5. short \in Nat /\ Whole - Total(table) <= short
  BY <2>1, <2>4 DEF Greater
<2> DEFINE missing == size - total_size
           all == size * PageSize
           placed == total_size * PageSize
<2>6. Whole * placed + N * Lack >= Total(table) * all
  BY <2>3, <2>4 DEF IInv, ShortfallBounded, Lack
<2>7. N * Lack < Whole * PageSize /\ N * Lack \in Int
<3> DEFINE e == N * (FloatError + 1)
<3>1. e \in Nat /\ e < PageSize
  BY <2>1 DEF ErrorsFitPage
<3>2. N * Lack = Whole * e
  BY <2>1 DEF Lack
<3> HIDE DEF e
<3>3. Whole * e < Whole * PageSize
  BY <2>1, <3>1
<3> QED
  BY <2>1, <3>1, <3>2, <3>3
<2>8. Whole * (missing * PageSize) < short * all + Whole * PageSize
<3>1. all \in Nat /\ placed \in Nat /\ missing * PageSize = all - placed
  BY <2>1
<3>2. Whole * (all - placed) = Whole * all - Whole * placed
<4> HIDE DEF all, placed
<4> QED
  BY <2>1, <3>1
<3>3. (Whole - Total(table)) * all = Whole * all - Total(table) * all
      /\ (Whole - Total(table)) * all <= short * all
<4> HIDE DEF all, short
<4> QED
  BY <2>1, <2>4, <2>5, <3>1
<3>4. Whole * all \in Int /\ Whole * placed \in Int /\ Total(table) * all \in Int /\ short * all \in Int
<4> HIDE DEF all, placed, short
<4> QED
  BY <2>1, <2>4, <2>5, <3>1
<3>5. Whole * PageSize \in Int
  BY <2>1
<3> HIDE DEF all, placed, short, missing
<3> QED
  BY <2>6, <2>7, <3>1, <3>2, <3>3, <3>4, <3>5
<2>9. Whole * missing < short * size + Whole
<3> HIDE DEF short
<3>1. missing \in Nat
  BY <2>1
<3> HIDE DEF missing
<3>2. Whole * (missing * PageSize) = (Whole * missing) * PageSize /\ Whole * missing \in Int
  BY <2>1, <3>1
<3>3. short * all + Whole * PageSize = (short * size + Whole) * PageSize /\ short * size + Whole \in Int
  BY <2>1, <2>5
<3> DEFINE a == Whole * missing
           b == short * size + Whole
<3>4. a \in Int /\ b \in Int /\ a * PageSize < b * PageSize
  BY <2>8, <3>2, <3>3
<3> HIDE DEF a, b
<3>5. a < b
<4> SUFFICES ASSUME b <= a
             PROVE  FALSE
  BY <3>4
<4>1. b * PageSize <= a * PageSize
  BY <2>1, <3>4
<4>2. b * PageSize \in Int /\ a * PageSize \in Int
  BY <2>1, <3>4
<4> QED
  BY <3>4, <4>1, <4>2
<3> QED
  BY <3>5 DEF a, b
<2>10. Whole * (FirstPage(segment) + size - p) <= Whole * missing
<3> DEFINE left == FirstPage(segment) + size - p
<3>1. left \in Int /\ left <= missing /\ missing \in Int
  BY <2>1, <2>2
<3> HIDE DEF left, missing
<3>2. Whole * left <= Whole * missing
  BY <2>1, <3>1
<3> QED
  BY <3>2 DEF left
<2>11. /\ Whole * (FirstPage(segment) + size - p) \in Int
       /\ Whole * missing \in Int /\ short * size + Whole \in Int
<3>1. FirstPage(segment) + size - p \in Int /\ missing \in Int
  BY <2>1, <2>2
<3> HIDE DEF missing, short
<3> QED
  BY <2>1, <2>5, <3>1
<2> HIDE DEF missing, short
<2> QED
  BY <2>9, <2>10, <2>11
<1> QED
  BY <1>1, Invariance, PTL

(***************************************************************************)
(* The weights that remain.                                                *)
(***************************************************************************)
LEMMA WeightsRise ==
  ASSUME NEW t \in Tables, Sorted(t)
  PROVE  \A k \in 0..N : \A j \in 0..k : Weight(t, j) <= Weight(t, k) /\ Weight(t, j) \in Nat
<1> DEFINE f == [k \in 0..N |-> Weight(t, k)]
<1>1. N \in Nat
  BY SizesAssumption
<1>2. f \in [0..N -> Int] /\ \A k \in 0..N : f[k] = Weight(t, k)
  BY WeightFacts
<1>3. ASSUME NEW k \in 1..N PROVE f[k - 1] <= f[k]
  <2>1. k - 1 \in 0..N /\ k \in 0..N
    BY <1>1
  <2> QED BY <1>2, <2>1 DEF Sorted
<1> HIDE DEF f
<1>4. \A k \in 0..N : \A j \in 0..k : f[j] <= f[k]
  BY <1>1, <1>2, <1>3, NeverFalls, Zenon
<1>5. ASSUME NEW k \in 0..N PROVE Weight(t, k) \in Nat
  <2>1. 0 \in 0..N /\ 0 \in 0..k
    BY <1>1
  <2>2. f[0] <= f[k] /\ f[0] = Weight(t, 0) /\ f[k] = Weight(t, k) /\ f[k] \in Int
    BY <1>2, <1>4, <2>1
  <2>3. Weight(t, 0) = 0
    BY DEF Weight
  <2> QED BY <2>2, <2>3
<1>6. ASSUME NEW k \in 0..N, NEW j \in 0..k PROVE Weight(t, j) <= Weight(t, k) /\ Weight(t, j) \in Nat
  <2>1. j \in 0..N
    BY <1>1
  <2> QED BY <1>2, <1>4, <1>5, <2>1
<1> QED BY <1>6

\* Entries past the c-th have no less than its weight each.
LEMMA TailWeight ==
  ASSUME NEW t \in Tables, Sorted(t), NEW a \in 0..N, NEW b \in a..N, NEW c \in 0..(a + 1), c <= N
  PROVE  (b - a) * Weight(t, c) <= SumUpTo(t, b) - SumUpTo(t, a)
<1> DEFINE S == {k \in 0..(N - a) : k * Weight(t, c) <= SumUpTo(t, a + k) - SumUpTo(t, a)}
<1>1. N \in Nat /\ N - a \in Nat /\ c \in 0..N
  BY SizesAssumption
<1>2. Weight(t, c) \in Nat
  BY <1>1, WeightsRise
<1>3. \A k \in 0..N : SumUpTo(t, k) \in Int
  BY TablesAssumption
<1>4. 0 \in S /\ S \in SUBSET (0..(N - a))
  <2>1. 0 * Weight(t, c) = 0 /\ a + 0 = a
    BY <1>1, <1>2
  <2> QED BY <1>1, <1>3, <2>1
<1>5. ASSUME NEW k \in S, k < N - a PROVE k + 1 \in S
  <2>1. a + k \in 0..N /\ a + (k + 1) \in 1..N /\ a + (k + 1) \in 0..N
        /\ a + k = (a + (k + 1)) - 1 /\ c \in 0..(a + (k + 1)) /\ k \in Nat
    BY <1>1, <1>5
  <2>2. SumUpTo(t, a + (k + 1)) = SumUpTo(t, a + k) + Weight(t, a + (k + 1))
    <3>1. SumUpTo(t, a + (k + 1)) = SumUpTo(t, (a + (k + 1)) - 1) + Weight(t, a + (k + 1))
      BY <2>1, WeightFacts
    <3> QED BY <2>1, <3>1
  <2>3. Weight(t, c) <= Weight(t, a + (k + 1)) /\ Weight(t, a + (k + 1)) \in Nat
    <3>1. a + (k + 1) \in 0..(a + (k + 1))
      BY <1>1, <2>1
    <3> QED BY <2>1, <3>1, WeightsRise
  <2>4. (k + 1) * Weight(t, c) = k * Weight(t, c) + Weight(t, c) /\ k * Weight(t, c) \in Int
    BY <1>2, <2>1
  <2>5. k * Weight(t, c) <= SumUpTo(t, a + k) - SumUpTo(t, a)
    BY <1>5
  <2>6. (k + 1) * Weight(t, c) <= SumUpTo(t, a + (k + 1)) - SumUpTo(t, a)
    BY <1>2, <1>3, <2>1, <2>2, <2>3, <2>4, <2>5
  <2>7. k + 1 \in 0..(N - a)
    BY <1>1, <1>5, <2>1
  <2> QED BY <2>6, <2>7
<1> HIDE DEF S
<1>6. S = 0..(N - a)
  BY <1>1, <1>4, <1>5, BoundedInduction
<1>7. b - a \in 0..(N - a) /\ a + (b - a) = b
  BY <1>1
<1>8. b - a \in S
  BY <1>6, <1>7
<1> QED BY <1>7, <1>8 DEF S

\* What j entries account for in the interleave scheme is no more than the weight there
\* is, and a later entry adds no more than what is left.
AllottedUpTo(t, j) == SumUpTo(t, j) + (N - j) * Weight(t, j)
LEMMA RemainingWeight ==
  ASSUME NEW t \in Tables, Sorted(t), NEW j \in 0..N
  PROVE  /\ AllottedUpTo(t, j) <= Total(t) /\ AllottedUpTo(t, j) \in Int
         /\ \A k \in (j + 1)..N : /\ Weight(t, k) - Weight(t, j) \in Nat
                                  /\ Weight(t, k) - Weight(t, j) <= Total(t) - AllottedUpTo(t, j)
<1>1. N \in Nat
  BY SizesAssumption
<1>2. SumUpTo(t, j) \in Int /\ SumUpTo(t, N) \in Int /\ Total(t) = SumUpTo(t, N)
  BY <1>1, TablesAssumption DEF Total
<1>3. Weight(t, j) \in Nat
  <2>1. j \in 0..j
    BY <1>1
  <2> QED BY <2>1, WeightsRise
<1>4. AllottedUpTo(t, j) <= Total(t) /\ AllottedUpTo(t, j) \in Int
  <2>1. (N - j) * Weight(t, j) <= SumUpTo(t, N) - SumUpTo(t, j)
    <3>1. N \in j..N /\ j \in 0..(j + 1) /\ j <= N
      BY <1>1
    <3> QED BY <3>1, TailWeight
  <2>2. (N - j) * Weight(t, j) \in Int
    <3>1. N - j \in Int
      BY <1>1
    <3> QED BY <1>3, <3>1
  <2> DEFINE z == (N - j) * Weight(t, j)
  <2>3. z \in Int /\ z <= SumUpTo(t, N) - SumUpTo(t, j) /\ AllottedUpTo(t, j) = SumUpTo(t, j) + z
    BY <2>1, <2>2 DEF AllottedUpTo
  <2> HIDE DEF z
  <2> QED BY <1>2, <2>3
<1>5. ASSUME NEW k \in (j + 1)..N
      PROVE  /\ Weight(t, k) - Weight(t, j) \in Nat
             /\ Weight(t, k) - Weight(t, j) <= Total(t) - AllottedUpTo(t, j)
  <2> DEFINE x == Weight(t, j)
             y == Weight(t, k)
             m == N - k + 1
             n == k - 1 - j
  <2>1. k \in 0..N /\ k - 1 \in 0..N /\ m \in Nat /\ m >= 1 /\ n \in Nat /\ m + n = N - j
        /\ m = N - (k - 1) /\ n = (k - 1) - j
    BY <1>1
  <2>2. x \in Nat /\ y \in Nat /\ x <= y
    <3>1. j \in 0..k /\ k \in 0..k
      BY <1>1
    <3> QED BY <2>1, <3>1, WeightsRise
  <2>3. m * y <= SumUpTo(t, N) - SumUpTo(t, k - 1)
    <3>1. N \in (k - 1)..N /\ k \in 0..((k - 1) + 1) /\ k <= N
      BY <1>1
    <3>2. (N - (k - 1)) * y <= SumUpTo(t, N) - SumUpTo(t, k - 1)
      BY <2>1, <3>1, TailWeight
    <3> QED BY <2>1, <3>2
  <2>4. n * x <= SumUpTo(t, k - 1) - SumUpTo(t, j)
    <3>1. k - 1 \in j..N /\ j \in 0..(j + 1) /\ j <= N
      BY <1>1
    <3>2. ((k - 1) - j) * x <= SumUpTo(t, k - 1) - SumUpTo(t, j)
      BY <2>1, <3>1, TailWeight
    <3> QED BY <2>1, <3>2
  <2>5. SumUpTo(t, k - 1) \in Int
    BY <2>1, TablesAssumption
  <2>6. AllottedUpTo(t, j) = SumUpTo(t, j) + (m + n) * x
    BY <2>1 DEF AllottedUpTo
  <2> HIDE DEF x, y, m, n
  <2>7. /\ (m + n) * x = m * x + n * x /\ m * (y - x) = m * y - m * x
        /\ m * x \in Int /\ n * x \in Int /\ m * y \in Int
    BY <2>1, <2>2
  <2>8. m * (y - x) <= Total(t) - AllottedUpTo(t, j)
    BY <1>2, <2>3, <2>4, <2>5, <2>6, <2>7
  <2> DEFINE d == y - x
  <2>9. d \in Nat
    BY <2>2
  <2> HIDE DEF d
  <2>10. d <= m * d /\ m * d \in Int
    <3>1. 1 * d <= m * d /\ 1 * d = d
      BY <2>1, <2>9
    <3> QED BY <2>1, <2>9, <3>1
  <2>11. d <= Total(t) - AllottedUpTo(t, j)
    <3>1. m * d <= Total(t) - AllottedUpTo(t, j)
      BY <2>8 DEF d
    <3> QED BY <1>2, <1>4, <2>9, <2>10, <3>1
  <2> QED BY <2>9, <2>11 DEF d, x, y
<1> QED BY <1>4, <1>5

\* And so in the contiguous scheme.
LEMMA RemainingSum ==
  ASSUME NEW t \in Tables, Sorted(t), NEW j \in 0..N
  PROVE  /\ SumUpTo(t, j) <= Total(t)
         /\ \A k \in (j + 1)..N : Weight(t, k) \in Nat /\ Weight(t, k) <= Total(t) - SumUpTo(t, j)
<1>1. N \in Nat
  BY SizesAssumption
<1>2. \A k \in 0..N : SumUpTo(t, k) \in Int
  BY TablesAssumption
<1>3. ASSUME NEW a \in 0..N, NEW b \in a..N PROVE SumUpTo(t, a) <= SumUpTo(t, b)
  <2>1. 0 \in 0..(a + 1) /\ 0 <= N /\ b \in 0..N /\ b - a \in Nat
    BY <1>1
  <2>2. (b - a) * Weight(t, 0) <= SumUpTo(t, b) - SumUpTo(t, a)
    BY <2>1, TailWeight
  <2>3. Weight(t, 0) = 0 /\ (b - a) * 0 = 0
    BY <2>1 DEF Weight
  <2> QED BY <1>2, <2>1, <2>2, <2>3
<1>4. N \in 0..N /\ N \in j..N /\ Total(t) = SumUpTo(t, N)
  BY <1>1 DEF Total
<1>5. ASSUME NEW k \in (j + 1)..N
      PROVE  Weight(t, k) \in Nat /\ Weight(t, k) <= Total(t) - SumUpTo(t, j)
  <2>1. k \in 1..N /\ k \in 0..N /\ k - 1 \in 0..N /\ k - 1 \in j..N /\ N \in k..N /\ k \in 0..k
    BY <1>1
  <2>2. SumUpTo(t, k) = SumUpTo(t, k - 1) + Weight(t, k)
    BY <2>1, WeightFacts
  <2>3. Weight(t, k) \in Nat
    BY <2>1, WeightsRise
  <2>4. SumUpTo(t, j) <= SumUpTo(t, k - 1) /\ SumUpTo(t, k) <= SumUpTo(t, N)
    BY <1>3, <2>1
  <2>5. SumUpTo(t, j) \in Int /\ SumUpTo(t, k) \in Int /\ SumUpTo(t, k - 1) \in Int /\ SumUpTo(t, N) \in Int
    BY <1>2, <1>4, <2>1
  <2> HIDE DEF Weight, SumUpTo
  <2> QED BY <1>4, <2>2, <2>3, <2>4, <2>5
<1> QED BY <1>3, <1>4, <1>5

(***************************************************************************)
(* The parts of a page.                                                    *)
(***************************************************************************)
LEMMA ExactQuotient ==
  ASSUME NEW a \in Nat, NEW b \in Nat, b > 0, a % b = 0
  PROVE  a \div b \in Nat /\ b * (a \div b) = a
<1>1. a % b = a - b * (a \div b)
  OBVIOUS
<1>2. a \div b \in Nat
  OBVIOUS
<1> QED BY <1>1, <1>2

LEMMA EvenParts ==
  ASSUME NEW m \in 1..N
  PROVE  Parts \div m \in Nat /\ m * (Parts \div m) = Parts
<1>1. Parts \in Nat /\ Parts % m = 0 /\ m \in Nat /\ m > 0
  BY PartsAssumption, SizesAssumption
<1> QED BY <1>1, ExactQuotient

\* The part each node gets of a page interleaved over the nodes of the j-th entry.
Part(j) == Parts \div (N - j + 1)

LEMMA PartFacts ==
  ASSUME NEW j \in 1..N
  PROVE  Part(j) \in Nat /\ Part(j) <= Parts /\ (N - j + 1) * Part(j) = Parts
<1> DEFINE m == N - j + 1
<1>1. N \in Nat /\ Parts \in Nat
  BY SizesAssumption, PartsAssumption
<1>2. m \in 1..N /\ m \in Nat /\ m >= 1
  BY <1>1
<1>3. Part(j) \in Nat /\ m * Part(j) = Parts
  BY <1>2, EvenParts DEF Part
<1> HIDE DEF m
<1>4. 1 * Part(j) <= m * Part(j) /\ 1 * Part(j) = Part(j)
  BY <1>2, <1>3
<1>5. Part(j) <= Parts
  BY <1>3, <1>4
<1> QED BY <1>3, <1>5 DEF m

(***************************************************************************)
(* The parts of the range that a node has.                                 *)
(***************************************************************************)
\* PartsOfRange for a range of len pages from the page first on.
RangeParts(len, first, pol, n) ==
  LET upto[k \in 0..len] ==
        IF k = 0 THEN 0 ELSE upto[k - 1] + PartOfPage(n, pol[first + k - 1])
  IN  upto[len]

PagesFrom(len, first, pol) ==
  /\ len \in Nat /\ first \in Nat
  /\ \A k \in 1..len : pol[first + k - 1] \subseteq Nodes

PartSums(s, len, first, pol, n) ==
  /\ s \in [0..len -> Int] /\ s[0] = 0
  /\ \A k \in 1..len : s[k] = s[k - 1] + PartOfPage(n, pol[first + k - 1])

LEMMA PartOfPageType ==
  ASSUME NEW nodes \in SUBSET Nodes, NEW n PROVE PartOfPage(n, nodes) \in Nat
<1>1. CASE n \notin nodes
  BY <1>1 DEF PartOfPage
<1>2. CASE n \in nodes
  <2>1. IsFiniteSet(nodes) /\ Cardinality(nodes) <= N /\ Cardinality(nodes) \in Nat
    BY NodesAssumption, FS_Subset, FS_CardinalityType
  <2>2. Cardinality(nodes) # 0
    BY <1>2, <2>1, FS_EmptySet
  <2>3. Cardinality(nodes) \in 1..N
    BY <2>1, <2>2, SizesAssumption
  <2> QED BY <1>2, <2>3, EvenParts DEF PartOfPage
<1> QED BY <1>1, <1>2

LEMMA PartSumsExist ==
  ASSUME NEW len, NEW first, NEW pol, NEW n, PagesFrom(len, first, pol)
  PROVE  \E s : PartSums(s, len, first, pol, n) /\ RangeParts(len, first, pol, n) = s[len]
<1> DEFINE part(k) == PartOfPage(n, pol[first + k - 1])
           a == [k \in 1..len |-> part(k)]
           upto[k \in 0..len] == IF k = 0 THEN 0 ELSE upto[k - 1] + part(k)
<1>1. len \in Nat /\ \A k \in 1..len : part(k) \in Nat
  BY PartOfPageType DEF PagesFrom
<1>2. RangeParts(len, first, pol, n) = upto[len]
  BY DEF RangeParts
<1> HIDE DEF part
<1>3. a \in [1..len -> Int] /\ \A k \in 1..len : a[k] = part(k)
  BY <1>1
<1>4. PICK s \in [0..len -> Int] : s = [k \in 0..len |-> IF k = 0 THEN 0 ELSE s[k - 1] + a[k]]
  <2> HIDE DEF a
  <2> QED BY <1>1, <1>3, PartialSums
<1> HIDE DEF a
<1>5. s[0] = 0 /\ \A k \in 1..len : s[k] = s[k - 1] + part(k)
  <2>1. 0 \in 0..len /\ \A k \in 1..len : k \in 0..len /\ k # 0
    BY <1>1
  <2> QED BY <1>3, <1>4, <2>1
<1>6. s = [k \in 0..len |-> IF k = 0 THEN 0 ELSE s[k - 1] + part(k)]
  <2>1. \A k \in 0..len : s[k] = IF k = 0 THEN 0 ELSE s[k - 1] + part(k)
    <3>1. \A k \in 0..len : k = 0 \/ k \in 1..len
      BY <1>1
    <3>2. \A k \in 1..len : k # 0
      OBVIOUS
    <3> QED BY <1>5, <3>1, <3>2, Zenon
  <2> QED BY <2>1
<1>7. upto = [k \in 0..len |-> IF k = 0 THEN 0 ELSE upto[k - 1] + part(k)]
  BY <1>6
<1> HIDE DEF upto
<1> DEFINE S == {k \in 0..len : upto[k] = s[k]}
<1>8. 0 \in S /\ S \in SUBSET (0..len)
  BY <1>1, <1>5, <1>7
<1>9. ASSUME NEW k \in S, k < len PROVE k + 1 \in S
  <2>1. k + 1 \in 1..len /\ k + 1 \in 0..len /\ (k + 1) - 1 = k /\ k + 1 # 0
    BY <1>1, <1>9
  <2>2. upto[k + 1] = upto[k] + part(k + 1) /\ s[k + 1] = s[k] + part(k + 1)
    BY <1>5, <1>7, <2>1
  <2> QED BY <1>9, <2>1, <2>2
<1> HIDE DEF S
<1>10. S = 0..len
  BY <1>1, <1>8, <1>9, BoundedInduction
<1>11. len \in 0..len
  BY <1>1
<1>12. upto[len] = s[len]
  BY <1>10, <1>11 DEF S
<1>13. PartSums(s, len, first, pol, n)
  BY <1>5 DEF PartSums, part
<1> QED BY <1>2, <1>12, <1>13

\* No page, no part.
LEMMA NothingOfEmpty ==
  ASSUME NEW len, NEW first, NEW pol, NEW n, PagesFrom(len, first, pol),
         \A k \in 1..len : pol[first + k - 1] = {}
  PROVE  RangeParts(len, first, pol, n) = 0
<1>1. PICK s : PartSums(s, len, first, pol, n) /\ RangeParts(len, first, pol, n) = s[len]
  BY PartSumsExist
<1>2. len \in Nat
  BY DEF PagesFrom
<1>3. s[0] = 0 /\ \A k \in 1..len : s[k] = s[k - 1] + 0
  BY <1>1 DEF PartSums, PartOfPage
<1> DEFINE S == {k \in 0..len : s[k] = 0}
<1>4. 0 \in S /\ S \in SUBSET (0..len)
  BY <1>2, <1>3
<1>5. ASSUME NEW k \in S, k < len PROVE k + 1 \in S
  <2>1. k + 1 \in 1..len /\ k + 1 \in 0..len /\ (k + 1) - 1 = k
    BY <1>2, <1>5
  <2> QED BY <1>3, <1>5, <2>1
<1> HIDE DEF S
<1>6. S = 0..len
  BY <1>2, <1>4, <1>5, BoundedInduction
<1>7. len \in 0..len
  BY <1>2
<1>8. s[len] = 0
  BY <1>6, <1>7 DEF S
<1> QED BY <1>1, <1>8

\* The first pages are placed, done of them, and pol2 binds the next q to mask.
BindsNext(len, first, pol, pol2, done, q, mask) ==
  \A k \in 1..len :
    /\ k > done => pol[first + k - 1] = {}
    /\ pol2[first + k - 1] = IF k \in (done + 1)..(done + q) THEN mask ELSE pol[first + k - 1]

\* Binding the next q pages to some nodes gives each of them q times its part of one.
LEMMA BindAdds ==
  ASSUME NEW len, NEW first, NEW pol, NEW pol2, NEW n, NEW mask \in SUBSET Nodes,
         PagesFrom(len, first, pol), PagesFrom(len, first, pol2),
         NEW done \in Nat, NEW q \in Nat, done + q <= len,
         BindsNext(len, first, pol, pol2, done, q, mask)
  PROVE  RangeParts(len, first, pol2, n) = RangeParts(len, first, pol, n) + q * PartOfPage(n, mask)
<1> DEFINE c == PartOfPage(n, mask)
           more(k) == IF k <= done THEN 0 ELSE IF k <= done + q THEN k - done ELSE q
<1>1. PICK s : PartSums(s, len, first, pol, n) /\ RangeParts(len, first, pol, n) = s[len]
  BY PartSumsExist
<1>2. PICK u : PartSums(u, len, first, pol2, n) /\ RangeParts(len, first, pol2, n) = u[len]
  BY PartSumsExist
<1>3. len \in Nat /\ c \in Nat
  BY PartOfPageType DEF PagesFrom
<1>4. ASSUME NEW k \in 1..len
      PROVE  u[k] - u[k - 1] = (s[k] - s[k - 1]) + IF k \in (done + 1)..(done + q) THEN c ELSE 0
  <2>1. s[k - 1] \in Int /\ u[k - 1] \in Int
    <3>1. k - 1 \in 0..len
      BY <1>3
    <3> QED BY <1>1, <1>2, <3>1 DEF PartSums
  <2> DEFINE x == PartOfPage(n, pol[first + k - 1])
             y == PartOfPage(n, pol2[first + k - 1])
  <2>2. s[k] = s[k - 1] + x /\ u[k] = u[k - 1] + y
    BY <1>1, <1>2 DEF PartSums
  <2>3. x \in Nat /\ y \in Nat
    BY PartOfPageType DEF PagesFrom
  <2>4. CASE k \in (done + 1)..(done + q)
    <3>1. pol[first + k - 1] = {} /\ pol2[first + k - 1] = mask
      <4>1. k > done
        BY <2>4
      <4> QED BY <2>4, <4>1 DEF BindsNext
    <3>2. x = 0 /\ y = c
      BY <3>1 DEF PartOfPage
    <3> HIDE DEF x, y, c
    <3> QED BY <1>3, <2>1, <2>2, <2>4, <3>2
  <2>5. CASE k \notin (done + 1)..(done + q)
    <3>1. x = y
      BY <2>5 DEF BindsNext
    <3> HIDE DEF x, y, c
    <3> QED BY <1>3, <2>1, <2>2, <2>3, <2>5, <3>1
  <2> QED BY <2>4, <2>5
<1> HIDE DEF c
<1> DEFINE S == {k \in 0..len : u[k] = s[k] + more(k) * c}
<1>5. 0 \in S /\ S \in SUBSET (0..len)
  <2>1. more(0) = 0 /\ 0 * c = 0
    BY <1>3
  <2>2. u[0] = 0 /\ s[0] = 0
    BY <1>1, <1>2 DEF PartSums
  <2> QED BY <1>3, <2>1, <2>2
<1>6. ASSUME NEW k \in S, k < len PROVE k + 1 \in S
  <2>1. k + 1 \in 1..len /\ k + 1 \in 0..len /\ (k + 1) - 1 = k /\ k \in 0..len
    BY <1>3, <1>6
  <2>2. u[k] = s[k] + more(k) * c
    BY <1>6
  <2>3. u[k + 1] - u[k] = (s[k + 1] - s[k]) + IF k + 1 \in (done + 1)..(done + q) THEN c ELSE 0
    BY <1>4, <2>1
  <2>4. more(k) \in Nat /\ more(k + 1) = more(k) + IF k + 1 \in (done + 1)..(done + q) THEN 1 ELSE 0
    BY <2>1
  <2>5. u[k] \in Int /\ u[k + 1] \in Int /\ s[k] \in Int /\ s[k + 1] \in Int
    BY <1>1, <1>2, <2>1 DEF PartSums
  <2> HIDE DEF more
  <2>6. (more(k) + 1) * c = more(k) * c + c /\ (more(k) + 0) * c = more(k) * c /\ more(k) * c \in Int
    BY <1>3, <2>4
  <2>7. u[k + 1] = s[k + 1] + more(k + 1) * c
    <3> DEFINE x == more(k) * c
               y == more(k + 1) * c
    <3>1. x \in Int /\ y = x + IF k + 1 \in (done + 1)..(done + q) THEN c ELSE 0
      BY <1>3, <2>4, <2>6
    <3>2. u[k] = s[k] + x
      BY <2>2
    <3> HIDE DEF x, y
    <3>3. u[k + 1] = s[k + 1] + y
      BY <1>3, <2>3, <2>5, <3>1, <3>2
    <3> QED BY <3>3 DEF y
  <2> QED BY <2>1, <2>7
<1> HIDE DEF S
<1>7. S = 0..len
  BY <1>3, <1>5, <1>6, BoundedInduction
<1>8. len \in 0..len /\ more(len) = q
  BY <1>3
<1> HIDE DEF more
<1>9. u[len] = s[len] + more(len) * c
  BY <1>7, <1>8 DEF S
<1> QED BY <1>1, <1>2, <1>8, <1>9 DEF c

(***************************************************************************)
(* How far the pages placed are ahead of the weight accounted for, and a   *)
(* node of its share, if the weights ascend.                               *)
(***************************************************************************)
Bytes == size * PageSize
Ahead == Whole * (total_size * PageSize) - Accounted * Bytes
NeverFarAhead == Ahead <= i * Over

\* What the weights are over a hundred percent.
Beyond == Greater(Total(table) - Whole, 0) * Bytes

LEMMA AheadTypes ==
  ASSUME IInv
  PROVE  /\ Bytes \in Nat /\ Ahead \in Int /\ Beyond \in Nat /\ Accounted \in Int
         /\ Total(table) \in Int /\ size \in Nat /\ total_size \in Nat
<1>1. /\ N \in Nat /\ i \in Nat /\ i \in 0..N /\ table \in Tables /\ PageSize \in Nat
      /\ size \in Nat /\ total_size \in Nat
  BY RangeFacts, SizesAssumption DEF IInv, TypeOK, size
<1>2. SumUpTo(table, i) \in Int /\ Weight(table, i) \in Int /\ Total(table) \in Int
  BY <1>1, WeightFacts
<1>3. Accounted \in Int
  <2>1. (N - i) * Weight(table, i) \in Int
    BY <1>1, <1>2
  <2> QED BY <1>2, <2>1 DEF Accounted
<1>4. Bytes \in Nat
  BY <1>1 DEF Bytes
<1>5. Ahead \in Int
  <2>1. total_size * PageSize \in Nat /\ Accounted * Bytes \in Int
    BY <1>1, <1>3, <1>4
  <2>2. Whole * (total_size * PageSize) \in Int
    BY <2>1, Margins
  <2> QED BY <2>1, <2>2 DEF Ahead
<1>6. Beyond \in Nat
  <2>1. Greater(Total(table) - Whole, 0) \in Nat
    BY <1>2, Margins DEF Greater
  <2> QED BY <1>4, <2>1 DEF Beyond
<1> QED BY <1>1, <1>2, <1>3, <1>4, <1>5, <1>6

\* When the range is full, the entries to come lack what is ahead and what the weights
\* are over, at most.
LEMMA LeftOver ==
  IInv /\ Sorted(table) /\ total_size = size =>
    /\ Accounted <= Total(table)
    /\ (Total(table) - Accounted) * Bytes <= Ahead + Beyond
    /\ 0 <= (Total(table) - Accounted) * Bytes
<1> SUFFICES ASSUME IInv, Sorted(table), total_size = size
             PROVE  /\ Accounted <= Total(table)
                    /\ (Total(table) - Accounted) * Bytes <= Ahead + Beyond
                    /\ 0 <= (Total(table) - Accounted) * Bytes
  OBVIOUS
<1>1. table \in Tables /\ i \in 0..N /\ scheme \in Schemes
  BY DEF IInv, TypeOK
<1>2. Accounted <= Total(table)
  <2>1. AllottedUpTo(table, i) <= Total(table) /\ SumUpTo(table, i) <= Total(table)
    BY <1>1, RemainingWeight, RemainingSum
  <2> QED BY <2>1 DEF Accounted, AllottedUpTo
<1> DEFINE a == Accounted
           t == Total(table)
           o == Greater(Total(table) - Whole, 0)
<1>3. a \in Int /\ t \in Int /\ a <= t /\ Bytes \in Nat /\ Whole \in Nat
  BY <1>2, AheadTypes, Margins
<1>4. o \in Nat /\ t - Whole <= o
  BY <1>3 DEF Greater
<1>5. Ahead = Whole * Bytes - a * Bytes /\ Beyond = o * Bytes
  BY DEF Ahead, Bytes, Beyond
<1> HIDE DEF a, t, o
<1>6. (t - a) * Bytes = t * Bytes - a * Bytes /\ (t - Whole) * Bytes = t * Bytes - Whole * Bytes
  BY <1>3
<1>7. (t - Whole) * Bytes <= o * Bytes /\ 0 <= (t - a) * Bytes
  BY <1>3, <1>4
<1>8. t * Bytes \in Int /\ a * Bytes \in Int /\ Whole * Bytes \in Int /\ o * Bytes \in Int
  BY <1>3, <1>4
<1>9. (t - a) * Bytes <= Ahead + Beyond
  BY <1>5, <1>6, <1>7, <1>8
<1> QED BY <1>2, <1>7, <1>9 DEF a, t

\* No entry of an ascending table takes weight away.
LEMMA PortionRises ==
  ASSUME IInv, Sorted(table), PlaceNext
  PROVE  Portion(i + 1) >= 0
<1>1. /\ N \in Nat /\ i \in Nat /\ i < N /\ i + 1 \in 0..N /\ i \in 0..(i + 1) /\ i + 1 \in 0..(i + 1)
      /\ table \in Tables
  BY SizesAssumption DEF IInv, TypeOK, PlaceNext
<1> DEFINE x == Weight(table, i)
           y == Weight(table, i + 1)
<1>2. x \in Nat /\ y \in Nat /\ x <= y
  BY <1>1, WeightsRise
<1>3. Portion(i + 1) = IF scheme = "interleave" THEN (N - (i + 1) + 1) * (y - x) ELSE y
  BY DEF Portion, IInv
<1> HIDE DEF x, y
<1>4. N - (i + 1) + 1 \in Nat /\ y - x \in Nat
  BY <1>1, <1>2
<1>5. (N - (i + 1) + 1) * (y - x) >= 0
  BY <1>4
<1> QED BY <1>2, <1>3, <1>5

\* The parts of a node as a function of the variables.
LEMMA RangePartsOf == \A n : PartsOfRange(n) = RangeParts(size, FirstPage(segment), policy, n)
  BY DEF PartsOfRange, RangeParts

LEMMA RangeOfSegment ==
  IInv => PagesFrom(size, FirstPage(segment), policy) /\ size \in Nat /\ FirstPage(segment) \in Nat
<1> SUFFICES ASSUME IInv
             PROVE  PagesFrom(size, FirstPage(segment), policy) /\ size \in Nat /\ FirstPage(segment) \in Nat
  OBVIOUS
<1>1. /\ FirstPage(segment) \in Nat /\ size \in Nat
      /\ FirstPage(segment) .. (FirstPage(segment) + size - 1) \subseteq Pages
  BY RangeFacts DEF IInv, TypeOK, size
<1>2. ASSUME NEW k \in 1..size PROVE policy[FirstPage(segment) + k - 1] \subseteq Nodes
  <2>1. FirstPage(segment) + k - 1 \in FirstPage(segment) .. (FirstPage(segment) + size - 1)
    BY <1>1
  <2>2. FirstPage(segment) + k - 1 \in Pages
    BY <1>1, <2>1
  <2> QED BY <2>2 DEF IInv, TypeOK
<1> QED BY <1>1, <1>2 DEF PagesFrom

\* What an entry changes: how far ahead the pages are, and the parts of each node.
Gained(my_size) == Whole * (my_size * PageSize) - Portion(i + 1) * Bytes
LEMMA EntryEffect ==
  ASSUME IInv, Sorted(table), PlaceNext
  PROVE  \E my_size \in Nat :
           /\ size' = size /\ Bytes' = Bytes /\ table' = table /\ scheme' = scheme /\ i' = i + 1
           /\ Gained(my_size) \in Int /\ Gained(my_size) <= Over
           /\ Ahead' = Ahead + Gained(my_size)
           /\ total_size' = size' \/ -Lack <= Gained(my_size)
           /\ \A k \in 1..N :
                PartsOfRange(table.id[k])' =
                  PartsOfRange(table.id[k]) + my_size * PartOfPage(table.id[k], Mask(i + 1))
<1> DEFINE portion == Portion(i + 1)
<1>1. PICK my_size \in Nat :
           /\ my_size <= size - total_size
           /\ total_size' = total_size + my_size
           /\ policy' = Bind(my_size, Mask(i + 1))
           /\ portion \in Int
           /\ Accounted \in Int /\ Accounted' = Accounted + portion
           /\ \/ total_size' = size
              \/ Whole * (my_size * PageSize) + Lack >= portion * (size * PageSize)
           /\ portion >= 0 =>
                Whole * (my_size * PageSize) <= portion * (size * PageSize) + Over
  BY EntryFacts
<1>11. portion >= 0
  BY <1>1, PortionRises
<1> HIDE DEF portion
<1>2. table' = table /\ scheme' = scheme /\ segment' = segment /\ i' = i + 1
  BY DEF PlaceNext
<1>3. size' = size /\ FirstPage(segment') = FirstPage(segment) /\ Bytes' = Bytes
  BY <1>2 DEF size, Bytes, FirstPage, PageCount
<1>4. /\ size \in Nat /\ total_size \in Nat /\ PageSize \in Nat
      /\ FirstPage(segment) \in Nat /\ Bytes \in Nat
  <2>1. size \in Nat /\ total_size \in Nat /\ PageSize \in Nat /\ FirstPage(segment) \in Nat
    BY RangeFacts, SizesAssumption DEF IInv, TypeOK, size
  <2>2. Bytes \in Nat
    BY <2>1 DEF Bytes
  <2> QED BY <2>1, <2>2
<1> DEFINE x == my_size * PageSize
           y == portion * Bytes
           z == total_size * PageSize
           v == Accounted * Bytes
<1>5. /\ x \in Nat /\ y \in Int /\ z \in Nat /\ v \in Int
      /\ Gained(my_size) = Whole * x - y
  BY <1>1, <1>4 DEF Gained, portion
<1>6. Ahead = Whole * z - v /\ Ahead' = Whole * (z + x) - (v + y)
  <2>1. (total_size + my_size) * PageSize = z + x
    BY <1>4
  <2>2. (Accounted + portion) * Bytes = v + y
    BY <1>1, <1>4
  <2>3. Ahead' = Whole * ((total_size + my_size) * PageSize) - (Accounted + portion) * Bytes
    BY <1>1, <1>3 DEF Ahead
  <2> QED BY <2>1, <2>2, <2>3 DEF Ahead
<1>7. /\ Whole * x <= y + Over
      /\ total_size' = size' \/ Whole * x + Lack >= y
  BY <1>1, <1>3, <1>11 DEF Bytes
<1>8. /\ Gained(my_size) \in Int /\ Gained(my_size) <= Over
      /\ Ahead' = Ahead + Gained(my_size)
      /\ total_size' = size' \/ -Lack <= Gained(my_size)
  <2>1. Whole \in Nat /\ Lack \in Nat /\ Over \in Nat
    BY Margins
  <2> HIDE DEF x, y, z, v
  <2>2. Whole * (z + x) = Whole * z + Whole * x /\ Whole * z \in Int /\ Whole * x \in Int
    BY <1>5, <2>1
  <2> QED BY <1>5, <1>6, <1>7, <2>1, <2>2
<1>9. ASSUME NEW n
      PROVE  RangeParts(size, FirstPage(segment), policy', n)
               = PartsOfRange(n) + my_size * PartOfPage(n, Mask(i + 1))
  <2> DEFINE first == FirstPage(segment)
  <2>2. PartsOfRange(n) = RangeParts(size, first, policy, n)
    BY RangePartsOf
  <2>3. PagesFrom(size, first, policy)
    BY RangeOfSegment
  <2>4. PagesFrom(size, first, policy')
    <3>1. IInv'
      BY PlaceNextInvariant
    <3>2. (IInv => PagesFrom(size, FirstPage(segment), policy))'
      BY RangeOfSegment, PTL
    <3>3. PagesFrom(size', FirstPage(segment'), policy')
      BY <3>1, <3>2
    <3> QED BY <1>3, <3>3
  <2>5. Mask(i + 1) \subseteq Nodes
    <3>1. table.id[i + 1] \in Nodes /\ node_set \subseteq Nodes
      <4>1. i + 1 \in 1..N
        BY SizesAssumption DEF IInv, TypeOK, PlaceNext
      <4> QED BY <4>1, TablesAssumption DEF IInv, TypeOK
    <3> QED BY <3>1 DEF Mask
  <2>6. ASSUME NEW k \in 1..size
        PROVE  /\ k > total_size => policy[first + k - 1] = {}
               /\ policy'[first + k - 1] =
                    IF k \in (total_size + 1)..(total_size + my_size) THEN Mask(i + 1)
                    ELSE policy[first + k - 1]
    <3>1. first + k - 1 \in Pages /\ first \in Nat
      <4>1. first .. (first + size - 1) \subseteq Pages
        BY RangeFacts DEF IInv, TypeOK, size
      <4>2. first + k - 1 \in first .. (first + size - 1) /\ first \in Nat
        BY <1>4
      <4> HIDE DEF first
      <4> QED BY <4>1, <4>2
    <3>2. k > total_size => policy[first + k - 1] = {}
      <4>1. policy[first + k - 1] # {} <=> first + k - 1 \in first .. (first + total_size - 1)
        BY <3>1 DEF IInv, BoundInOrder
      <4> HIDE DEF first
      <4> QED BY <1>4, <3>1, <4>1
    <3>3. policy'[first + k - 1] =
            IF first + k - 1 \in (first + total_size)..(first + total_size + my_size - 1)
            THEN Mask(i + 1) ELSE policy[first + k - 1]
      BY <1>1, <3>1 DEF Bind
    <3> HIDE DEF first
    <3>4. first + k - 1 \in (first + total_size)..(first + total_size + my_size - 1)
            <=> k \in (total_size + 1)..(total_size + my_size)
      BY <1>1, <1>4, <3>1
    <3> QED BY <3>2, <3>3, <3>4
  <2>7. total_size + my_size <= size
    BY <1>1, <1>4
  <2> DEFINE mask == Mask(i + 1)
  <2>8. mask \in SUBSET Nodes
    BY <2>5
  <2>9. BindsNext(size, first, policy, policy', total_size, my_size, mask)
    BY <2>6 DEF BindsNext
  <2>10. total_size \in Nat /\ my_size \in Nat
    BY <1>1, <1>4
  <2> HIDE DEF first, mask
  <2>11. RangeParts(size, first, policy', n) =
           RangeParts(size, first, policy, n) + my_size * PartOfPage(n, mask)
    BY <2>3, <2>4, <2>7, <2>8, <2>9, <2>10, BindAdds
  <2> QED BY <2>2, <2>11 DEF first, mask
<1>10. \A k \in 1..N :
         PartsOfRange(table.id[k])' =
           PartsOfRange(table.id[k]) + my_size * PartOfPage(table.id[k], Mask(i + 1))
  <2> SUFFICES ASSUME NEW k \in 1..N
               PROVE  PartsOfRange(table.id[k])' =
                        PartsOfRange(table.id[k]) + my_size * PartOfPage(table.id[k], Mask(i + 1))
    OBVIOUS
  <2>1. PartsOfRange(table.id[k])' = RangeParts(size, FirstPage(segment), policy', table.id[k])
    BY <1>2, <1>3 DEF PartsOfRange, RangeParts, FirstPage
  <2> QED BY <1>9, <2>1
<1> QED BY <1>2, <1>3, <1>8, <1>10

(***************************************************************************)
(* How far a node is from its share.                                       *)
(***************************************************************************)
\* By how much what the k-th entry's node has exceeds the weight x, in units of the
\* Whole-th of a part of a byte.
Off(k, x) == Whole * (PartsOfRange(table.id[k]) * PageSize) - Parts * (x * Bytes)

\* The weight that a node to come has been given pages for.
Base == IF scheme = "interleave" THEN Weight(table, i) ELSE 0

\* Each entry may round what the nodes to come have up, and down until the range is full.
Carried ==
  \A k \in (i + 1)..N :
    /\ Off(k, Base) <= Parts * (i * Over)
    /\ total_size # size => -(Parts * (i * Lack)) <= Off(k, Base)

\* A node whose entry is done, or for which nothing is left, has its weight but for
\* what all entries rounded and what the weights are over.
Low == (N - 1) * Over + N * Lack
Settled ==
  \A k \in 1..N :
    k <= i \/ total_size = size =>
      /\ Off(k, Weight(table, k)) <= Parts * (N * Over)
      /\ -(Parts * (Low + Beyond)) <= Off(k, Weight(table, k))

\* The nodes that still receive pages are those of the entries to come.
Left ==
  /\ scheme = "interleave" =>
       Cardinality(node_set) = N - i /\ \A k \in 1..i : table.id[k] \notin node_set
  /\ scheme = "contiguous" => node_set = {}
SInv == Left /\ (Sorted(table) => NeverFarAhead /\ Carried /\ Settled)

\* Pages bound to a node and others count their part for it, and weight added to each
\* of m nodes the m-th of their weight together.
LEMMA OffMoves ==
  ASSUME NEW old \in Int, NEW b \in Int, NEW q \in Int, NEW ps \in Int, NEW bytes \in Int,
         NEW m \in Int, NEW x \in Int, NEW y \in Int, NEW h \in Int
  PROVE  h * ((old + b * q) * ps) - (m * q) * (y * bytes)
           = (h * (old * ps) - (m * q) * (x * bytes)) + q * (h * (b * ps) - (m * (y - x)) * bytes)
<1>1. (old + b * q) * ps = old * ps + q * (b * ps)
  OBVIOUS
<1>2. (m * q) * (y * bytes) = (m * q) * (x * bytes) + q * ((m * (y - x)) * bytes)
  <2>1. y * bytes = x * bytes + (y - x) * bytes
    OBVIOUS
  <2>2. q * ((m * (y - x)) * bytes) = (m * q) * ((y - x) * bytes)
    OBVIOUS
  <2> DEFINE e == x * bytes
             f == (y - x) * bytes
             c == m * q
  <2>3. e \in Int /\ f \in Int /\ c \in Int
    OBVIOUS
  <2> HIDE DEF e, f, c
  <2>4. c * (e + f) = c * e + c * f
    BY <2>3
  <2> QED BY <2>1, <2>2, <2>4 DEF e, f, c
<1> DEFINE u == old * ps
           v == b * ps
           z == (m * (y - x)) * bytes
           c == (m * q) * (x * bytes)
<1>3. u \in Int /\ v \in Int /\ z \in Int /\ c \in Int
  <2>1. m * (y - x) \in Int /\ m * q \in Int /\ x * bytes \in Int
    OBVIOUS
  <2> QED BY <2>1
<1>4. (old + b * q) * ps = u + q * v /\ (m * q) * (y * bytes) = c + q * z
  BY <1>1, <1>2
<1> HIDE DEF u, v, z, c
<1>5. h * (u + q * v) = h * u + q * (h * v) /\ q * (h * v - z) = q * (h * v) - q * z
  <2>1. q * v \in Int /\ h * v \in Int
    BY <1>3
  <2>2. h * (u + q * v) = h * u + h * (q * v)
    BY <1>3, <2>1
  <2>3. h * (q * v) = q * (h * v)
    BY <1>3
  <2>4. q * (h * v - z) = q * (h * v) - q * z
    BY <1>3, <2>1
  <2> QED BY <2>2, <2>3, <2>4
<1>6. h * u \in Int /\ q * (h * v) \in Int /\ q * z \in Int
  <2>1. h * v \in Int
    BY <1>3
  <2> QED BY <1>3, <2>1
<1>7. h * (u + q * v) - (c + q * z) = (h * u - c) + q * (h * v - z)
  BY <1>3, <1>5, <1>6
<1> QED BY <1>4, <1>7 DEF u, v, z, c

\* A part of a page counts no more than the page.
LEMMA Scaled ==
  ASSUME NEW p \in Nat, NEW q \in Nat, q <= p, NEW g \in Int, NEW b \in Nat
  PROVE  /\ q * g \in Int /\ p * b \in Nat
         /\ g <= b => q * g <= p * b
         /\ -b <= g => -(p * b) <= q * g
<1>1. q * g \in Int /\ p * b \in Nat /\ q * b \in Nat /\ q * b <= p * b
  OBVIOUS
<1>2. g <= b => q * g <= q * b
  OBVIOUS
<1>3. -b <= g => -(q * b) <= q * g
  <2>1. -b <= g => q * (-b) <= q * g
    OBVIOUS
  <2>2. q * (-b) = -(q * b)
    OBVIOUS
  <2> QED BY <2>1, <2>2
<1> DEFINE x == q * g
           y == q * b
           z == p * b
<1>4. x \in Int /\ y \in Nat /\ z \in Nat /\ y <= z /\ (g <= b => x <= y) /\ (-b <= g => -y <= x)
  BY <1>1, <1>2, <1>3
<1> HIDE DEF x, y, z
<1>5. x \in Int /\ z \in Nat /\ (g <= b => x <= z) /\ (-b <= g => -z <= x)
  BY <1>4
<1> QED BY <1>5 DEF x, z

LEMMA LowType == Low \in Nat
<1>1. N - 1 \in Nat /\ N \in Nat
  BY SizesAssumption
<1>2. (N - 1) * Over \in Nat /\ N * Lack \in Nat
  BY <1>1, Margins
<1> QED BY <1>2 DEF Low

LEMMA PartsOfRangeType == IInv => \A n : PartsOfRange(n) \in Int
<1> SUFFICES ASSUME IInv, NEW n PROVE PartsOfRange(n) \in Int
  OBVIOUS
<1>1. PagesFrom(size, FirstPage(segment), policy) /\ size \in Nat
  BY RangeOfSegment
<1>2. PICK s : /\ PartSums(s, size, FirstPage(segment), policy, n)
               /\ RangeParts(size, FirstPage(segment), policy, n) = s[size]
  BY <1>1, PartSumsExist
<1>3. size \in 0..size
  BY <1>1
<1>4. s[size] \in Int
  BY <1>2, <1>3 DEF PartSums
<1> QED BY <1>2, <1>4, RangePartsOf

LEMMA SharesInit == Init => SInv
<1> SUFFICES ASSUME Init PROVE SInv
  OBVIOUS
<1>1. N \in Nat /\ N > 0 /\ PageSize \in Nat /\ Parts \in Nat
  BY SizesAssumption, PartsAssumption
<1>2. IInv
  BY InitInvariant
<1>3. i = 0 /\ total_size = 0 /\ table \in Tables /\ Weight(table, i) = 0
  BY DEF Init, Weight
<1>4. Accounted = 0
  <2>1. SumUpTo(table, 0) = 0
    BY <1>3, TablesAssumption
  <2>2. (N - 0) * 0 = 0
    BY <1>1
  <2> QED BY <1>3, <2>1, <2>2 DEF Accounted
<1>5. PagesFrom(size, FirstPage(segment), policy) /\ size \in Nat
  BY <1>2, RangeOfSegment
<1>6. Bytes \in Nat /\ Beyond \in Nat
  BY <1>2, AheadTypes
<1>7. Ahead = 0
  <2>1. 0 * PageSize = 0 /\ 0 * Bytes = 0 /\ Whole * 0 = 0
    BY <1>1, <1>6, Margins
  <2> QED BY <1>3, <1>4, <2>1 DEF Ahead
<1>8. \A n : PartsOfRange(n) = 0
  <2> SUFFICES ASSUME NEW n PROVE PartsOfRange(n) = 0
    OBVIOUS
  <2>1. ASSUME NEW k \in 1..size PROVE policy[FirstPage(segment) + k - 1] = {}
    <3>1. /\ FirstPage(segment) \in Nat
          /\ FirstPage(segment) .. (FirstPage(segment) + size - 1) \subseteq Pages
      BY <1>2, RangeFacts DEF IInv, TypeOK, size
    <3>2. FirstPage(segment) + k - 1 \in FirstPage(segment) .. (FirstPage(segment) + size - 1)
      BY <1>5, <3>1
    <3>3. FirstPage(segment) + k - 1 \in Pages
      BY <3>1, <3>2
    <3> QED BY <3>3 DEF Init, Unplaced
  <2>2. RangeParts(size, FirstPage(segment), policy, n) = 0
    BY <1>5, <2>1, NothingOfEmpty
  <2> QED BY <2>2, RangePartsOf
<1>9. NeverFarAhead
  <2>1. 0 * Over = 0
    BY Margins
  <2> QED BY <1>3, <1>7, <2>1 DEF NeverFarAhead
<1>10. ASSUME NEW k, NEW x, x = 0 \/ (x \in Int /\ Bytes = 0) PROVE Off(k, x) = 0
  <2>1. 0 * PageSize = 0 /\ Whole * 0 = 0 /\ Parts * 0 = 0 /\ 0 * Bytes = 0
    BY <1>1, <1>6, Margins
  <2>2. x * Bytes = 0
    <3>1. CASE x = 0
      BY <2>1, <3>1
    <3>2. CASE x \in Int /\ Bytes = 0
      <4>1. x * 0 = 0
        BY <3>2
      <4> QED BY <3>2, <4>1
    <3> QED BY <1>10, <3>1, <3>2
  <2> QED BY <1>8, <2>1, <2>2 DEF Off
<1>11. Carried
  <2>1. Base = 0
    BY <1>3 DEF Base
  <2>2. Parts * (0 * Over) = 0 /\ Parts * (0 * Lack) = 0
    <3>1. 0 * Over = 0 /\ 0 * Lack = 0 /\ Parts * 0 = 0
      BY <1>1, Margins
    <3> QED BY <3>1
  <2> QED BY <1>3, <1>10, <2>1, <2>2 DEF Carried
<1>12. Settled
  <2> SUFFICES ASSUME NEW k \in 1..N, k <= i \/ total_size = size
               PROVE  /\ Off(k, Weight(table, k)) <= Parts * (N * Over)
                      /\ -(Parts * (Low + Beyond)) <= Off(k, Weight(table, k))
    BY DEF Settled
  <2>1. size = 0
    BY <1>3
  <2>2. Bytes = 0
    <3>1. 0 * PageSize = 0
      BY <1>1
    <3> QED BY <2>1, <3>1 DEF Bytes
  <2>3. Weight(table, k) \in Int
    <3>1. k \in 0..N
      BY <1>1
    <3> QED BY <1>3, <3>1, WeightFacts
  <2>4. Off(k, Weight(table, k)) = 0
    BY <1>10, <2>2, <2>3
  <2>5. Low + Beyond \in Nat
    BY <1>6, LowType
  <2>6. Parts * (N * Over) \in Nat /\ Parts * (Low + Beyond) \in Nat
    <3>1. N * Over \in Nat
      BY <1>1, Margins
    <3> QED BY <1>1, <2>5, <3>1
  <2> QED BY <2>4, <2>6
<1>13. Left
  <2>1. scheme = "interleave" => node_set = Nodes
    BY DEF Init
  <2>2. scheme = "contiguous" => node_set = {}
    BY DEF Init
  <2>3. Cardinality(Nodes) = N - i
    BY <1>1, <1>3, NodesAssumption
  <2> QED BY <1>3, <2>1, <2>2, <2>3 DEF Left
<1> QED BY <1>9, <1>11, <1>12, <1>13 DEF SInv

\* The part of each page of the next entry that a node gets.
LEMMA EntryParts ==
  ASSUME IInv, Left, PlaceNext
  PROVE  /\ \A k \in 1..i : PartOfPage(table.id[k], Mask(i + 1)) = 0
         /\ scheme = "interleave" =>
              \A k \in (i + 1)..N : PartOfPage(table.id[k], Mask(i + 1)) = Part(i + 1)
         /\ scheme = "contiguous" =>
              /\ PartOfPage(table.id[i + 1], Mask(i + 1)) = Parts
              /\ \A k \in (i + 2)..N : PartOfPage(table.id[k], Mask(i + 1)) = 0
<1>1. N \in Nat /\ i \in Nat /\ i < N /\ i + 1 \in 1..N /\ table \in Tables /\ scheme \in Schemes
  BY SizesAssumption DEF IInv, TypeOK, PlaceNext
<1>2. CASE scheme = "interleave"
  <2>1. Mask(i + 1) = node_set
    BY <1>2 DEF Mask
  <2>2. ASSUME NEW k \in 1..i PROVE PartOfPage(table.id[k], Mask(i + 1)) = 0
    BY <1>2, <2>1 DEF Left, PartOfPage
  <2>3. ASSUME NEW k \in (i + 1)..N PROVE PartOfPage(table.id[k], Mask(i + 1)) = Part(i + 1)
    <3>1. table.id[k] \in node_set
      BY <1>2 DEF IInv, NodesLeft
    <3>2. Cardinality(node_set) = N - (i + 1) + 1
      BY <1>1, <1>2 DEF Left
    <3>3. Part(i + 1) = Parts \div (N - (i + 1) + 1)
      BY DEF Part
    <3> QED BY <2>1, <3>1, <3>2, <3>3 DEF PartOfPage
  <2> QED BY <1>2, <2>2, <2>3
<1>3. CASE scheme = "contiguous"
  <2>1. Mask(i + 1) = {table.id[i + 1]}
    BY <1>3 DEF Mask, Left
  <2>2. ASSUME NEW k \in 1..N, k # i + 1 PROVE PartOfPage(table.id[k], Mask(i + 1)) = 0
    <3>1. table.id[k] # table.id[i + 1]
      BY <1>1, <2>2, TablesAssumption
    <3> QED BY <2>1, <3>1 DEF PartOfPage
  <2>3. PartOfPage(table.id[i + 1], Mask(i + 1)) = Parts
    <3>1. Cardinality(Mask(i + 1)) = 1 /\ table.id[i + 1] \in Mask(i + 1)
      BY <2>1, FS_Singleton
    <3>2. Parts \div 1 = Parts
      BY PartsAssumption
    <3> QED BY <3>1, <3>2 DEF PartOfPage
  <2>4. \A k \in 1..i : k \in 1..N /\ k # i + 1
    BY <1>1
  <2>5. \A k \in (i + 2)..N : k \in 1..N /\ k # i + 1
    BY <1>1
  <2> QED BY <1>3, <2>2, <2>3, <2>4, <2>5
<1> QED BY <1>1, <1>2, <1>3 DEF Schemes

LEMMA LeftStep == IInv /\ Left /\ PlaceNext => Left'
<1> SUFFICES ASSUME IInv, Left, PlaceNext PROVE Left'
  OBVIOUS
<1>1. /\ N \in Nat /\ i \in Nat /\ i < N /\ i + 1 \in 1..N /\ table \in Tables /\ scheme \in Schemes
      /\ i' = i + 1 /\ table' = table /\ scheme' = scheme /\ node_set' = Mask(i + 1) \ {table.id[i + 1]}
  BY SizesAssumption DEF IInv, TypeOK, PlaceNext, AfterMask
<1>2. CASE scheme = "interleave"
  <2>1. node_set' = node_set \ {table.id[i + 1]}
    BY <1>1, <1>2 DEF Mask
  <2>2. table.id[i + 1] \in node_set
    <3>1. i + 1 \in (i + 1)..N
      BY <1>1
    <3> QED BY <1>2, <3>1 DEF IInv, NodesLeft
  <2>3. IsFiniteSet(node_set)
    BY NodesAssumption, FS_Subset DEF IInv, TypeOK
  <2>4. Cardinality(node_set') = Cardinality(node_set) - 1
    BY <2>1, <2>2, <2>3, FS_RemoveElement
  <2>5. Cardinality(node_set) = N - i
    BY <1>2 DEF Left
  <2>6. Cardinality(node_set') = N - i'
    BY <1>1, <2>4, <2>5
  <2>7. ASSUME NEW k \in 1..i' PROVE table'.id[k] \notin node_set'
    <3>1. k = i + 1 \/ k \in 1..i
      BY <1>1
    <3>2. \A m \in 1..i : table.id[m] \notin node_set
      BY <1>2 DEF Left
    <3> QED BY <1>1, <2>1, <3>1, <3>2
  <2> QED BY <1>1, <1>2, <2>6, <2>7 DEF Left
<1>3. CASE scheme = "contiguous"
  <2>1. node_set' = {}
    BY <1>1, <1>3 DEF Mask, Left
  <2> QED BY <1>1, <1>3, <2>1 DEF Left
<1> QED BY <1>1, <1>2, <1>3 DEF Schemes

LEMMA AheadStep == IInv /\ Sorted(table) /\ NeverFarAhead /\ PlaceNext => NeverFarAhead'
<1> SUFFICES ASSUME IInv, Sorted(table), NeverFarAhead, PlaceNext PROVE NeverFarAhead'
  OBVIOUS
<1>1. PICK my_size \in Nat :
        /\ i' = i + 1 /\ Gained(my_size) \in Int /\ Gained(my_size) <= Over
        /\ Ahead' = Ahead + Gained(my_size)
  BY EntryEffect
<1> DEFINE x == i * Over
           g == Gained(my_size)
<1>2. i \in Nat /\ Over \in Nat /\ Ahead \in Int
  BY AheadTypes, Margins, SizesAssumption DEF IInv, TypeOK
<1>3. (i + 1) * Over = x + Over /\ x \in Int
  BY <1>2
<1>4. Ahead <= x /\ g \in Int /\ g <= Over /\ Ahead' = Ahead + g
  BY <1>1 DEF NeverFarAhead
<1> HIDE DEF x, g
<1>5. Ahead + g <= x + Over
  BY <1>2, <1>3, <1>4
<1>6. Over' = Over
  BY DEF Over
<1> QED BY <1>1, <1>3, <1>4, <1>5, <1>6 DEF NeverFarAhead

\* What the next entry does to the nodes to come: its own node gets all of its weight; a
\* later one that of the entry, or nothing in the contiguous scheme.
Reached(k) == IF k = i + 1 THEN Weight(table, k) ELSE Base'
LEMMA EntryMoves ==
  ASSUME IInv, Sorted(table), Left, PlaceNext, NEW k \in (i + 1)..N, NEW my_size \in Nat,
         Bytes' = Bytes, table' = table,
         PartsOfRange(table.id[k])' =
           PartsOfRange(table.id[k]) + my_size * PartOfPage(table.id[k], Mask(i + 1))
  PROVE  \E q \in 0..Parts :
           /\ \A x : x = Reached(k) => Off(k, x)' = Off(k, Base) + q * Gained(my_size)
           /\ Off(k, Base) \in Int
<1>1. /\ N \in Nat /\ i \in Nat /\ i < N /\ i + 1 \in 1..N /\ i \in 0..N /\ i + 1 \in 0..N
      /\ k \in 1..N /\ k \in 0..N /\ (k # i + 1 => k \in (i + 2)..N)
      /\ table \in Tables /\ scheme \in Schemes /\ PageSize \in Nat /\ Parts \in Nat
  BY SizesAssumption, PartsAssumption DEF IInv, TypeOK, PlaceNext
<1>2. i' = i + 1 /\ scheme' = scheme
  BY DEF PlaceNext
<1> DEFINE old == PartsOfRange(table.id[k])
           x == Weight(table, i)
           y == Weight(table, i + 1)
           g == Gained(my_size)
<1>3. x \in Int /\ y \in Int /\ old \in Int /\ Bytes \in Int /\ Whole \in Int
  BY <1>1, WeightFacts, PartsOfRangeType, AheadTypes, Margins
<1>4. \A b \in Int : Whole * (old * PageSize) - Parts * (b * Bytes) \in Int
  <2> HIDE DEF old
  <2> QED BY <1>1, <1>3
<1>5. Off(k, Base) \in Int
  <2>1. Base \in Int
    BY <1>3 DEF Base
  <2>2. Off(k, Base) = Whole * (old * PageSize) - Parts * (Base * Bytes)
    BY DEF Off
  <2> QED BY <1>4, <2>1, <2>2
<1>6. CASE scheme = "interleave"
  <2> DEFINE q == Part(i + 1)
             m == N - i
  <2>1. q \in Nat /\ q <= Parts /\ m * q = Parts /\ m \in Int
    <3>1. N - (i + 1) + 1 = m
      BY <1>1
    <3> QED BY <1>1, <3>1, PartFacts
  <2>2. Base = x /\ Reached(k) = y
    BY <1>1, <1>2, <1>6 DEF Base, Reached, Weight, SumUpTo
  <2>3. PartOfPage(table.id[k], Mask(i + 1)) = q
    BY <1>6, EntryParts
  <2>4. g = Whole * (my_size * PageSize) - (m * (y - x)) * Bytes
    <3>1. Portion(i + 1) = (N - (i + 1) + 1) * (y - x)
      BY <1>6 DEF Portion, IInv
    <3>2. N - (i + 1) + 1 = m
      BY <1>1
    <3> QED BY <3>1, <3>2 DEF Gained
  <2>5. Off(k, x) = Whole * (old * PageSize) - Parts * (x * Bytes)
    BY DEF Off
  <2>6. \A b : Off(k, b)' = Whole * ((old + my_size * q) * PageSize) - Parts * (b * Bytes)
    BY <2>3 DEF Off
  <2> HIDE DEF old, x, y, g, q, m
  <2>7. Whole * ((old + my_size * q) * PageSize) - (m * q) * (y * Bytes)
          = (Whole * (old * PageSize) - (m * q) * (x * Bytes))
            + q * (Whole * (my_size * PageSize) - (m * (y - x)) * Bytes)
    BY <1>1, <1>3, <2>1, OffMoves
  <2>8. \A b : b = y => Off(k, b)' = Off(k, x) + q * g
    BY <2>1, <2>4, <2>5, <2>6, <2>7
  <2>9. q \in 0..Parts
    BY <1>1, <2>1
  <2> QED BY <1>5, <2>2, <2>8, <2>9 DEF g
<1>7. CASE scheme = "contiguous" /\ k = i + 1
  <2>1. Base = 0 /\ Reached(k) = y
    BY <1>7 DEF Base, Reached
  <2>2. PartOfPage(table.id[k], Mask(i + 1)) = Parts
    BY <1>7, EntryParts
  <2>3. g = Whole * (my_size * PageSize) - y * Bytes
    BY <1>7 DEF Gained, Portion
  <2>4. Off(k, 0) = Whole * (old * PageSize) - Parts * (0 * Bytes)
    BY DEF Off
  <2>5. \A b : Off(k, b)' = Whole * ((old + my_size * Parts) * PageSize) - Parts * (b * Bytes)
    BY <2>2 DEF Off
  <2> HIDE DEF old, x, y, g
  <2>6. Whole * ((old + my_size * Parts) * PageSize) - (1 * Parts) * (y * Bytes)
          = (Whole * (old * PageSize) - (1 * Parts) * (0 * Bytes))
            + Parts * (Whole * (my_size * PageSize) - (1 * (y - 0)) * Bytes)
    BY <1>1, <1>3, OffMoves
  <2>7. 1 * Parts = Parts /\ 1 * (y - 0) = y
    BY <1>1, <1>3
  <2>8. \A b : b = y => Off(k, b)' = Off(k, 0) + Parts * g
    BY <2>3, <2>4, <2>5, <2>6, <2>7
  <2>9. Parts \in 0..Parts
    BY <1>1
  <2> QED BY <1>5, <2>1, <2>8, <2>9 DEF g
<1>8. CASE scheme = "contiguous" /\ k # i + 1
  <2>1. Base = 0 /\ Reached(k) = 0
    BY <1>2, <1>8 DEF Base, Reached
  <2>2. PartOfPage(table.id[k], Mask(i + 1)) = 0
    BY <1>1, <1>8, EntryParts
  <2>3. PartsOfRange(table.id[k])' = old
    <3>1. my_size * 0 = 0 /\ old + 0 = old
      BY <1>3
    <3> QED BY <2>2, <3>1
  <2>4. Off(k, 0)' = Off(k, 0)
    BY <2>3 DEF Off
  <2>5. Gained(my_size) \in Int
    <3>1. my_size * PageSize \in Int /\ Portion(i + 1) = y
      BY <1>1, <1>8 DEF Portion
    <3>2. Whole * (my_size * PageSize) \in Int /\ y * Bytes \in Int
      BY <1>3, <3>1
    <3> QED BY <3>1, <3>2 DEF Gained
  <2>6. Off(k, 0)' = Off(k, 0) + 0 * Gained(my_size) /\ 0 \in 0..Parts
    <3>1. 0 * Gained(my_size) = 0 /\ Off(k, 0) + 0 = Off(k, 0)
      BY <1>5, <2>1, <2>5
    <3> QED BY <1>1, <2>4, <3>1
  <2> QED BY <1>5, <2>1, <2>6
<1> QED BY <1>1, <1>6, <1>7, <1>8 DEF Schemes

\* The bounds of what is carried, one entry on.
LEMMA CarriesOn ==
  ASSUME NEW n \in Nat, NEW p \in Nat, NEW o \in Int, NEW move \in Int
  PROVE  /\ \A b \in Nat : o <= p * (n * b) /\ move <= p * b => o + move <= p * ((n + 1) * b)
         /\ \A b \in Nat : -(p * (n * b)) <= o /\ -(p * b) <= move => -(p * ((n + 1) * b)) <= o + move
<1>1. ASSUME NEW b \in Nat
      PROVE  /\ p * ((n + 1) * b) = p * (n * b) + p * b
             /\ p * (n * b) \in Int /\ p * b \in Int
  <2>1. (n + 1) * b = n * b + b /\ n * b \in Nat
    OBVIOUS
  <2> DEFINE x == n * b
  <2>2. x \in Nat
    BY <2>1
  <2> HIDE DEF x
  <2>3. p * (x + b) = p * x + p * b /\ p * x \in Int /\ p * b \in Int
    BY <2>2
  <2> QED BY <2>1, <2>3 DEF x
<1>2. ASSUME NEW b \in Nat
      PROVE  /\ o <= p * (n * b) /\ move <= p * b => o + move <= p * ((n + 1) * b)
             /\ -(p * (n * b)) <= o /\ -(p * b) <= move => -(p * ((n + 1) * b)) <= o + move
  <2> DEFINE x == p * (n * b)
             y == p * b
             z == p * ((n + 1) * b)
  <2>1. x \in Int /\ y \in Int /\ z = x + y
    BY <1>1
  <2> HIDE DEF x, y, z
  <2>2. /\ o <= x /\ move <= y => o + move <= z
        /\ -x <= o /\ -y <= move => -z <= o + move
    BY <2>1
  <2> QED BY <2>2 DEF x, y, z
<1> QED BY <1>2

LEMMA CarriedStep ==
  ASSUME IInv, Sorted(table), SInv, PlaceNext
  PROVE  Carried'
<1>1. i' = i + 1 /\ size' = size /\ Over' = Over /\ Lack' = Lack
  BY DEF PlaceNext, size, Over, Lack
<1> SUFFICES ASSUME NEW k \in ((i + 1) + 1)..N
             PROVE  /\ Off(k, Base)' <= Parts * ((i + 1) * Over)
                    /\ total_size' # size => -(Parts * ((i + 1) * Lack)) <= Off(k, Base)'
  BY <1>1 DEF Carried
<1>2. N \in Nat /\ i \in Nat /\ k \in (i + 1)..N /\ k \in 1..N /\ k # i + 1 /\ Parts \in Nat
  BY SizesAssumption, PartsAssumption DEF IInv, TypeOK
<1>3. PICK my_size \in Nat :
        /\ Bytes' = Bytes /\ table' = table
        /\ Gained(my_size) \in Int /\ Gained(my_size) <= Over
        /\ total_size' = size' \/ -Lack <= Gained(my_size)
        /\ PartsOfRange(table.id[k])' =
             PartsOfRange(table.id[k]) + my_size * PartOfPage(table.id[k], Mask(i + 1))
  BY <1>2, EntryEffect
<1>4. PICK q \in 0..Parts :
        /\ \A x : x = Reached(k) => Off(k, x)' = Off(k, Base) + q * Gained(my_size)
        /\ Off(k, Base) \in Int
  BY <1>2, <1>3, EntryMoves DEF SInv
<1> DEFINE o == Off(k, Base)
           g == Gained(my_size)
           move == q * g
<1>5. Off(k, Base)' = o + move
  <2>1. \A x : x = Base' => Off(k, x)' = o + move
    BY <1>2, <1>4 DEF Reached
  <2> QED BY <2>1 DEF Off
<1>6. Over \in Nat /\ Lack \in Nat
  BY Margins
<1>7. /\ o <= Parts * (i * Over) /\ -(Parts * (i * Lack)) <= o /\ o \in Int
  BY <1>2, <1>4 DEF SInv, Carried, PlaceNext
<1>8. /\ move \in Int /\ move <= Parts * Over
      /\ -Lack <= g => -(Parts * Lack) <= move
  <2>1. q \in Nat /\ q <= Parts /\ g \in Int /\ g <= Over
    BY <1>2, <1>3, <1>4
  <2> HIDE DEF g
  <2> QED BY <1>2, <1>6, <2>1, Scaled
<1> HIDE DEF o, move, g
<1>9. o + move <= Parts * ((i + 1) * Over)
  BY <1>2, <1>6, <1>7, <1>8, CarriesOn
<1>10. total_size' # size => -(Parts * ((i + 1) * Lack)) <= o + move
  <2> SUFFICES ASSUME total_size' # size PROVE -(Parts * ((i + 1) * Lack)) <= o + move
    OBVIOUS
  <2>1. -(Parts * Lack) <= move
    BY <1>1, <1>3, <1>8 DEF g
  <2> QED BY <1>2, <1>6, <1>7, <1>8, <2>1, CarriesOn
<1> QED BY <1>5, <1>9, <1>10

\* The numbers behind Settled: o is what is carried to entry n + 1, g what the entry
\* gains, a and a + g how far ahead the pages are, and r what a later entry lacks.
Numbers(o, p, q, g, n) ==
  o \in Int /\ p \in Nat /\ q \in Nat /\ q <= p /\ g \in Int /\ n \in Nat /\ n + 1 <= N

LEMMA NeverTooMuch ==
  ASSUME NEW o, NEW p, NEW q, NEW g, NEW n, Numbers(o, p, q, g, n),
         o <= p * (n * Over), g <= Over
  PROVE  o + q * g <= p * (N * Over)
<1>1. /\ N \in Nat /\ Over \in Nat /\ o \in Int /\ p \in Nat /\ q \in Nat /\ q <= p /\ g \in Int
      /\ n \in Nat /\ n + 1 <= N
  BY Margins, SizesAssumption DEF Numbers
<1> DEFINE move == q * g
<1>2. move \in Int /\ move <= p * Over
  BY <1>1, Scaled
<1> HIDE DEF move
<1>3. o + move <= p * ((n + 1) * Over)
  BY <1>1, <1>2, CarriesOn
<1>4. p * ((n + 1) * Over) <= p * (N * Over) /\ p * ((n + 1) * Over) \in Int /\ p * (N * Over) \in Int
  <2>1. (n + 1) * Over <= N * Over /\ (n + 1) * Over \in Nat /\ N * Over \in Nat
    BY <1>1
  <2> DEFINE x == (n + 1) * Over
             y == N * Over
  <2>2. x \in Nat /\ y \in Nat /\ x <= y
    BY <2>1
  <2> HIDE DEF x, y
  <2>3. p * x <= p * y /\ p * x \in Int /\ p * y \in Int
    BY <1>1, <2>2
  <2> QED BY <2>3 DEF x, y
<1>5. o + move <= p * (N * Over)
  <2> DEFINE x == p * ((n + 1) * Over)
             y == p * (N * Over)
  <2>1. x \in Int /\ y \in Int /\ x <= y /\ o + move <= x
    BY <1>3, <1>4
  <2> HIDE DEF x, y
  <2>2. o + move <= y
    BY <1>1, <1>2, <2>1
  <2> QED BY <2>2 DEF y
<1> QED BY <1>5 DEF move

\* A shortfall of b, on top of what is carried, is no more than Low allows.
LEMMA NeverTooLittle ==
  ASSUME NEW o \in Int, NEW p \in Nat, NEW n \in Nat, n + 1 <= N, NEW b \in Nat, NEW x \in Nat,
         NEW move \in Int, -(p * (n * Lack)) <= o, -(p * b) <= move, b <= (N - 1) * Over + Lack + x
  PROVE  -(p * (Low + x)) <= o + move
<1>1. N \in Nat /\ Over \in Nat /\ Lack \in Nat
  BY Margins, SizesAssumption
<1> DEFINE c == n * Lack
           d == (N - 1) * Over
           e == N * Lack
<1>2. c \in Nat /\ d \in Nat /\ e \in Nat /\ c + Lack <= e /\ Low = d + e
  <2>1. N - 1 \in Nat
    BY <1>1
  <2>2. (n + 1) * Lack = c + Lack /\ (n + 1) * Lack <= e /\ c \in Nat /\ e \in Nat
    BY <1>1
  <2>3. d \in Nat
    BY <1>1, <2>1
  <2> QED BY <2>2, <2>3 DEF Low
<1>3. b <= d + Lack + x /\ -(p * c) <= o
  OBVIOUS
<1> HIDE DEF c, d, e
<1>4. c + b <= Low + x /\ Low + x \in Nat
  BY <1>1, <1>2, <1>3
<1> DEFINE f == Low + x
<1>5. p * (c + b) = p * c + p * b /\ p * (c + b) <= p * f /\ p * c \in Int /\ p * b \in Int /\ p * f \in Int
  <2> HIDE DEF f
  <2>1. f \in Nat /\ c + b <= f
    BY <1>4 DEF f
  <2>2. p * (c + b) = p * c + p * b /\ p * c \in Int /\ p * b \in Int
    BY <1>2
  <2>3. p * (c + b) <= p * f /\ p * f \in Int
    BY <1>2, <2>1
  <2> QED BY <2>2, <2>3
<1> DEFINE u == p * c
           v == p * b
           z == p * f
<1>6. u \in Int /\ v \in Int /\ z \in Int /\ u + v <= z /\ -u <= o /\ -v <= move
  BY <1>3, <1>5
<1> HIDE DEF u, v, z
<1>7. -z <= o + move
  BY <1>6
<1> QED BY <1>7 DEF z, f

\* What the entry that fills the range may be short: all that was ahead, and what the
\* weights are over.
LEMMA LastEntryShort ==
  ASSUME NEW o, NEW p, NEW q, NEW g, NEW n, Numbers(o, p, q, g, n),
         -(p * (n * Lack)) <= o, NEW a \in Int, NEW x \in Nat, a <= n * Over, -x <= a + g
  PROVE  -(p * (Low + x)) <= o + q * g
<1>1. /\ N \in Nat /\ Over \in Nat /\ Lack \in Nat /\ o \in Int /\ p \in Nat /\ q \in Nat /\ q <= p
      /\ g \in Int /\ n \in Nat /\ n + 1 <= N
  BY Margins, SizesAssumption DEF Numbers
<1> DEFINE c == n * Over
           b == x + c
           move == q * g
<1>2. c \in Nat /\ c <= (N - 1) * Over /\ (N - 1) * Over \in Nat
  <2>1. n <= N - 1 /\ N - 1 \in Nat
    BY <1>1
  <2> QED BY <1>1, <2>1
<1>3. a <= c
  OBVIOUS
<1> HIDE DEF c
<1>4. b \in Nat /\ -b <= g
  BY <1>1, <1>2, <1>3
<1>5. b <= (N - 1) * Over + Lack + x
  <2> DEFINE d == (N - 1) * Over
  <2>1. d \in Nat /\ c <= d
    BY <1>2
  <2> HIDE DEF d
  <2>2. b <= d + Lack + x
    BY <1>1, <1>2, <2>1
  <2> QED BY <2>2 DEF d
<1> HIDE DEF b
<1>6. move \in Int /\ -(p * b) <= move
  BY <1>1, <1>4, Scaled
<1> HIDE DEF move
<1>7. -(p * (Low + x)) <= o + move
  BY <1>1, <1>4, <1>5, <1>6, NeverTooLittle
<1> QED BY <1>7 DEF move

\* And so a later entry, for which it leaves nothing.
LEMMA LaterEntryShort ==
  ASSUME NEW o, NEW p, NEW q, NEW g, NEW n, Numbers(o, p, q, g, n), n + 2 <= N,
         -(p * (n * Lack)) <= o, NEW a \in Int, NEW x \in Nat, a <= n * Over, -x <= a + g,
         g <= Over, NEW r \in Nat, r <= a + g + x
  PROVE  /\ -(p * (Low + x)) <= (o + q * g) - p * r
         /\ p * r \in Nat
<1>1. /\ N \in Nat /\ Over \in Nat /\ Lack \in Nat /\ o \in Int /\ p \in Nat /\ q \in Nat /\ q <= p
      /\ g \in Int /\ n \in Nat /\ n + 1 <= N
  BY Margins, SizesAssumption DEF Numbers
<1> DEFINE c == n * Over
           d == (N - 1) * Over
           s == a + g + x
<1>2. c \in Nat /\ d \in Nat /\ c + Over <= d
  <2>1. n + 1 <= N - 1 /\ N - 1 \in Nat
    BY <1>1
  <2>2. (n + 1) * Over <= (N - 1) * Over /\ (n + 1) * Over = n * Over + Over
    BY <1>1, <2>1
  <2>3. c \in Nat /\ d \in Nat
    BY <1>1, <2>1
  <2> QED BY <2>2, <2>3
<1>3. a <= c
  OBVIOUS
<1> HIDE DEF c, d
<1>4. p * r \in Nat /\ p * r <= p * s /\ p * s \in Nat /\ q * g \in Int
  <2>1. s \in Nat /\ r <= s
    BY <1>1
  <2> HIDE DEF s
  <2> QED BY <1>1, <2>1
<1> DEFINE u == q * g
           v == p * r
           move == u - v
<1>5. \E b \in Nat : b <= d + x /\ -(p * b) <= move
  <2>1. CASE g >= 0
    <3>1. s \in Nat /\ s <= d + x
      BY <1>1, <1>2, <1>3, <2>1
    <3>2. u >= 0
      BY <1>1, <2>1
    <3> DEFINE z == p * s
    <3>3. z \in Nat /\ v <= z /\ v \in Nat /\ u \in Int
      BY <1>4
    <3> HIDE DEF u, v, z
    <3>4. -z <= u - v
      BY <3>2, <3>3
    <3> QED BY <3>1, <3>4 DEF z
  <2>2. CASE g < 0
    <3> DEFINE b == a + x
               h == -g
    <3>1. b \in Nat /\ b <= d + x /\ h \in Nat /\ s = b - h
      BY <1>1, <1>2, <1>3, <2>2
    <3> HIDE DEF b, h, s
    <3>2. q * h <= p * h /\ q * h \in Int /\ p * h \in Int /\ u = -(q * h)
      BY <1>1, <3>1 DEF h
    <3>3. p * s = p * b - p * h /\ p * b \in Int
      BY <1>1, <3>1
    <3> DEFINE y == p * b
               e == p * h
               f == q * h
               z == p * s
    <3>4. y \in Int /\ e \in Int /\ f \in Int /\ z = y - e /\ f <= e /\ u = -f /\ v <= z /\ v \in Int
      BY <1>4, <3>2, <3>3
    <3> HIDE DEF u, v, y, e, f, z
    <3>5. -y <= u - v
      BY <3>4
    <3> QED BY <3>1, <3>5 DEF y
  <2> QED BY <1>1, <2>1, <2>2
<1>6. PICK b \in Nat : b <= d + x /\ -(p * b) <= move
  BY <1>5
<1>7. move \in Int
  BY <1>4
<1>8. b <= (N - 1) * Over + Lack + x
  BY <1>1, <1>2, <1>6 DEF d
<1>9. o + move = (o + q * g) - p * r
  <2>1. u \in Int /\ v \in Int
    BY <1>4
  <2> HIDE DEF u, v
  <2>2. o + (u - v) = (o + u) - v
    BY <1>1, <2>1
  <2> QED BY <2>2 DEF u, v
<1> HIDE DEF move
<1>10. -(p * (Low + x)) <= o + move
  BY <1>1, <1>6, <1>7, <1>8, NeverTooLittle
<1> QED BY <1>4, <1>9, <1>10

\* The nodes of the entries done keep their parts.
LEMMA DoneStays ==
  ASSUME IInv, Sorted(table), SInv, PlaceNext, NEW k \in 1..i
  PROVE  Off(k, Weight(table, k))' = Off(k, Weight(table, k))
<1>1. k \in 1..N
  BY SizesAssumption DEF IInv, TypeOK
<1>2. PICK my_size \in Nat :
        /\ Bytes' = Bytes /\ table' = table
        /\ PartsOfRange(table.id[k])' =
             PartsOfRange(table.id[k]) + my_size * PartOfPage(table.id[k], Mask(i + 1))
  BY <1>1, EntryEffect
<1>3. PartOfPage(table.id[k], Mask(i + 1)) = 0
  BY EntryParts DEF SInv
<1>4. PartsOfRange(table.id[k])' = PartsOfRange(table.id[k])
  <2>1. my_size * 0 = 0 /\ PartsOfRange(table.id[k]) \in Int
    BY PartsOfRangeType
  <2>2. \A x \in Int : x + 0 = x
    OBVIOUS
  <2> QED BY <1>2, <1>3, <2>1, <2>2
<1> QED BY <1>2, <1>4 DEF Off, Weight, SumUpTo

LEMMA SettledStep ==
  ASSUME IInv, Sorted(table), SInv, PlaceNext
  PROVE  Settled'
<1>1. /\ i' = i + 1 /\ size' = size /\ Over' = Over /\ Low' = Low /\ table' = table
      /\ Beyond' = Beyond /\ Bytes' = Bytes /\ total_size # size
  BY DEF PlaceNext, size, Over, Lack, Low, Beyond, Bytes, Total, SumUpTo
<1>2. N \in Nat /\ i \in Nat /\ i < N /\ Parts \in Nat /\ table \in Tables /\ scheme \in Schemes
  BY SizesAssumption, PartsAssumption DEF IInv, TypeOK, PlaceNext
<1> SUFFICES ASSUME NEW k \in 1..N, k <= i + 1 \/ total_size' = size
             PROVE  /\ Off(k, Weight(table, k))' <= Parts * (N * Over)
                    /\ -(Parts * (Low + Beyond)) <= Off(k, Weight(table, k))'
  BY <1>1 DEF Settled
<1>3. CASE k <= i
  <2>1. k \in 1..i
    BY <1>2, <1>3
  <2> QED BY <1>3, <2>1, DoneStays DEF SInv, Settled
<1>4. CASE k > i
  <2>1. k \in (i + 1)..N
    BY <1>2, <1>4
  <2>2. PICK my_size \in Nat :
          /\ Gained(my_size) \in Int /\ Gained(my_size) <= Over
          /\ Ahead' = Ahead + Gained(my_size)
          /\ total_size' = size' \/ -Lack <= Gained(my_size)
          /\ PartsOfRange(table.id[k])' =
               PartsOfRange(table.id[k]) + my_size * PartOfPage(table.id[k], Mask(i + 1))
    BY EntryEffect
  <2>3. PICK q \in 0..Parts :
          /\ \A x : x = Reached(k) => Off(k, x)' = Off(k, Base) + q * Gained(my_size)
          /\ Off(k, Base) \in Int
    BY <1>1, <2>1, <2>2, EntryMoves DEF SInv
  <2> DEFINE o == Off(k, Base)
             g == Gained(my_size)
             a == Ahead
             x == Beyond
  <2>4. Numbers(o, Parts, q, g, i)
    BY <1>2, <2>2, <2>3 DEF Numbers
  <2>5. o <= Parts * (i * Over) /\ -(Parts * (i * Lack)) <= o
    BY <1>1, <2>1 DEF SInv, Carried
  <2>6. a \in Int /\ x \in Nat /\ a <= i * Over /\ g <= Over /\ g \in Int /\ Ahead' = a + g
    BY <2>2, AheadTypes DEF SInv, NeverFarAhead
  <2>7. total_size' = size =>
          /\ -x <= a + g
          /\ (Total(table) - Accounted') * Bytes <= a + g + x
          /\ Total(table) - Accounted' \in Nat
    <3> SUFFICES ASSUME total_size' = size
                 PROVE  /\ -x <= a + g
                        /\ (Total(table) - Accounted') * Bytes <= a + g + x
                        /\ Total(table) - Accounted' \in Nat
      OBVIOUS
    <3>1. IInv'
      BY PlaceNextInvariant
    <3>2. Sorted(table)'
      BY <1>1 DEF Sorted, Weight, SumUpTo
    <3>3. (total_size = size)'
      BY <1>1
    <3>4. (/\ Accounted <= Total(table)
           /\ (Total(table) - Accounted) * Bytes <= Ahead + Beyond
           /\ 0 <= (Total(table) - Accounted) * Bytes)'
      BY <3>1, <3>2, <3>3, LeftOver, PTL
    <3>5. Total(table)' = Total(table)
      BY <1>1 DEF Total, SumUpTo
    <3>6. Accounted' \in Int /\ Total(table) \in Int
      <4>1. \E m \in Nat : Accounted \in Int /\ Portion(i + 1) \in Int /\ Accounted' = Accounted + Portion(i + 1)
        BY EntryFacts
      <4> QED BY <4>1, AheadTypes
    <3> DEFINE z == (Total(table) - Accounted') * Bytes
    <3>7. z <= Ahead' + x /\ 0 <= z /\ Accounted' <= Total(table)
      BY <1>1, <3>4, <3>5
    <3>8. z \in Int
      BY <3>6, AheadTypes
    <3> HIDE DEF z, a, g, x
    <3>9. z <= a + g + x /\ -x <= a + g
      BY <2>6, <3>7, <3>8
    <3>10. Total(table) - Accounted' \in Nat
      BY <3>6, <3>7
    <3> QED BY <3>9, <3>10 DEF z
  <2>8. CASE k = i + 1
    <3>1. Off(k, Weight(table, k))' = o + q * g
      <4>1. \A b : b = Weight(table, k) => Off(k, b)' = o + q * g
        BY <2>3, <2>8 DEF Reached
      <4> QED BY <1>1, <4>1 DEF Off, Weight, SumUpTo
    <3> HIDE DEF o, g, a, x
    <3>2. o + q * g <= Parts * (N * Over)
      BY <2>4, <2>5, <2>6, NeverTooMuch
    <3>3. CASE total_size' = size
      <4>1. -(Parts * (Low + x)) <= o + q * g
        BY <2>4, <2>5, <2>6, <2>7, <3>3, LastEntryShort
      <4> QED BY <3>1, <3>2, <4>1 DEF x
    <3>4. CASE total_size' # size
      <4>1. -Lack <= g
        BY <1>1, <2>2, <3>4 DEF g
      <4> DEFINE move == q * g
      <4>2. move \in Int /\ -(Parts * Lack) <= move
        <5>1. q \in Nat /\ q <= Parts /\ Lack \in Nat
          BY <1>2, <2>3, Margins
        <5> QED BY <1>2, <2>6, <4>1, <5>1, Scaled
      <4> HIDE DEF move
      <4>3. Lack \in Nat /\ Lack <= (N - 1) * Over + Lack + x
        <5>1. N - 1 \in Nat /\ Over \in Nat /\ Lack \in Nat
          BY <1>2, Margins
        <5>2. (N - 1) * Over \in Nat
          BY <5>1
        <5> QED BY <2>6, <5>1, <5>2
      <4>4. o \in Int /\ i + 1 <= N
        BY <2>4 DEF Numbers
      <4>5. -(Parts * (Low + x)) <= o + move
        BY <1>2, <2>5, <2>6, <4>2, <4>3, <4>4, NeverTooLittle
      <4> QED BY <3>1, <3>2, <4>5 DEF x, move
    <3> QED BY <3>3, <3>4
  <2>9. CASE k # i + 1
    <3>1. total_size' = size /\ i + 2 <= N
      BY <1>2, <1>4, <2>9
    <3> DEFINE b == Base'
               r == (Weight(table, k) - b) * Bytes
               s == Weight(table, k) - b
               t == Total(table) - Accounted'
    <3>2. s \in Nat /\ s <= t /\ b \in Int
      <4>1. i + 1 \in 0..N /\ k \in ((i + 1) + 1)..N
        BY <1>2, <1>4, <2>9
      <4>2. CASE scheme = "interleave"
        <5>1. b = Weight(table, i + 1) /\ Accounted' = AllottedUpTo(table, i + 1)
          BY <1>1, <4>2 DEF Base, Accounted, AllottedUpTo, Weight, SumUpTo, PlaceNext
        <5> QED BY <1>2, <4>1, <5>1, RemainingWeight, WeightFacts
      <4>3. CASE scheme # "interleave"
        <5>1. b = 0 /\ Accounted' = SumUpTo(table, i + 1)
          BY <1>1, <4>3 DEF Base, Accounted, SumUpTo, PlaceNext
        <5>2. Weight(table, k) \in Nat /\ Weight(table, k) <= Total(table) - SumUpTo(table, i + 1)
          BY <1>2, <4>1, RemainingSum
        <5>3. Weight(table, k) - 0 = Weight(table, k)
          BY <5>2
        <5> QED BY <5>1, <5>2, <5>3
      <4> QED BY <4>2, <4>3
    <3>3. r \in Nat /\ r <= a + g + x
      <4>1. Bytes \in Nat /\ t \in Nat /\ t * Bytes <= a + g + x
        BY <2>7, <3>1, AheadTypes
      <4> HIDE DEF s, t, a, g, x
      <4>2. s * Bytes <= t * Bytes /\ s * Bytes \in Nat /\ t * Bytes \in Nat
        BY <3>2, <4>1
      <4> DEFINE u == s * Bytes
                 v == t * Bytes
      <4>3. u \in Nat /\ v \in Nat /\ u <= v /\ v <= a + g + x
        BY <4>1, <4>2
      <4> HIDE DEF u, v
      <4>4. u \in Nat /\ u <= a + g + x
        BY <2>6, <4>3
      <4> QED BY <4>4 DEF u, s
    <3>4. Off(k, Weight(table, k))' = (o + q * g) - Parts * r
      <4>1. \A c : c = b => Off(k, c)' = o + q * g
        BY <2>3, <2>9 DEF Reached
      <4> DEFINE had == Whole * (PartsOfRange(table.id[k])' * PageSize)
      <4>2. \A c : c = b => had - Parts * (c * Bytes) = o + q * g
        BY <1>1, <4>1 DEF Off
      <4>3. Off(k, Weight(table, k))' = had - Parts * (Weight(table, k) * Bytes)
        BY <1>1 DEF Off, Weight, SumUpTo
      <4>4. had \in Int
        <5>1. IInv'
          BY PlaceNextInvariant
        <5>2. (\A n : PartsOfRange(n) \in Int)'
          BY <5>1, PartsOfRangeType, PTL
        <5>3. PartsOfRange(table.id[k])' \in Int
          <6>1. (\A n : PartsOfRange(n) \in Int)' => \A n : PartsOfRange(n)' \in Int
            OBVIOUS
          <6>2. \A n : n = table.id[k] => PartsOfRange(n)' \in Int
            BY <5>2, <6>1
          <6> QED BY <1>1, <6>2 DEF PartsOfRange
        <5>4. PartsOfRange(table.id[k])' * PageSize \in Int
          BY <5>3, SizesAssumption
        <5> QED BY <5>4, Margins
      <4> DEFINE y == Weight(table, k)
      <4>5. y \in Int /\ b \in Int /\ Bytes \in Int
        <5>1. k \in 0..N
          BY <1>2
        <5> QED BY <1>2, <3>2, <5>1, WeightFacts, AheadTypes
      <4> HIDE DEF had, b, y
      <4>6. Parts * (y * Bytes) = Parts * (b * Bytes) + Parts * ((y - b) * Bytes)
            /\ Parts * (b * Bytes) \in Int /\ Parts * ((y - b) * Bytes) \in Int
        <5>1. y * Bytes = b * Bytes + (y - b) * Bytes
          BY <4>5
        <5> DEFINE u == b * Bytes
                   v == (y - b) * Bytes
        <5>2. u \in Int /\ v \in Int
          BY <4>5
        <5> HIDE DEF u, v
        <5>3. Parts * (u + v) = Parts * u + Parts * v /\ Parts * u \in Int /\ Parts * v \in Int
          BY <1>2, <5>2
        <5> QED BY <5>1, <5>3 DEF u, v
      <4> DEFINE u == Parts * (b * Bytes)
                 v == Parts * ((y - b) * Bytes)
                 z == o + q * g
      <4>7. u \in Int /\ v \in Int /\ had - u = z /\ Parts * (y * Bytes) = u + v
        BY <4>2, <4>6
      <4> HIDE DEF u, v, z
      <4>8. had - (u + v) = z - v
        BY <4>4, <4>7
      <4> QED BY <4>3, <4>7, <4>8 DEF y, v, z
    <3> HIDE DEF o, g, a, x, r
    <3>5. o + q * g <= Parts * (N * Over)
      BY <2>4, <2>5, <2>6, NeverTooMuch
    <3>6. -(Parts * (Low + x)) <= (o + q * g) - Parts * r /\ Parts * r \in Nat
      BY <2>4, <2>5, <2>6, <2>7, <3>1, <3>3, LaterEntryShort
    <3>7. (o + q * g) - Parts * r <= Parts * (N * Over)
      <4> DEFINE u == o + q * g
                 v == Parts * r
                 z == Parts * (N * Over)
      <4>1. u \in Int /\ v \in Nat /\ u <= z /\ z \in Int
        <5>1. q * g \in Int /\ o \in Int
          BY <2>4 DEF Numbers
        <5>2. N * Over \in Int
          BY <1>2, Margins
        <5> QED BY <1>2, <3>5, <3>6, <5>1, <5>2
      <4> HIDE DEF u, v, z
      <4>2. u - v <= z
        BY <4>1
      <4> QED BY <4>2 DEF u, v, z
    <3> QED BY <3>4, <3>6, <3>7 DEF x
  <2> QED BY <2>8, <2>9
<1> QED BY <1>2, <1>3, <1>4

LEMMA SharesNext == IInv /\ SInv /\ [Next]_vars => SInv'
<1> SUFFICES ASSUME IInv, SInv, [Next]_vars PROVE SInv'
  OBVIOUS
<1>1. CASE PlaceNext
  <2>1. Left'
    BY <1>1, LeftStep DEF SInv
  <2>2. Sorted(table') => Sorted(table)
    BY <1>1 DEF PlaceNext
  <2>3. Sorted(table) => NeverFarAhead' /\ Carried' /\ Settled'
    BY <1>1, AheadStep, CarriedStep, SettledStep DEF SInv
  <2> QED BY <2>1, <2>2, <2>3 DEF SInv
<1>2. CASE MbindFails \/ Finish \/ UNCHANGED vars
  <2>1. /\ segment' = segment /\ scheme' = scheme /\ table' = table /\ i' = i /\ w' = w
        /\ total_size' = total_size /\ node_set' = node_set /\ policy' = policy
    BY <1>2 DEF MbindFails, Finish, vars
  <2>2. size' = size /\ Bytes' = Bytes /\ Accounted' = Accounted /\ Base' = Base
    BY <2>1 DEF size, Bytes, Accounted, Base, Weight, SumUpTo
  <2>3. Ahead' = Ahead /\ Beyond' = Beyond
    BY <2>1, <2>2 DEF Ahead, Beyond, Total, SumUpTo
  <2>4. \A n : PartsOfRange(n)' = PartsOfRange(n)
    BY <2>1, <2>2 DEF PartsOfRange, FirstPage
  <2>5. \A k, x : Off(k, x)' = Off(k, x)
    <3> SUFFICES ASSUME NEW k, NEW x PROVE Off(k, x)' = Off(k, x)
      OBVIOUS
    <3>1. PartsOfRange(table.id[k])' = PartsOfRange(table.id[k])
      BY <2>1, <2>2 DEF PartsOfRange, FirstPage
    <3> QED BY <2>2, <3>1 DEF Off
  <2>6. \A k : Off(k, Base)' = Off(k, Base) /\ Off(k, Weight(table, k))' = Off(k, Weight(table, k))
    BY <2>1, <2>2, <2>5 DEF Off, Weight, SumUpTo
  <2>7. NeverFarAhead' = NeverFarAhead
    BY <2>1, <2>3 DEF NeverFarAhead, Over
  <2>8. Carried' = Carried
    BY <2>1, <2>2, <2>6 DEF Carried, Over, Lack
  <2>9. Settled' = Settled
    BY <2>1, <2>2, <2>3, <2>6 DEF Settled, Low, Over, Lack
  <2>10. Left' = Left
    BY <2>1 DEF Left
  <2>11. Sorted(table') = Sorted(table)
    BY <2>1
  <2> QED BY <2>7, <2>8, <2>9, <2>10, <2>11 DEF SInv
<1> QED BY <1>1, <1>2 DEF Next

\* What the entries round is less than a page more than there are nodes.
LEMMA RoundingsFit ==
  ASSUME ErrorsFitPage
  PROVE  /\ N * Over < Whole * ((N + 1) * PageSize) /\ Low < Whole * ((N + 1) * PageSize)
         /\ N * Over \in Nat /\ Low \in Nat /\ Whole * ((N + 1) * PageSize) \in Nat
<1>1. N \in Nat /\ N > 0 /\ Whole \in Nat /\ Whole > 0 /\ PageSize \in Nat /\ FloatError \in Nat
  BY SizesAssumption
<1> DEFINE f == N * FloatError
           p == N * PageSize
           e == N * (FloatError + 1)
<1>2. e = f + N /\ f \in Nat /\ p \in Nat /\ e < PageSize /\ (N + 1) * PageSize = p + PageSize
  BY <1>1 DEF ErrorsFitPage
<1>3. N * Over = Whole * (p + f)
  <2>1. N * (Whole * (PageSize + FloatError)) = Whole * (N * (PageSize + FloatError))
    BY <1>1
  <2>2. N * (PageSize + FloatError) = p + f
    BY <1>1
  <2> QED BY <2>1, <2>2 DEF Over
<1>4. Low = Whole * ((p - PageSize) + (f - FloatError) + e)
  <2>1. (N - 1) * (Whole * (PageSize + FloatError)) = Whole * ((N - 1) * (PageSize + FloatError))
    BY <1>1
  <2>2. (N - 1) * (PageSize + FloatError) = (p - PageSize) + (f - FloatError)
    BY <1>1
  <2>3. N * (Whole * (FloatError + 1)) = Whole * e
    BY <1>1
  <2> DEFINE c == (p - PageSize) + (f - FloatError)
  <2>4. c \in Int /\ e \in Int
    BY <1>1, <1>2
  <2>5. Low = Whole * c + Whole * e
    BY <2>1, <2>2, <2>3 DEF Low, Over, Lack
  <2> HIDE DEF c, e
  <2>6. Whole * (c + e) = Whole * c + Whole * e
    BY <1>1, <2>4
  <2> QED BY <2>5, <2>6 DEF c
<1> HIDE DEF f, p, e
<1>5. ASSUME NEW a \in Nat, NEW b \in Nat, a < b
      PROVE  Whole * a < Whole * b /\ Whole * a \in Nat /\ Whole * b \in Nat
  BY <1>1, <1>5
<1>6. p + f < p + PageSize /\ p + f \in Nat /\ p + PageSize \in Nat
  BY <1>1, <1>2
<1>7. /\ (p - PageSize) + (f - FloatError) + e < p + PageSize
      /\ (p - PageSize) + (f - FloatError) + e \in Nat
  <2>1. p - PageSize \in Nat /\ f - FloatError \in Nat
    <3>1. (N - 1) * PageSize = p - PageSize /\ (N - 1) * FloatError = f - FloatError
      BY <1>1 DEF p, f
    <3>2. N - 1 \in Nat
      BY <1>1
    <3>3. (N - 1) * PageSize \in Nat /\ (N - 1) * FloatError \in Nat
      BY <1>1, <3>2
    <3> QED BY <3>1, <3>3
  <2> QED BY <1>1, <1>2, <2>1
<1> QED BY <1>2, <1>3, <1>4, <1>5, <1>6, <1>7

\* A bound in bytes is one in pages.
LEMMA ByPage ==
  ASSUME NEW p \in Nat, NEW x \in Int, NEW y \in Int, p * x < p * y
  PROVE  x < y
<1> SUFFICES ASSUME y <= x PROVE FALSE
  OBVIOUS
<1>1. p * y <= p * x /\ p * y \in Int /\ p * x \in Int
  OBVIOUS
<1> QED BY <1>1

LEMMA SharesFollow == ASSUME ErrorsFitPage, IInv, SInv PROVE SharesFollowWeights
<1> SUFFICES ASSUME pc = "done", Length(segment) > PlaceMin, Sorted(table), NEW k \in 1..N
             PROVE  LET error == Whole * PartsOfRange(table.id[k]) - Parts * (Weight(table, k) * size)
                        over == Parts * (Greater(Total(table) - Whole, 0) * size)
                        margin == Whole * ((N + 1) * Parts)
                    IN  -margin - over < error /\ error < margin
  BY DEF SharesFollowWeights
<1> DEFINE had == PartsOfRange(table.id[k])
           y == Weight(table, k)
           h == Greater(Total(table) - Whole, 0)
           error == Whole * had - Parts * (y * size)
           over == Parts * (h * size)
           margin == Whole * ((N + 1) * Parts)
<1>1. /\ N \in Nat /\ PageSize \in Nat /\ Parts \in Nat /\ Parts > 0 /\ Whole \in Nat
      /\ size \in Nat /\ table \in Tables /\ k \in 0..N
  BY SizesAssumption, PartsAssumption, RangeOfSegment DEF IInv, TypeOK
<1>2. had \in Int /\ y \in Int /\ h \in Nat
  <2>1. had \in Int
    BY PartsOfRangeType
  <2>2. y \in Int
    BY <1>1, WeightFacts
  <2>3. h \in Nat
    BY <1>1, AheadTypes DEF Greater
  <2> QED BY <2>1, <2>2, <2>3
<1>3. Off(k, Weight(table, k)) = PageSize * error /\ error \in Int
  <2>1. Off(k, Weight(table, k)) = Whole * (had * PageSize) - Parts * (y * (size * PageSize))
    BY DEF Off, Bytes
  <2> DEFINE s == y * size
             u == Whole * had
             v == Parts * s
  <2> HIDE DEF had, y
  <2>2. s \in Int /\ y * (size * PageSize) = PageSize * s
    BY <1>1, <1>2
  <2>3. Whole * (had * PageSize) = PageSize * u /\ u \in Int
    BY <1>1, <1>2
  <2> HIDE DEF s
  <2>4. Parts * (PageSize * s) = PageSize * v /\ v \in Int
    BY <1>1, <2>2
  <2>5. error = u - v
    BY DEF s
  <2> HIDE DEF u, v, error
  <2>6. PageSize * (u - v) = PageSize * u - PageSize * v
    BY <1>1, <2>3, <2>4
  <2> QED BY <2>1, <2>2, <2>3, <2>4, <2>5, <2>6
<1>4. over \in Nat /\ margin \in Nat /\ Parts * Beyond = PageSize * over
  <2> HIDE DEF h
  <2>1. h * size \in Nat /\ (N + 1) * Parts \in Nat
    BY <1>1, <1>2
  <2> DEFINE s == h * size
  <2>2. Beyond = PageSize * s
    <3>1. h * (size * PageSize) = PageSize * (h * size)
      BY <1>1, <1>2
    <3> QED BY <3>1 DEF Beyond, Bytes, h
  <2>3. s \in Nat
    BY <2>1
  <2> HIDE DEF s
  <2>4. Parts * (PageSize * s) = PageSize * (Parts * s) /\ Parts * s \in Nat
    BY <1>1, <2>3
  <2>5. margin \in Nat
    BY <1>1, <2>1
  <2> QED BY <2>2, <2>4, <2>5 DEF s
<1>5. Parts * (N * Over) < PageSize * margin /\ Parts * Low < PageSize * margin
  <2> DEFINE b == Whole * ((N + 1) * PageSize)
             c == N * Over
  <2>1. c \in Nat /\ Low \in Nat /\ b \in Nat /\ c < b /\ Low < b
    BY RoundingsFit
  <2>2. Parts * b = PageSize * margin
    <3> DEFINE n == N + 1
    <3>1. n \in Nat
      BY <1>1
    <3> HIDE DEF n
    <3>2. Parts * (Whole * (n * PageSize)) = PageSize * (Whole * (n * Parts))
      BY <1>1, <3>1
    <3> QED BY <3>2 DEF n
  <2> HIDE DEF b, c, margin
  <2>3. \A x \in Nat : x < b => Parts * x < Parts * b
    BY <1>1, <2>1
  <2> QED BY <2>1, <2>2, <2>3 DEF c
<1>6. /\ Off(k, Weight(table, k)) <= Parts * (N * Over)
      /\ -(Parts * (Low + Beyond)) <= Off(k, Weight(table, k))
  <2>1. k <= i \/ total_size = size
    BY <1>1 DEF IInv
  <2> QED BY <2>1 DEF SInv, Settled
<1>7. Parts * (Low + Beyond) = Parts * Low + Parts * Beyond /\ Parts * Low \in Nat /\ Parts * (N * Over) \in Nat
  <2>1. Low \in Nat /\ Beyond \in Nat /\ N * Over \in Nat
    BY AheadTypes, RoundingsFit
  <2> QED BY <1>1, <2>1
<1> HIDE DEF error, over, margin
<1> DEFINE pe == PageSize * error
           po == PageSize * over
           pm == PageSize * margin
<1>8. pe \in Int /\ po \in Nat /\ pm \in Nat
  BY <1>1, <1>3, <1>4
<1>9. PageSize * (-margin - over) = -pm - po
  BY <1>1, <1>4
<1>10. pe < pm
  <2> DEFINE u == Parts * (N * Over)
  <2>1. u \in Nat /\ u < pm /\ pe <= u
    BY <1>3, <1>5, <1>6, <1>7
  <2> HIDE DEF u, pe, pm
  <2> QED BY <1>8, <2>1
<1>11. -pm - po < pe
  <2> DEFINE u == Parts * Low
  <2>1. u \in Nat /\ u < pm /\ -(u + po) <= pe
    BY <1>3, <1>4, <1>5, <1>6, <1>7
  <2> HIDE DEF u, pe, pm, po
  <2> QED BY <1>8, <2>1
<1>12. error < margin
  BY <1>1, <1>3, <1>4, <1>10, ByPage
<1>13. -margin - over < error
  <2> DEFINE x == -margin - over
  <2>1. x \in Int /\ PageSize * x < PageSize * error
    BY <1>4, <1>9, <1>11
  <2> HIDE DEF x
  <2>2. x < error
    BY <1>1, <1>3, <2>1, ByPage
  <2> QED BY <2>2 DEF x
<1> QED BY <1>12, <1>13 DEF error, over, margin, had, y, h

\* When the loop ends over a table that ascends, each node has its weight of the pages,
\* to within one page more than there are nodes and what the weights are over a hundred
\* percent: the parts of place_pages_weighted_initial (PagePlacement.cpp:878) and of the
\* contiguous scheme, if the errors of all shares together are less than a page.
THEOREM SharesAreWeights ==
  ASSUME ErrorsFitPage
  PROVE  Spec => []SharesFollowWeights
<1>1. Init => IInv /\ SInv
  BY InitInvariant, SharesInit
<1>2. (IInv /\ SInv) /\ [Next]_vars => (IInv /\ SInv)'
  BY NextInvariant, SharesNext
<1>3. IInv /\ SInv => SharesFollowWeights
  BY SharesFollow
<1> QED BY <1>1, <1>2, <1>3, PTL DEF Spec
=============================================================================
