--------------------------- MODULE ReweightProofs ---------------------------
(***************************************************************************)
(* Proofs about Reweight, for any weights files, ratios, lengths and       *)
(* sequences of calls.                                                     *)
(*                                                                         *)
(* Sums are compared record by record: the loop that adds up weights is a  *)
(* recursive function on 0..N, and a set of those k up to which a relation *)
(* between sums holds is all of 0..N by induction on sets.  A share of a   *)
(* total, rounded, is off by half a unit, so a table's sums are off by     *)
(* half a unit for each record.  What a call leaves behind (CallInv)       *)
(* carries these facts about a table to the states that have it.           *)
(***************************************************************************)
EXTENDS Reweight, InductionFacts, FiniteSetTheorems, TLAPS

(***************************************************************************)
(* Sums of weights.                                                        *)
(***************************************************************************)
Weighted(t) == \A k \in 1..N : t[k].weight \in Int

Term(S, t, k) == IF k \in S THEN t[k].weight ELSE 0

\* s[k] is the sum of the weights of the records of S up to the k-th.
SumsOf(s, S, t) ==
  /\ s \in [0..N -> Int] /\ s[0] = 0
  /\ \A k \in 1..N : s[k] = s[k - 1] + Term(S, t, k)

\* The loop of Sum computes such a sequence.
LEMMA SumExists ==
  ASSUME N \in Nat, NEW S, NEW t, Weighted(t)
  PROVE  \E s : SumsOf(s, S, t) /\ Sum(S, t) = s[N]
<1> DEFINE upto[k \in 0..N] == IF k = 0 THEN 0 ELSE upto[k - 1] + (IF k \in S THEN t[k].weight ELSE 0)
           a == [k \in 1..N |-> Term(S, t, k)]
<1>1. Sum(S, t) = upto[N]
  BY DEF Sum
<1>2. a \in [1..N -> Int]
  BY DEF Term, Weighted
<1>3. PICK s \in [0..N -> Int] : s = [k \in 0..N |-> IF k = 0 THEN 0 ELSE s[k - 1] + a[k]]
  <2> HIDE DEF a
  <2> QED BY <1>2, PartialSums
<1>4. s = [k \in 0..N |-> IF k = 0 THEN 0 ELSE s[k - 1] + (IF k \in S THEN t[k].weight ELSE 0)]
  <2>1. \A k \in 0..N : s[k] = IF k = 0 THEN 0 ELSE s[k - 1] + (IF k \in S THEN t[k].weight ELSE 0)
    <3> SUFFICES ASSUME NEW k \in 0..N, k # 0 PROVE s[k] = s[k - 1] + Term(S, t, k)
      BY <1>3 DEF Term
    <3>1. k \in 1..N
      OBVIOUS
    <3>2. s[k] = s[k - 1] + a[k] /\ a[k] = Term(S, t, k)
      BY <1>3, <3>1
    <3> QED BY <3>2
  <2> QED BY <2>1
<1>5. upto = [k \in 0..N |-> IF k = 0 THEN 0 ELSE upto[k - 1] + (IF k \in S THEN t[k].weight ELSE 0)]
  BY <1>4
<1> HIDE DEF upto
<1>6. upto[0] = 0 /\ \A k \in 1..N : upto[k] = upto[k - 1] + Term(S, t, k)
  BY <1>5 DEF Term
<1>7. upto \in [0..N -> Int]
  <2> DEFINE T == {k \in 0..N : upto[k] \in Int}
  <2>1. 0 \in T /\ T \in SUBSET (0..N)
    BY <1>6
  <2>2. ASSUME NEW k \in T, k < N PROVE k + 1 \in T
    <3>1. k + 1 \in 1..N /\ upto[k] \in Int
      BY <2>2
    <3>2. Term(S, t, k + 1) \in Int
      BY <3>1 DEF Term, Weighted
    <3>3. upto[k + 1] = upto[k] + Term(S, t, k + 1)
      BY <1>6, <3>1
    <3> QED BY <3>1, <3>2, <3>3
  <2> HIDE DEF T
  <2>3. T = 0..N
    BY <2>1, <2>2, BoundedInduction
  <2>4. \A k \in 0..N : upto[k] \in Int
    BY <2>3 DEF T
  <2> QED BY <1>5, <2>4
<1>8. SumsOf(upto, S, t)
  BY <1>6, <1>7 DEF SumsOf
<1> QED BY <1>1, <1>8


LEMMA SumType == ASSUME N \in Nat, NEW S, NEW t, Weighted(t) PROVE Sum(S, t) \in Int
<1>1. PICK s : SumsOf(s, S, t) /\ Sum(S, t) = s[N]
  BY SumExists
<1> QED BY <1>1 DEF SumsOf

LEMMA AddComparisons ==
  ASSUME NEW a \in Int, NEW b \in Int, NEW c \in Int, NEW x \in Int, NEW y \in Int, NEW z \in Int,
         NEW p \in Int, NEW q \in Int, NEW r \in Int,
         a * x <= b * y + c * z, a * p <= b * q + c * r
  PROVE  a * (x + p) <= b * (y + q) + c * (z + r)
<1>1. a * (x + p) = a * x + a * p /\ b * (y + q) = b * y + b * q /\ c * (z + r) = c * z + c * r
  OBVIOUS
<1>2. /\ a * x \in Int /\ b * y \in Int /\ c * z \in Int
      /\ a * p \in Int /\ b * q \in Int /\ c * r \in Int
  OBVIOUS
<1> QED BY <1>1, <1>2

\* What relates the weights record by record relates the sums.
LEMMA SumCompares ==
  ASSUME N \in Nat, NEW S, NEW t, NEW u, NEW v, Weighted(t), Weighted(u), Weighted(v),
         NEW a \in Int, NEW b \in Int, NEW c \in Int,
         \A k \in 1..N : k \in S => a * t[k].weight <= b * u[k].weight + c * v[k].weight
  PROVE  a * Sum(S, t) <= b * Sum(S, u) + c * Sum(S, v)
<1>1. PICK x : SumsOf(x, S, t) /\ Sum(S, t) = x[N]
  BY SumExists
<1>2. PICK y : SumsOf(y, S, u) /\ Sum(S, u) = y[N]
  BY SumExists
<1>3. PICK z : SumsOf(z, S, v) /\ Sum(S, v) = z[N]
  BY SumExists
<1> DEFINE T == {k \in 0..N : a * x[k] <= b * y[k] + c * z[k]}
<1>4. 0 \in T /\ T \in SUBSET (0..N)
  BY <1>1, <1>2, <1>3 DEF SumsOf
<1>5. ASSUME NEW k \in T, k < N PROVE k + 1 \in T
  <2> DEFINE tt == Term(S, t, k + 1)
             tu == Term(S, u, k + 1)
             tv == Term(S, v, k + 1)
  <2>1. k + 1 \in 1..N /\ (k + 1) - 1 = k /\ k \in 0..N
    BY <1>5
  <2>2. x[k] \in Int /\ y[k] \in Int /\ z[k] \in Int
    BY <1>1, <1>2, <1>3, <2>1 DEF SumsOf
  <2>3. tt \in Int /\ tu \in Int /\ tv \in Int
    BY <2>1 DEF Term, Weighted
  <2>4. x[k + 1] = x[k] + tt /\ y[k + 1] = y[k] + tu /\ z[k + 1] = z[k] + tv
    BY <1>1, <1>2, <1>3, <2>1 DEF SumsOf
  <2>5. a * tt <= b * tu + c * tv
    BY <2>1 DEF Term
  <2>6. a * x[k] <= b * y[k] + c * z[k]
    BY <1>5
  <2> HIDE DEF tt, tu, tv
  <2>7. a * (x[k] + tt) <= b * (y[k] + tu) + c * (z[k] + tv)
    BY <2>2, <2>3, <2>5, <2>6, AddComparisons, Zenon
  <2> QED BY <2>1, <2>4, <2>7
<1> HIDE DEF T
<1>6. T = 0..N
  BY <1>4, <1>5, BoundedInduction
<1>7. N \in 0..N
  OBVIOUS
<1>8. a * x[N] <= b * y[N] + c * z[N]
  BY <1>6, <1>7 DEF T
<1> QED BY <1>1, <1>2, <1>3, <1>8

\* The records of S and the others.
LEMMA SumSplits ==
  ASSUME N \in Nat, NEW S, NEW t, Weighted(t)
  PROVE  Sum(S, t) + Sum(1..N \ S, t) = Sum(1..N, t)
<1>1. PICK x : SumsOf(x, S, t) /\ Sum(S, t) = x[N]
  BY SumExists
<1>2. PICK y : SumsOf(y, 1..N \ S, t) /\ Sum(1..N \ S, t) = y[N]
  BY SumExists
<1>3. PICK z : SumsOf(z, 1..N, t) /\ Sum(1..N, t) = z[N]
  BY SumExists
<1> DEFINE T == {k \in 0..N : x[k] + y[k] = z[k]}
<1>4. 0 \in T /\ T \in SUBSET (0..N)
  BY <1>1, <1>2, <1>3 DEF SumsOf
<1>5. ASSUME NEW k \in T, k < N PROVE k + 1 \in T
  <2>1. k + 1 \in 1..N /\ (k + 1) - 1 = k /\ k \in 0..N /\ x[k] + y[k] = z[k]
    BY <1>5
  <2>2. x[k] \in Int /\ y[k] \in Int /\ z[k] \in Int
    BY <1>1, <1>2, <1>3, <2>1 DEF SumsOf
  <2>3. t[k + 1].weight \in Int
    BY <2>1 DEF Weighted
  <2>4. /\ x[k + 1] = x[k] + Term(S, t, k + 1)
        /\ y[k + 1] = y[k] + Term(1..N \ S, t, k + 1)
        /\ z[k + 1] = z[k] + t[k + 1].weight
    BY <1>1, <1>2, <1>3, <2>1 DEF SumsOf, Term
  <2>5. \/ Term(S, t, k + 1) = t[k + 1].weight /\ Term(1..N \ S, t, k + 1) = 0
        \/ Term(S, t, k + 1) = 0 /\ Term(1..N \ S, t, k + 1) = t[k + 1].weight
    BY <2>1 DEF Term
  <2>6. x[k + 1] + y[k + 1] = z[k + 1]
    BY <2>1, <2>2, <2>3, <2>4, <2>5
  <2> QED BY <2>1, <2>6
<1> HIDE DEF T
<1>6. T = 0..N
  BY <1>4, <1>5, BoundedInduction
<1>7. N \in 0..N
  OBVIOUS
<1>8. x[N] + y[N] = z[N]
  BY <1>6, <1>7 DEF T
<1> QED BY <1>1, <1>2, <1>3, <1>8

\* Every record counts one.
Ones == [k \in 1..N |-> [weight |-> 1, id |-> 0]]

LEMMA SumOfOnes == N \in Nat => Weighted(Ones) /\ Sum(1..N, Ones) = N
<1> SUFFICES ASSUME N \in Nat PROVE Weighted(Ones) /\ Sum(1..N, Ones) = N
  OBVIOUS
<1>1. Weighted(Ones) /\ \A k \in 1..N : Ones[k].weight = 1
  BY DEF Weighted, Ones
<1>2. PICK x : SumsOf(x, 1..N, Ones) /\ Sum(1..N, Ones) = x[N]
  BY <1>1, SumExists
<1> DEFINE T == {k \in 0..N : x[k] = k}
<1>3. 0 \in T /\ T \in SUBSET (0..N)
  BY <1>2 DEF SumsOf
<1>4. ASSUME NEW k \in T, k < N PROVE k + 1 \in T
  <2>1. k + 1 \in 1..N /\ (k + 1) - 1 = k /\ x[k] = k
    BY <1>4
  <2>2. x[k + 1] = x[k] + 1
    BY <1>1, <1>2, <2>1 DEF SumsOf, Term
  <2> QED BY <2>1, <2>2
<1> HIDE DEF T
<1>5. T = 0..N
  BY <1>3, <1>4, BoundedInduction
<1>6. N \in 0..N
  OBVIOUS
<1>7. x[N] = N
  BY <1>5, <1>6 DEF T
<1> QED BY <1>1, <1>2, <1>7

\* All weights but one are 0.
LEMMA SumOfOne ==
  ASSUME N \in Nat, NEW S, NEW t, Weighted(t), NEW j \in 1..N, j \in S,
         \A k \in 1..N : k \in S /\ k # j => t[k].weight = 0
  PROVE  Sum(S, t) = t[j].weight
<1>1. PICK x : SumsOf(x, S, t) /\ Sum(S, t) = x[N]
  BY SumExists
<1> DEFINE T == {k \in 0..N : x[k] = IF k < j THEN 0 ELSE t[j].weight}
<1>2. 0 \in T /\ T \in SUBSET (0..N)
  BY <1>1 DEF SumsOf
<1>3. ASSUME NEW k \in T, k < N PROVE k + 1 \in T
  <2>1. k + 1 \in 1..N /\ (k + 1) - 1 = k /\ x[k] = IF k < j THEN 0 ELSE t[j].weight
    BY <1>3
  <2>2. x[k + 1] = x[k] + Term(S, t, k + 1)
    BY <1>1, <2>1 DEF SumsOf
  <2>3. t[j].weight \in Int
    BY DEF Weighted
  <2>4. Term(S, t, k + 1) = IF k + 1 = j THEN t[j].weight ELSE 0
    BY <2>1 DEF Term
  <2>5. x[k + 1] = IF k + 1 < j THEN 0 ELSE t[j].weight
    BY <2>1, <2>2, <2>3, <2>4
  <2> QED BY <2>1, <2>5
<1> HIDE DEF T
<1>4. T = 0..N
  BY <1>2, <1>3, BoundedInduction
<1>5. N \in 0..N /\ ~(N < j)
  OBVIOUS
<1>6. x[N] = t[j].weight
  BY <1>4, <1>5 DEF T
<1> QED BY <1>1, <1>6


(***************************************************************************)
(* Rounding.                                                               *)
(***************************************************************************)
LEMMA DivFacts ==
  ASSUME NEW a \in Int, NEW b \in Nat, b > 0
  PROVE  a \div b \in Int /\ b * (a \div b) <= a /\ a < b * (a \div b) + b
  OBVIOUS

\* The quotient rounded, with either outcome for a tie, is off by half at most.
LEMMA RoundTieFacts ==
  ASSUME NEW n \in Int, NEW d \in Nat, d > 0, NEW up \in BOOLEAN
  PROVE  /\ RoundTie(n, d, up) \in Int
         /\ 2 * n - d <= 2 * (d * RoundTie(n, d, up))
         /\ 2 * (d * RoundTie(n, d, up)) <= 2 * n + d
<1> DEFINE e == IF up THEN 0 ELSE 1
           a == 2 * n + d - e
           r == a \div (2 * d)
<1>1. e \in 0..1 /\ a \in Int /\ 2 * d \in Nat /\ 2 * d > 0
  OBVIOUS
<1>2. a = 2 * n + d - e /\ RoundTie(n, d, up) = r
  BY DEF RoundTie
<1> HIDE DEF e, a
<1>3. r \in Int /\ (2 * d) * r <= a /\ a < (2 * d) * r + 2 * d
  BY <1>1, DivFacts
<1> HIDE DEF r
<1>4. (2 * d) * r = 2 * (d * r) /\ d * r \in Int
  BY <1>3
<1>5. 2 * n - d <= 2 * (d * r) /\ 2 * (d * r) <= 2 * n + d
  BY <1>1, <1>2, <1>3, <1>4
<1> QED BY <1>2, <1>3, <1>5

\* An exact quotient stays what it is.
LEMMA RoundTieExact ==
  ASSUME NEW q \in Int, NEW d \in Nat, d > 0, NEW up \in BOOLEAN
  PROVE  RoundTie(d * q, d, up) = q
<1> DEFINE r == RoundTie(d * q, d, up)
<1>1. d * q \in Int
  OBVIOUS
<1>2. r \in Int /\ 2 * (d * q) - d <= 2 * (d * r) /\ 2 * (d * r) <= 2 * (d * q) + d
  BY <1>1, RoundTieFacts
<1> HIDE DEF r
<1>3. 2 * (d * r) <= 2 * (d * q) + d => r <= q
  <2> SUFFICES ASSUME r >= q + 1 PROVE 2 * (d * r) > 2 * (d * q) + d
    BY <1>2
  <2>1. d * r >= d * (q + 1) /\ d * (q + 1) = d * q + d
    BY <1>2
  <2> QED BY <1>1, <1>2, <2>1
<1>4. 2 * (d * q) - d <= 2 * (d * r) => r >= q
  <2> SUFFICES ASSUME r <= q - 1 PROVE 2 * (d * r) < 2 * (d * q) - d
    BY <1>2
  <2>1. d * r <= d * (q - 1) /\ d * (q - 1) = d * q - d
    BY <1>2
  <2> QED BY <1>1, <1>2, <2>1
<1>5. r = q
  BY <1>2, <1>3, <1>4
<1> QED BY <1>5 DEF r


(***************************************************************************)
(* The invariant: the records of the file are of nodes of their own, and   *)
(* as long as the process runs the sums are those of the file or nobody    *)
(* has asked for them.                                                     *)
(***************************************************************************)
FileLoaded ==
  /\ N \in MaxNodes
  /\ workers \in Workers
  /\ \A k \in 1..N : nodes_info[k].weight \in Nat /\ nodes_info[k].id \in Nat
                     /\ nodes_info[k] \in Records
  /\ \A j, k \in 1..N : j # k /\ nodes_info[j].id = nodes_info[k].id =>
                          nodes_info[j].weight = 0 \/ nodes_info[k].weight = 0

OfTheFile ==
  /\ sum_ww = Sum(WorkerRecords, nodes_info)
  /\ sum_nww = Sum(OtherRecords, nodes_info)
  /\ SumsTo100(sum_ww + sum_nww)

SumsInv ==
  pc = "running" \/ call.op # "sums" => (sum_ww = 0 /\ sum_nww = 0) \/ OfTheFile

RInv == FileLoaded /\ TypeOK /\ SumsInv

LEMMA NFacts == FileLoaded => N \in Nat /\ N > 0 /\ Weighted(nodes_info)
  BY BoundsAssumption DEF FileLoaded, Weighted

LEMMA SumNat ==
  ASSUME N \in Nat, NEW S, NEW t, \A k \in 1..N : t[k].weight \in Nat
  PROVE  Sum(S, t) \in Nat
<1>1. Weighted(t)
  BY DEF Weighted
<1>2. Sum(S, t) \in Int
  BY <1>1, SumType
<1>3. \A k \in 1..N : k \in S => 0 * t[k].weight <= 1 * t[k].weight + 0 * t[k].weight
  OBVIOUS
<1>4. 0 * Sum(S, t) <= 1 * Sum(S, t) + 0 * Sum(S, t)
  <2>1. 0 \in Int /\ 1 \in Int
    OBVIOUS
  <2> QED BY <1>1, <1>3, <2>1, SumCompares, Zenon
<1> QED BY <1>2, <1>4

LEMMA RInitially == Init => RInv
<1> SUFFICES ASSUME Init PROVE RInv
  OBVIOUS
<1>1. PICK f \in Files : Cardinality(f) <= N /\ nodes_info \in Loaded(f)
  BY DEF Init
<1>2. PICK order \in Sorted(f) :
        nodes_info = [k \in 1..N |-> IF k <= Cardinality(f) THEN order[k] ELSE NoRecord]
  BY <1>1 DEF Loaded
<1>3. N \in MaxNodes /\ N \in Nat /\ Cardinality(f) \in Nat
  BY FilesAssumption, BoundsAssumption, FS_CardinalityType DEF Init
<1>4. /\ order \in [1..Cardinality(f) -> f]
      /\ \A j, k \in 1..Cardinality(f) : j < k => Before(order[j], order[k])
  BY DEF Sorted
<1>5. ASSUME NEW k \in 1..N
      PROVE  \/ k \in 1..Cardinality(f) /\ nodes_info[k] = order[k] /\ order[k] \in f
             \/ nodes_info[k] = NoRecord
  BY <1>2, <1>3, <1>4
<1>6. ASSUME NEW k \in 1..N
      PROVE  nodes_info[k].weight \in Nat /\ nodes_info[k].id \in Nat /\ nodes_info[k] \in Records
  <2>1. CASE nodes_info[k] = NoRecord
    BY <2>1 DEF NoRecord, Records
  <2>2. CASE nodes_info[k] \in f
    BY <2>2, FilesAssumption DEF Records
  <2> QED BY <1>5, <2>1, <2>2
<1>7. ASSUME NEW j \in 1..N, NEW k \in 1..N, j # k, nodes_info[j].id = nodes_info[k].id
      PROVE  nodes_info[j].weight = 0 \/ nodes_info[k].weight = 0
  <2>1. CASE nodes_info[j] = NoRecord \/ nodes_info[k] = NoRecord
    BY <2>1 DEF NoRecord
  <2>2. CASE nodes_info[j] # NoRecord /\ nodes_info[k] # NoRecord
    <3>1. /\ j \in 1..Cardinality(f) /\ nodes_info[j] = order[j] /\ order[j] \in f
          /\ k \in 1..Cardinality(f) /\ nodes_info[k] = order[k] /\ order[k] \in f
      BY <1>5, <2>2
    <3>2. order[j] = order[k]
      BY <1>7, <3>1, FilesAssumption
    <3>3. order[j].weight \in Nat /\ order[j].id \in Nat
      BY <3>1, FilesAssumption
    <3>4. ~Before(order[j], order[k]) /\ ~Before(order[k], order[j])
      BY <3>2, <3>3 DEF Before
    <3> QED BY <1>3, <1>4, <1>7, <3>1, <3>4
  <2> QED BY <2>1, <2>2
<1>8. FileLoaded
  BY <1>3, <1>6, <1>7 DEF FileLoaded, Init
<1>9. TypeOK
  <2>1. \A k \in 1..N : nodes_info_temp[k] \in Records
    BY DEF Init, NoRecord, Records
  <2> QED BY <1>6, <2>1 DEF Init, TypeOK
<1> QED BY <1>8, <1>9 DEF RInv, SumsInv, Init


\* Nothing changes the file.
LEMMA SameFile ==
  ASSUME UNCHANGED build
  PROVE  /\ N' = N /\ workers' = workers /\ nodes_info' = nodes_info
         /\ WorkerRecords' = WorkerRecords /\ OtherRecords' = OtherRecords
         /\ Supported' = Supported
         /\ \A S, t : (Sum(S, t))' = Sum(S, t)
         /\ Sum(WorkerRecords, nodes_info)' = Sum(WorkerRecords, nodes_info)
         /\ Sum(OtherRecords, nodes_info)' = Sum(OtherRecords, nodes_info)
<1>1. N' = N /\ workers' = workers /\ nodes_info' = nodes_info
  BY DEF build
<1>2. WorkerRecords' = WorkerRecords /\ OtherRecords' = OtherRecords
  BY <1>1 DEF WorkerRecords, OtherRecords, IsWorker
<1>3. Supported' = Supported
  BY <1>1, Zenon DEF Supported
<1>4. \A S, t : (Sum(S, t))' = Sum(S, t)
  BY <1>1, Zenon DEF Sum
<1>5. /\ Sum(WorkerRecords, nodes_info)' = Sum(WorkerRecords, nodes_info)
      /\ Sum(OtherRecords, nodes_info)' = Sum(OtherRecords, nodes_info)
  BY <1>1, <1>2, Zenon DEF Sum
<1> QED BY <1>1, <1>2, <1>3, <1>4, <1>5

LEMMA FileStays == ASSUME FileLoaded, UNCHANGED build PROVE FileLoaded'
  BY SameFile DEF FileLoaded

LEMMA TableSType ==
  ASSUME RInv, NEW s \in Int, NEW t \in TablesS(s)
  PROVE  \A k \in 1..N : t[k] \in Records /\ t[k].weight \in Int
<1>1. PICK up \in [1..N -> BOOLEAN] : t = TableS(s, up)
  BY DEF TablesS
<1>2. ~WorkersUnsummed /\ ~OthersUnsummed
  BY DEF TablesS
<1> SUFFICES ASSUME NEW k \in 1..N PROVE t[k] \in Records /\ t[k].weight \in Int
  OBVIOUS
<1>3. /\ nodes_info[k].weight \in Nat /\ nodes_info[k].id \in Nat
      /\ sum_ww \in Nat /\ sum_nww \in Nat /\ up[k] \in BOOLEAN
  BY DEF RInv, FileLoaded, TypeOK
<1>4. CASE IsWorker(k)
  <2>1. sum_ww > 0
    BY <1>2, <1>3, <1>4 DEF WorkersUnsummed, WorkerRecords
  <2>2. nodes_info[k].weight * (sum_ww + s) \in Int
    BY <1>3
  <2>3. RoundTie(nodes_info[k].weight * (sum_ww + s), sum_ww, up[k]) \in Int
    BY <1>3, <2>1, <2>2, RoundTieFacts
  <2> QED BY <1>1, <1>3, <1>4, <2>3 DEF TableS, Records
<1>5. CASE ~IsWorker(k)
  <2>1. sum_nww > 0
    BY <1>2, <1>3, <1>5 DEF OthersUnsummed, OtherRecords, WorkerRecords
  <2> DEFINE n == nodes_info[k].weight * (1000 - sum_ww - s)
  <2>2. n \in Int
    BY <1>3
  <2> HIDE DEF n
  <2>3. RoundTie(n, sum_nww, up[k]) \in Int
    BY <1>3, <2>1, <2>2, RoundTieFacts
  <2> QED BY <1>1, <1>3, <1>5, <2>3 DEF TableS, Records, n
<1> QED BY <1>4, <1>5

LEMMA TableDwpType ==
  ASSUME RInv, NEW s \in Int, NEW t \in TablesDwp(s)
  PROVE  \A k \in 1..N : t[k] \in Records /\ t[k].weight \in Int
<1>1. ~WorkersUnsummed /\ \E up \in [1..N -> BOOLEAN] : t = TableDwp(s, up)
  BY DEF TablesDwp
<1>5. PICK up \in [1..N -> BOOLEAN] : t = TableDwp(s, up)
  BY <1>1
<1> SUFFICES ASSUME NEW k \in 1..N PROVE t[k] \in Records /\ t[k].weight \in Int
  OBVIOUS
<1>2. nodes_info[k].weight \in Nat /\ nodes_info[k].id \in Nat /\ sum_ww \in Nat /\ up[k] \in BOOLEAN
  BY DEF RInv, FileLoaded, TypeOK
<1>3. CASE IsWorker(k)
  <2>1. sum_ww > 0 /\ 10 * sum_ww \in Nat /\ 10 * sum_ww > 0
    BY <1>1, <1>2, <1>3 DEF WorkersUnsummed, WorkerRecords
  <2> DEFINE n == nodes_info[k].weight * (sum_ww - s)
  <2>2. n \in Int
    BY <1>2
  <2> HIDE DEF n
  <2>4. RoundTie(n, 10 * sum_ww, up[k]) \in Int
    BY <1>2, <2>1, <2>2, RoundTieFacts
  <2> QED BY <1>2, <1>3, <1>5, <2>4 DEF TableDwp, Records, n
<1>4. CASE ~IsWorker(k)
  <2> DEFINE n == 1000 - sum_ww + s
  <2>1. n \in Int /\ 10 \in Nat /\ 10 > 0
    BY <1>2
  <2> HIDE DEF n
  <2>3. RoundTie(n, 10, up[k]) \in Int
    BY <1>2, <2>1, RoundTieFacts
  <2> QED BY <1>2, <1>4, <1>5, <2>3 DEF TableDwp, Records, n
<1> QED BY <1>3, <1>4

LEMMA GetSumsKeeps == ASSUME RInv, GetSums PROVE RInv'
<1>1. UNCHANGED build /\ UNCHANGED table /\ call'.op = "sums" /\ pc = "running"
  BY DEF GetSums, Called
<1>2. FileLoaded' /\ FileLoaded
  BY <1>1, FileStays DEF RInv
<1> DEFINE W == Sum(WorkerRecords, nodes_info)
           O == Sum(OtherRecords, nodes_info)
<1>3. W \in Nat /\ O \in Nat /\ sum_ww \in Nat /\ sum_nww \in Nat
  BY <1>2, NFacts, SumNat DEF FileLoaded, RInv, TypeOK
<1>4. W' = W /\ O' = O
  BY <1>1, SameFile
<1>5. (sum_ww = 0 /\ sum_nww = 0) \/ (sum_ww = W /\ sum_nww = O /\ SumsTo100(W + O))
  BY <1>1 DEF RInv, SumsInv, OfTheFile
<1>6. \/ UNCHANGED sums /\ pc' = "exited"
      \/ /\ sum_ww' = sum_ww + W /\ sum_nww' = sum_nww + O
         /\ pc' = IF SumsTo100(sum_ww' + sum_nww') THEN "running" ELSE "exited"
  BY DEF GetSums
<1> HIDE DEF W, O
<1>7. sum_ww' \in Nat /\ sum_nww' \in Nat /\ pc' \in {"running", "exited"}
  BY <1>3, <1>6 DEF sums
<1>8. TypeOK'
  BY <1>1, <1>2, <1>7, SameFile DEF RInv, TypeOK, table
<1>9. pc' = "running" => sum_ww' = W' /\ sum_nww' = O' /\ SumsTo100(sum_ww' + sum_nww')
  BY <1>3, <1>4, <1>5, <1>6 DEF SumsTo100
<1>10. SumsInv'
  <2>1. pc' = "running" => OfTheFile'
    BY <1>9 DEF OfTheFile, W, O, SumsTo100
  <2> QED BY <1>1, <2>1 DEF SumsInv
<1> QED BY <1>2, <1>8, <1>10 DEF RInv

\* The other calls leave the sums alone.
LEMMA OthersKeep ==
  ASSUME RInv, UNCHANGED <<build, sums>>, pc = "running", pc' \in {"running", "exited"},
         weight_initialized' \in BOOLEAN, \A k \in 1..N : nodes_info_temp'[k] \in Records
  PROVE  RInv'
<1>1. FileLoaded'
  BY FileStays DEF RInv
<1>2. TypeOK'
  BY SameFile DEF RInv, TypeOK, sums
<1>3. OfTheFile => OfTheFile'
  BY SameFile DEF OfTheFile, sums, SumsTo100
<1>4. (sum_ww = 0 /\ sum_nww = 0) \/ OfTheFile
  BY DEF RInv, SumsInv
<1>5. SumsInv'
  BY <1>3, <1>4 DEF SumsInv, sums
<1> QED BY <1>1, <1>2, <1>5 DEF RInv

LEMMA RKept == RInv /\ [Next]_vars => RInv'
<1> SUFFICES ASSUME RInv, [Next]_vars PROVE RInv'
  OBVIOUS
<1>1. /\ weight_initialized \in BOOLEAN /\ (\A k \in 1..N : nodes_info_temp[k] \in Records)
      /\ Ratios \subseteq Int /\ pc \in {"running", "exited"}
  BY BoundsAssumption DEF RInv, TypeOK
<1>2. ASSUME Exits, pc = "running" PROVE RInv'
  BY <1>1, <1>2, OthersKeep DEF Exits, table
<1>3. ASSUME UNCHANGED table, UNCHANGED <<build, sums, pc>>, pc = "running" PROVE RInv'
  BY <1>1, <1>3, OthersKeep DEF table
<1>4. ASSUME NEW s \in Ratios, PlaceS(s) PROVE RInv'
  <2>1. CASE NoTable(TablesS(s))
    BY <1>2, <1>4, <2>1 DEF PlaceS, NoTable
  <2>2. CASE SameTable /\ UNCHANGED <<build, sums, pc>>
    BY <1>3, <1>4, <2>2 DEF PlaceS, SameTable
  <2>3. CASE NewTable(TablesS(s)) /\ UNCHANGED <<build, sums, pc>>
    <3>1. nodes_info_temp' \in TablesS(s) /\ weight_initialized' = TRUE /\ pc = "running"
      BY <1>4, <2>3 DEF NewTable, PlaceS
    <3>2. \A k \in 1..N : nodes_info_temp'[k] \in Records
      BY <1>1, <3>1, TableSType
    <3> QED BY <1>1, <2>3, <3>1, <3>2, OthersKeep
  <2> QED BY <1>4, <2>1, <2>2, <2>3 DEF PlaceS
<1>5. ASSUME NEW s \in Ratios, NEW count \in Counts, PlaceDwp(s, count) PROVE RInv'
  <2>1. CASE NoTable(TablesDwp(s))
    BY <1>2, <1>5, <2>1 DEF PlaceDwp, NoTable
  <2>2. CASE SameTable /\ UNCHANGED <<build, sums, pc>>
    BY <1>3, <1>5, <2>2 DEF PlaceDwp, SameTable
  <2>3. CASE NewTable(TablesDwp(s)) /\ UNCHANGED <<build, sums, pc>>
    <3>1. nodes_info_temp' \in TablesDwp(s) /\ weight_initialized' = TRUE /\ pc = "running"
      BY <1>5, <2>3 DEF NewTable, PlaceDwp
    <3>2. \A k \in 1..N : nodes_info_temp'[k] \in Records
      BY <1>1, <3>1, TableDwpType
    <3> QED BY <1>1, <2>3, <3>1, <3>2, OthersKeep
  <2> QED BY <1>5, <2>1, <2>2, <2>3 DEF PlaceDwp
<1>6. ASSUME NEW s \in Ratios, NEW count \in Counts, PlaceAll(s, count) PROVE RInv'
  BY <1>1, <1>6, OthersKeep DEF PlaceAll
<1>7. ASSUME NEW count \in Counts, MoveInitial(count) \/ UniformInterleave(count) PROVE RInv'
  BY <1>3, <1>7 DEF MoveInitial, UniformInterleave
<1>8. CASE KernelFails
  BY <1>2, <1>8 DEF KernelFails
<1>9. CASE UNCHANGED vars
  <2>1. /\ UNCHANGED build /\ UNCHANGED <<table, sums, call, pc>>
    BY <1>9 DEF vars
  <2>2. FileLoaded' /\ TypeOK'
    BY <2>1, FileStays, SameFile DEF RInv, TypeOK, table, sums
  <2>3. OfTheFile => OfTheFile'
    BY <2>1, SameFile DEF OfTheFile, sums, SumsTo100
  <2>4. SumsInv'
    BY <2>1, <2>3 DEF RInv, SumsInv, sums
  <2> QED BY <2>2, <2>4 DEF RInv
<1> QED BY <1>4, <1>5, <1>6, <1>7, <1>8, <1>9, GetSumsKeeps DEF Next

\* The variables keep their types, for any files, ratios and lengths: the sums of
\* workers and others are counted once or the process exits, and no weight is
\* divided by a sum of 0.
THEOREM TypeCorrect == Spec => []TypeOK
<1>1. RInv => TypeOK
  BY DEF RInv
<1> QED BY <1>1, RInitially, RKept, PTL DEF Spec


(***************************************************************************)
(* The tables of place_pages_weighted_s.                                   *)
(***************************************************************************)
\* Weights in proportion to those of u, each rounded, sum to x to half a unit for
\* each record.
LEMMA ProportionalSum ==
  ASSUME N \in Nat, NEW S, NEW t, NEW u, Weighted(t), Weighted(u),
         NEW d \in Nat, d > 0, Sum(S, u) = d, NEW x \in Int,
         \A k \in 1..N : k \in S => /\ 2 * (u[k].weight * x) - d <= 2 * (d * t[k].weight)
                                    /\ 2 * (d * t[k].weight) <= 2 * (u[k].weight * x) + d
  PROVE  /\ 2 * x - Sum(S, Ones) <= 2 * Sum(S, t)
         /\ 2 * Sum(S, t) <= 2 * x + Sum(S, Ones)
<1> DEFINE T == Sum(S, t)
           C == Sum(S, Ones)
<1>1. Weighted(Ones) /\ T \in Int /\ C \in Int /\ \A k \in 1..N : Ones[k].weight = 1
  BY SumOfOnes, SumType DEF Ones
<1>2. 2 * d \in Int /\ 2 * x \in Int /\ d \in Int
  OBVIOUS
<1>3. ASSUME NEW k \in 1..N, k \in S
      PROVE  /\ (2 * d) * t[k].weight <= (2 * x) * u[k].weight + d * Ones[k].weight
             /\ (2 * x) * u[k].weight <= (2 * d) * t[k].weight + d * Ones[k].weight
  <2>1. t[k].weight \in Int /\ u[k].weight \in Int /\ Ones[k].weight = 1
    BY <1>1 DEF Weighted
  <2>2. (2 * d) * t[k].weight = 2 * (d * t[k].weight) /\ d * t[k].weight \in Int
    BY <2>1
  <2>3. (2 * x) * u[k].weight = 2 * (u[k].weight * x) /\ u[k].weight * x \in Int
    BY <2>1
  <2>4. /\ 2 * (u[k].weight * x) - d <= 2 * (d * t[k].weight)
        /\ 2 * (d * t[k].weight) <= 2 * (u[k].weight * x) + d
    BY <1>3
  <2>5. d * Ones[k].weight = d
    BY <2>1
  <2> QED BY <2>2, <2>3, <2>4, <2>5
<1>4. (2 * d) * T <= (2 * x) * Sum(S, u) + d * C
  BY <1>1, <1>2, <1>3, SumCompares, Zenon
<1>5. (2 * x) * Sum(S, u) <= (2 * d) * T + d * C
  BY <1>1, <1>2, <1>3, SumCompares, Zenon
<1> HIDE DEF T, C
<1>6. d * (2 * T) <= d * (2 * x + C)
  <2>1. (2 * d) * T = d * (2 * T) /\ (2 * x) * d + d * C = d * (2 * x + C)
    BY <1>1
  <2> QED BY <1>4, <2>1
<1>7. d * (2 * x - C) <= d * (2 * T)
  <2>1. (2 * d) * T = d * (2 * T) /\ (2 * x) * d - d * C = d * (2 * x - C)
    BY <1>1
  <2>2. (2 * d) * T \in Int /\ (2 * x) * d \in Int /\ d * C \in Int
    BY <1>1
  <2> QED BY <1>5, <2>1, <2>2
<1>8. 2 * T <= 2 * x + C /\ 2 * x - C <= 2 * T
  BY <1>1, <1>6, <1>7, Cancels
<1> QED BY <1>8 DEF T, C

\* Workers and others are all the records.
LEMMA CountsAddUp ==
  ASSUME N \in Nat
  PROVE  /\ Sum(WorkerRecords, Ones) \in Nat /\ Sum(OtherRecords, Ones) \in Nat
         /\ Sum(WorkerRecords, Ones) + Sum(OtherRecords, Ones) = N
<1>1. Weighted(Ones) /\ \A k \in 1..N : Ones[k].weight \in Nat
  BY SumOfOnes DEF Ones
<1>2. Sum(WorkerRecords, Ones) + Sum(1..N \ WorkerRecords, Ones) = Sum(1..N, Ones)
  BY <1>1, SumSplits
<1> QED BY <1>1, <1>2, SumNat, SumOfOnes DEF OtherRecords

\* There is a table only if the sums are those of the file.
LEMMA TableNeedsSums ==
  ASSUME RInv, pc = "running" \/ call.op # "sums", ~WorkersUnsummed, ~OthersUnsummed
  PROVE  OfTheFile /\ sum_ww \in Nat /\ sum_nww \in Nat
         /\ (WorkerRecords # {} => sum_ww > 0) /\ (OtherRecords # {} => sum_nww > 0)
<1>1. sum_ww \in Nat /\ sum_nww \in Nat /\ N \in Nat /\ N > 0
  BY NFacts DEF RInv, TypeOK
<1>2. (WorkerRecords # {} => sum_ww > 0) /\ (OtherRecords # {} => sum_nww > 0)
  BY <1>1 DEF WorkersUnsummed, OthersUnsummed
<1>3. WorkerRecords # {} \/ OtherRecords # {}
  <2>1. 1 \in 1..N
    BY <1>1
  <2> QED BY <2>1 DEF OtherRecords
<1> QED BY <1>1, <1>2, <1>3 DEF RInv, SumsInv

LEMMA TableSFacts ==
  ASSUME RInv, NEW s \in Int, NEW up \in [1..N -> BOOLEAN], ~WorkersUnsummed, ~OthersUnsummed,
         NEW k \in 1..N
  PROVE  /\ k \in WorkerRecords => LET t == TableS(s, up) IN
              /\ t[k].weight = RoundTie(nodes_info[k].weight * (sum_ww + s), sum_ww, up[k])
              /\ 2 * (nodes_info[k].weight * (sum_ww + s)) - sum_ww <= 2 * (sum_ww * t[k].weight)
              /\ 2 * (sum_ww * t[k].weight) <= 2 * (nodes_info[k].weight * (sum_ww + s)) + sum_ww
         /\ k \in OtherRecords => LET t == TableS(s, up) IN
              /\ t[k].weight = RoundTie(nodes_info[k].weight * (1000 - sum_ww - s), sum_nww, up[k])
              /\ 2 * (nodes_info[k].weight * (1000 - sum_ww - s)) - sum_nww
                   <= 2 * (sum_nww * t[k].weight)
              /\ 2 * (sum_nww * t[k].weight)
                   <= 2 * (nodes_info[k].weight * (1000 - sum_ww - s)) + sum_nww
<1>1. /\ nodes_info[k].weight \in Nat /\ sum_ww \in Nat /\ sum_nww \in Nat /\ up[k] \in BOOLEAN
  BY DEF RInv, FileLoaded, TypeOK
<1> DEFINE w == nodes_info[k].weight * (sum_ww + s)
           o == nodes_info[k].weight * (1000 - sum_ww - s)
<1>2. w \in Int /\ o \in Int
  BY <1>1
<1>3. CASE k \in WorkerRecords
  <2>1. IsWorker(k) /\ k \notin OtherRecords /\ sum_ww > 0
    BY <1>1, <1>3 DEF WorkerRecords, OtherRecords, WorkersUnsummed
  <2>2. TableS(s, up)[k].weight = RoundTie(w, sum_ww, up[k])
    BY <2>1 DEF TableS
  <2> HIDE DEF w, o
  <2>3. /\ 2 * w - sum_ww <= 2 * (sum_ww * RoundTie(w, sum_ww, up[k]))
        /\ 2 * (sum_ww * RoundTie(w, sum_ww, up[k])) <= 2 * w + sum_ww
    BY <1>1, <1>2, <2>1, RoundTieFacts
  <2> QED BY <2>1, <2>2, <2>3 DEF w
<1>4. CASE k \notin WorkerRecords
  <2>1. ~IsWorker(k) /\ k \in OtherRecords /\ sum_nww > 0
    BY <1>1, <1>4 DEF WorkerRecords, OtherRecords, OthersUnsummed
  <2>2. TableS(s, up)[k].weight = RoundTie(o, sum_nww, up[k])
    BY <2>1 DEF TableS
  <2> HIDE DEF w, o
  <2>3. /\ 2 * o - sum_nww <= 2 * (sum_nww * RoundTie(o, sum_nww, up[k]))
        /\ 2 * (sum_nww * RoundTie(o, sum_nww, up[k])) <= 2 * o + sum_nww
    BY <1>1, <1>2, <2>1, RoundTieFacts
  <2> QED BY <1>4, <2>2, <2>3 DEF o
<1> QED BY <1>3, <1>4

\* The workers of a new table have what the file gives them and s, the others the
\* rest of 100, to half a tenth for each record.
LEMMA ShiftedSums ==
  ASSUME RInv, pc = "running" \/ call.op # "sums", NEW s \in Int, NEW t \in TablesS(s)
  PROVE  LET W == Sum(WorkerRecords, t)  O == Sum(OtherRecords, t) IN
         /\ W \in Int /\ O \in Int
         /\ WorkerRecords # {} => /\ 2 * (sum_ww + s) - Sum(WorkerRecords, Ones) <= 2 * W
                                  /\ 2 * W <= 2 * (sum_ww + s) + Sum(WorkerRecords, Ones)
         /\ OtherRecords # {} => /\ 2 * (1000 - sum_ww - s) - Sum(OtherRecords, Ones) <= 2 * O
                                 /\ 2 * O <= 2 * (1000 - sum_ww - s) + Sum(OtherRecords, Ones)
         /\ W + O = Sum(1..N, t)
<1>1. PICK up \in [1..N -> BOOLEAN] : t = TableS(s, up)
  BY DEF TablesS
<1>2. ~WorkersUnsummed /\ ~OthersUnsummed
  BY DEF TablesS
<1>3. /\ OfTheFile /\ sum_ww \in Nat /\ sum_nww \in Nat
      /\ (WorkerRecords # {} => sum_ww > 0) /\ (OtherRecords # {} => sum_nww > 0)
  BY <1>2, TableNeedsSums
<1>4. N \in Nat /\ Weighted(nodes_info) /\ Weighted(t)
  BY NFacts, TableSType DEF RInv, Weighted
<1>5. Sum(WorkerRecords, t) \in Int /\ Sum(OtherRecords, t) \in Int
  BY <1>4, SumType
<1>6. Sum(WorkerRecords, t) + Sum(OtherRecords, t) = Sum(1..N, t)
  BY <1>4, SumSplits DEF OtherRecords
<1>7. sum_ww + s \in Int /\ 1000 - sum_ww - s \in Int
  BY <1>3
<1>8. ASSUME WorkerRecords # {}
      PROVE  /\ 2 * (sum_ww + s) - Sum(WorkerRecords, Ones) <= 2 * Sum(WorkerRecords, t)
             /\ 2 * Sum(WorkerRecords, t) <= 2 * (sum_ww + s) + Sum(WorkerRecords, Ones)
  <2>1. \A k \in 1..N : k \in WorkerRecords =>
          /\ 2 * (nodes_info[k].weight * (sum_ww + s)) - sum_ww <= 2 * (sum_ww * t[k].weight)
          /\ 2 * (sum_ww * t[k].weight) <= 2 * (nodes_info[k].weight * (sum_ww + s)) + sum_ww
    BY <1>1, <1>2, TableSFacts
  <2>2. Sum(WorkerRecords, nodes_info) = sum_ww /\ sum_ww > 0
    BY <1>3, <1>8 DEF OfTheFile
  <2> DEFINE x == sum_ww + s
  <2>3. x \in Int
    BY <1>7
  <2>4. \A k \in 1..N : k \in WorkerRecords =>
          /\ 2 * (nodes_info[k].weight * x) - sum_ww <= 2 * (sum_ww * t[k].weight)
          /\ 2 * (sum_ww * t[k].weight) <= 2 * (nodes_info[k].weight * x) + sum_ww
    BY <2>1
  <2> HIDE DEF x
  <2>5. /\ 2 * x - Sum(WorkerRecords, Ones) <= 2 * Sum(WorkerRecords, t)
        /\ 2 * Sum(WorkerRecords, t) <= 2 * x + Sum(WorkerRecords, Ones)
    BY <1>3, <1>4, <2>2, <2>3, <2>4, ProportionalSum, Zenon
  <2> QED BY <2>5 DEF x
<1>9. ASSUME OtherRecords # {}
      PROVE  /\ 2 * (1000 - sum_ww - s) - Sum(OtherRecords, Ones) <= 2 * Sum(OtherRecords, t)
             /\ 2 * Sum(OtherRecords, t) <= 2 * (1000 - sum_ww - s) + Sum(OtherRecords, Ones)
  <2>1. \A k \in 1..N : k \in OtherRecords =>
          /\ 2 * (nodes_info[k].weight * (1000 - sum_ww - s)) - sum_nww <= 2 * (sum_nww * t[k].weight)
          /\ 2 * (sum_nww * t[k].weight) <= 2 * (nodes_info[k].weight * (1000 - sum_ww - s)) + sum_nww
    BY <1>1, <1>2, TableSFacts
  <2>2. Sum(OtherRecords, nodes_info) = sum_nww /\ sum_nww > 0
    BY <1>3, <1>9 DEF OfTheFile
  <2> DEFINE x == 1000 - sum_ww - s
  <2>3. x \in Int
    BY <1>7
  <2>4. \A k \in 1..N : k \in OtherRecords =>
          /\ 2 * (nodes_info[k].weight * x) - sum_nww <= 2 * (sum_nww * t[k].weight)
          /\ 2 * (sum_nww * t[k].weight) <= 2 * (nodes_info[k].weight * x) + sum_nww
    BY <2>1
  <2> HIDE DEF x
  <2>5. /\ 2 * x - Sum(OtherRecords, Ones) <= 2 * Sum(OtherRecords, t)
        /\ 2 * Sum(OtherRecords, t) <= 2 * x + Sum(OtherRecords, Ones)
    BY <1>3, <1>4, <2>2, <2>3, <2>4, ProportionalSum, Zenon
  <2> QED BY <2>5 DEF x
<1> QED BY <1>5, <1>6, <1>8, <1>9


(***************************************************************************)
(* What the call made last has left behind.  Every part names the state    *)
(* the call found, which the build and the sums still describe.            *)
(***************************************************************************)
Refused(Candidates) == Candidates = {} \/ \E t \in Candidates : ~SumsTo100(Sum(1..N, t))

ComputedS ==
  call.op = "s" /\ call.fresh /\ weight_initialized =>
    \E s \in Ratios : call.s = s /\ \E t : nodes_info_temp = t /\ t \in TablesS(s)
RefusedS ==
  call.op = "s" /\ pc = "exited" => \E s \in Ratios : call.s = s /\ Refused(TablesS(s))
RefusedDwp ==
  call.op = "dwp" /\ pc = "exited" => \E s \in Ratios : call.s = s /\ Refused(TablesDwp(s))
MovedUniform ==
  call.op = "uniform" => \E count \in Counts : nodes = UniformNodes(count)

CallInv == ComputedS /\ RefusedS /\ RefusedDwp /\ MovedUniform

LEMMA SameTables ==
  ASSUME UNCHANGED build, UNCHANGED sums
  PROVE  /\ \A s : (TablesS(s))' = TablesS(s)
         /\ \A s : (TablesDwp(s))' = TablesDwp(s)
         /\ \A s : (Refused(TablesS(s)))' <=> Refused(TablesS(s))
         /\ \A s : (Refused(TablesDwp(s)))' <=> Refused(TablesDwp(s))
<1>1. /\ N' = N /\ workers' = workers /\ nodes_info' = nodes_info
      /\ sum_ww' = sum_ww /\ sum_nww' = sum_nww
  BY DEF build, sums
<1>2. /\ Supported' <=> Supported
      /\ WorkersUnsummed' <=> WorkersUnsummed
      /\ OthersUnsummed' <=> OthersUnsummed
  BY <1>1 DEF Supported, WorkersUnsummed, OthersUnsummed, WorkerRecords, OtherRecords, IsWorker
<1>3. \A s, up : (TableS(s, up))' = TableS(s, up)
  BY <1>1 DEF TableS, IsWorker
<1>4. \A s, up : (TableDwp(s, up))' = TableDwp(s, up)
  BY <1>1 DEF TableDwp, IsWorker
<1>5. \A s : (TablesS(s))' = TablesS(s)
  BY <1>1, <1>2, <1>3 DEF TablesS
<1>6. \A s : (TablesDwp(s))' = TablesDwp(s)
  BY <1>1, <1>2, <1>4 DEF TablesDwp
<1>7. \A C : (Refused(C))' <=> Refused(C)
  <2>1. \A t : (Sum(1..N, t))' = Sum(1..N, t)
    BY <1>1, Zenon DEF Sum
  <2> QED BY <2>1 DEF Refused, SumsTo100
<1>8. \A s : (Refused(TablesS(s)))' <=> Refused(TablesS(s))
  BY <1>5, <1>7
<1>9. \A s : (Refused(TablesDwp(s)))' <=> Refused(TablesDwp(s))
  BY <1>6, <1>7
<1> QED BY <1>5, <1>6, <1>8, <1>9

LEMMA CallInitially == Init => CallInv
  BY DEF Init, NoCall, CallInv, ComputedS, RefusedS, RefusedDwp, MovedUniform

\* A call of another kind has no bearing.
LEMMA NothingElse ==
  ASSUME call'.op \notin {"s", "dwp", "uniform"}
  PROVE  CallInv'
  BY DEF CallInv, ComputedS, RefusedS, RefusedDwp, MovedUniform

LEMMA CallKept == RInv /\ CallInv /\ [Next]_vars => CallInv'
<1> SUFFICES ASSUME RInv, CallInv, [Next]_vars PROVE CallInv'
  OBVIOUS
<1>1. CASE UNCHANGED vars
  <2>1. UNCHANGED build /\ UNCHANGED sums /\ UNCHANGED <<nodes_info_temp, weight_initialized, call, nodes, pc>>
    BY <1>1 DEF vars, table
  <2>2. ComputedS' /\ RefusedS' /\ RefusedDwp'
    BY <2>1, SameTables DEF CallInv, ComputedS, RefusedS, RefusedDwp
  <2>3. MovedUniform'
    BY <2>1 DEF CallInv, MovedUniform, UniformNodes, PagesOf
  <2> QED BY <2>2, <2>3 DEF CallInv
<1>2. ASSUME NEW s \in Ratios, PlaceS(s) PROVE CallInv'
  <2>1. /\ call'.op = "s" /\ call'.s = s /\ call'.fresh = ~weight_initialized /\ pc = "running"
    BY <1>2 DEF PlaceS, Called
  <2>2. UNCHANGED build /\ UNCHANGED sums
    BY <1>2 DEF PlaceS, NoTable, Exits
  <2>3. CASE NoTable(TablesS(s))
    <3>1. Refused(TablesS(s)) /\ ~weight_initialized /\ weight_initialized' = weight_initialized
      BY <2>3 DEF NoTable, Refused, Exits, table
    <3>2. (Refused(TablesS(s)))'
      BY <2>2, <3>1, SameTables
    <3>3. RefusedS' /\ ComputedS'
      BY <2>1, <3>1, <3>2 DEF RefusedS, ComputedS
    <3> QED BY <2>1, <3>3 DEF CallInv, RefusedDwp, MovedUniform
  <2>4. CASE SameTable /\ UNCHANGED pc
    BY <2>1, <2>4 DEF SameTable, CallInv, ComputedS, RefusedS, RefusedDwp, MovedUniform
  <2>5. CASE NewTable(TablesS(s)) /\ UNCHANGED pc
    <3>1. nodes_info_temp' \in TablesS(s) /\ pc' = "running"
      BY <2>1, <2>5 DEF NewTable
    <3>2. (TablesS(s))' = TablesS(s)
      BY <2>2, SameTables
    <3>3. ComputedS'
      BY <2>1, <3>1, <3>2 DEF ComputedS
    <3> QED BY <2>1, <3>1, <3>3 DEF CallInv, RefusedS, RefusedDwp, MovedUniform
  <2> QED BY <1>2, <2>3, <2>4, <2>5 DEF PlaceS
<1>3. ASSUME NEW s \in Ratios, NEW count \in Counts, PlaceDwp(s, count) PROVE CallInv'
  <2>1. call'.op = "dwp" /\ call'.s = s /\ pc = "running"
    BY <1>3 DEF PlaceDwp, Called
  <2>2. UNCHANGED build /\ UNCHANGED sums
    BY <1>3 DEF PlaceDwp, NoTable, Exits
  <2>3. CASE NoTable(TablesDwp(s))
    <3>1. Refused(TablesDwp(s)) /\ pc' = "exited"
      BY <2>3 DEF NoTable, Refused, Exits
    <3>2. (Refused(TablesDwp(s)))'
      BY <2>2, <3>1, SameTables
    <3>3. RefusedDwp'
      BY <2>1, <3>1, <3>2 DEF RefusedDwp
    <3> QED BY <2>1, <3>3 DEF CallInv, ComputedS, RefusedS, MovedUniform
  <2>4. CASE UNCHANGED pc
    BY <2>1, <2>4 DEF CallInv, ComputedS, RefusedS, RefusedDwp, MovedUniform
  <2> QED BY <1>3, <2>3, <2>4 DEF PlaceDwp
<1>4. ASSUME NEW s \in Ratios, NEW count \in Counts, PlaceAll(s, count) PROVE CallInv'
  BY <1>4, NothingElse DEF PlaceAll, Called
<1>5. ASSUME NEW count \in Counts, UniformInterleave(count) PROVE CallInv'
  <2>1. call'.op = "uniform" /\ nodes' = UniformNodes(count)
    BY <1>5 DEF UniformInterleave, Called
  <2>2. MovedUniform'
    BY <2>1 DEF MovedUniform, UniformNodes, PagesOf
  <2> QED BY <2>1, <2>2 DEF CallInv, ComputedS, RefusedS, RefusedDwp
<1>6. ASSUME GetSums \/ KernelFails \/ \E count \in Counts : MoveInitial(count) PROVE CallInv'
  <2>1. call'.op \in {"sums", "kernel", "initial"}
    BY <1>6 DEF GetSums, KernelFails, MoveInitial, Called
  <2> QED BY <2>1, NothingElse
<1> QED BY <1>1, <1>2, <1>3, <1>4, <1>5, <1>6 DEF Next

\* No weight is more than the sum of them.
LEMMA WeightAtMostSum ==
  ASSUME N \in Nat, NEW S, NEW t, \A k \in 1..N : t[k].weight \in Nat, NEW j \in 1..N, j \in S
  PROVE  t[j].weight <= Sum(S, t)
<1> DEFINE u == [k \in 1..N |-> [weight |-> IF k = j THEN t[j].weight ELSE 0, id |-> 0]]
<1>1. \A k \in 1..N : u[k].weight = IF k = j THEN t[j].weight ELSE 0
  OBVIOUS
<1>2. Weighted(t) /\ Weighted(u)
  BY <1>1 DEF Weighted
<1> HIDE DEF u
<1>3. Sum(S, u) = t[j].weight
  <2>1. Sum(S, u) = u[j].weight
    BY <1>1, <1>2, SumOfOne
  <2> QED BY <1>1, <2>1
<1>4. \A k \in 1..N : k \in S => 1 * u[k].weight <= 1 * t[k].weight + 0 * t[k].weight
  BY <1>1
<1>5. 1 * Sum(S, u) <= 1 * Sum(S, t) + 0 * Sum(S, t)
  <2>1. 0 \in Int /\ 1 \in Int
    OBVIOUS
  <2> QED BY <1>2, <1>4, <2>1, SumCompares, Zenon
<1>6. Sum(S, t) \in Int /\ t[j].weight \in Nat
  BY <1>2, SumType
<1> QED BY <1>3, <1>5, <1>6

\* A part of x, rounded, is between 0 and x.
LEMMA PartRange ==
  ASSUME NEW w \in Nat, NEW d \in Nat, d > 0, w <= d, NEW x \in Nat, NEW r \in Int,
         2 * (w * x) - d <= 2 * (d * r), 2 * (d * r) <= 2 * (w * x) + d
  PROVE  r \in 0..x
<1>1. w * x <= d * x /\ w * x \in Nat /\ d * x \in Nat /\ d * r \in Int
  OBVIOUS
<1>2. r <= x
  <2> SUFFICES ASSUME x + 1 <= r PROVE FALSE
    OBVIOUS
  <2>1. d * (x + 1) <= d * r /\ d * (x + 1) = d * x + d
    OBVIOUS
  <2> QED BY <1>1, <2>1
<1>3. r >= 0
  <2> SUFFICES ASSUME r <= -1 PROVE FALSE
    OBVIOUS
  <2>1. d * r <= d * (-1) /\ d * (-1) = -d
    OBVIOUS
  <2> QED BY <1>1, <2>1
<1> QED BY <1>2, <1>3

LEMMA GainOfTable ==
  ASSUME RInv, CallInv PROVE WorkersGainTheShift
<1> SUFFICES ASSUME call.op = "s", call.fresh, weight_initialized, WorkerRecords # {},
                    call.s \in (-sum_ww)..(1000 - sum_ww)
             PROVE  /\ \A k \in 1..N : nodes_info_temp[k].weight \in 0..1000
                    /\ 2 * Distance(Sum(WorkerRecords, nodes_info_temp), sum_ww + call.s) <= N
  BY DEF WorkersGainTheShift
<1>1. PICK s \in Ratios : call.s = s /\ nodes_info_temp \in TablesS(s)
  BY DEF CallInv, ComputedS
<1>2. PICK t \in TablesS(s) : nodes_info_temp = t
  BY <1>1
<1>3. s \in Int /\ s \in (-sum_ww)..(1000 - sum_ww)
  BY <1>1, BoundsAssumption
<1>4. PICK up \in [1..N -> BOOLEAN] : t = TableS(s, up)
  BY DEF TablesS
<1>5. ~WorkersUnsummed /\ ~OthersUnsummed
  BY DEF TablesS
<1>6. /\ OfTheFile /\ sum_ww \in Nat /\ sum_nww \in Nat
      /\ sum_ww > 0 /\ (OtherRecords # {} => sum_nww > 0)
  BY <1>5, TableNeedsSums
<1>7. N \in Nat /\ \A k \in 1..N : nodes_info[k].weight \in Nat /\ t[k].weight \in Int
  BY <1>3, NFacts, TableSType DEF RInv, FileLoaded
<1>8. ASSUME NEW k \in 1..N PROVE t[k].weight \in 0..1000
  <2> DEFINE w == nodes_info[k].weight
             r == t[k].weight
             range == 0..1000
  <2>1. w \in Nat /\ r \in Int
    BY <1>7
  <2>2. ASSUME k \in WorkerRecords PROVE r \in range
    <3> DEFINE x == sum_ww + s
    <3>1. x \in Nat /\ x <= 1000
      BY <1>3, <1>6
    <3>2. w <= sum_ww /\ sum_ww > 0
      BY <1>6, <1>7, <2>2, WeightAtMostSum DEF OfTheFile
    <3>3. 2 * (w * x) - sum_ww <= 2 * (sum_ww * r) /\ 2 * (sum_ww * r) <= 2 * (w * x) + sum_ww
      BY <1>3, <1>4, <1>5, <2>2, TableSFacts
    <3> HIDE DEF x, w, r
    <3>4. r \in 0..x
      BY <1>6, <2>1, <3>1, <3>2, <3>3, PartRange
    <3> QED BY <3>1, <3>4
  <2>3. ASSUME k \in OtherRecords PROVE r \in range
    <3> DEFINE x == 1000 - sum_ww - s
    <3>1. x \in Nat /\ x <= 1000
      BY <1>3, <1>6
    <3>2. w <= sum_nww /\ sum_nww > 0
      BY <1>6, <1>7, <2>3, WeightAtMostSum DEF OfTheFile
    <3>3. 2 * (w * x) - sum_nww <= 2 * (sum_nww * r) /\ 2 * (sum_nww * r) <= 2 * (w * x) + sum_nww
      BY <1>3, <1>4, <1>5, <2>3, TableSFacts
    <3> HIDE DEF x, w, r
    <3>4. r \in 0..x
      BY <1>6, <2>1, <3>1, <3>2, <3>3, PartRange
    <3> QED BY <3>1, <3>4
  <2>4. k \in WorkerRecords \/ k \in OtherRecords
    BY DEF OtherRecords
  <2> HIDE DEF r, range
  <2>5. r \in range
    BY <2>2, <2>3, <2>4, Zenon
  <2> QED BY <2>5 DEF r, range
<1> DEFINE W == Sum(WorkerRecords, t)
           C == Sum(WorkerRecords, Ones)
<1>9. W \in Int /\ 2 * (sum_ww + s) - C <= 2 * W /\ 2 * W <= 2 * (sum_ww + s) + C
  BY <1>3, ShiftedSums
<1>10. C \in Nat /\ C <= N
  BY <1>7, CountsAddUp
<1> HIDE DEF W, C
<1>11. 2 * Distance(W, sum_ww + s) <= N
  BY <1>3, <1>6, <1>7, <1>9, <1>10 DEF Distance
<1>12. Sum(WorkerRecords, nodes_info_temp) = W
  BY <1>2 DEF W
<1>13. \A k \in 1..N : nodes_info_temp[k].weight \in 0..1000
  <2> DEFINE range == 0..1000
  <2>1. \A k \in 1..N : t[k].weight \in range
    BY <1>8
  <2> HIDE DEF range
  <2>2. \A k \in 1..N : nodes_info_temp[k].weight \in range
    BY <1>2, <2>1, Zenon
  <2> QED BY <2>2 DEF range
<1> QED BY <1>1, <1>11, <1>12, <1>13

\* The workers gain what the caller asked for, whatever the file, the number of
\* records and the roundings: no weight leaves 0..100% and the roundings lose no
\* more than half a tenth each.
THEOREM WorkersGain == Spec => []WorkersGainTheShift
<1>1. RInv /\ CallInv => WorkersGainTheShift
  BY GainOfTable
<1> QED BY <1>1, RInitially, RKept, CallInitially, CallKept, PTL DEF Spec


LEMMA OrderOfTwo ==
  ASSUME RInv, CallInv PROVE AscendingUntilOvertaken
<1> SUFFICES ASSUME N = 2, BothPresent, call.op = "s", call.fresh, weight_initialized
             PROVE  Ascending(nodes_info_temp) <=>
                      IF IsWorker(1) THEN sum_ww + call.s <= 500 ELSE sum_ww + call.s >= 500
  BY DEF AscendingUntilOvertaken
<1>1. PICK s \in Ratios : call.s = s /\ nodes_info_temp \in TablesS(s)
  BY DEF CallInv, ComputedS
<1>2. PICK t \in TablesS(s) : nodes_info_temp = t
  BY <1>1
<1>3. s \in Int
  BY BoundsAssumption
<1>4. PICK up \in [1..N -> BOOLEAN] : t = TableS(s, up)
  BY DEF TablesS
<1>5. ~WorkersUnsummed /\ ~OthersUnsummed
  BY DEF TablesS
<1>6. OfTheFile /\ sum_ww \in Nat /\ sum_nww \in Nat /\ sum_ww > 0 /\ sum_nww > 0
  BY <1>5, TableNeedsSums DEF BothPresent
<1>7. N \in Nat /\ Weighted(nodes_info) /\ 1 \in 1..N /\ 2 \in 1..N /\ 1..N = {1, 2}
  BY NFacts DEF RInv
<1> DEFINE x == sum_ww + s
           y == 1000 - sum_ww - s
<1>8. x \in Int /\ y \in Int /\ y = 1000 - x
  BY <1>3, <1>6
<1>9. ASSUME NEW w \in 1..N, NEW o \in 1..N, WorkerRecords = {w}, OtherRecords = {o}
      PROVE  t[w].weight = x /\ t[o].weight = y
  <2>1. sum_ww = nodes_info[w].weight /\ sum_nww = nodes_info[o].weight
    <3>1. Sum(WorkerRecords, nodes_info) = nodes_info[w].weight
      BY <1>7, <1>9, SumOfOne
    <3>2. Sum(OtherRecords, nodes_info) = nodes_info[o].weight
      BY <1>7, <1>9, SumOfOne
    <3> QED BY <1>6, <3>1, <3>2 DEF OfTheFile
  <2>2. /\ t[w].weight = RoundTie(sum_ww * x, sum_ww, up[w])
        /\ t[o].weight = RoundTie(sum_nww * y, sum_nww, up[o])
    BY <1>3, <1>4, <1>5, <1>9, <2>1, TableSFacts
  <2> HIDE DEF x, y
  <2>3. up[w] \in BOOLEAN /\ up[o] \in BOOLEAN
    OBVIOUS
  <2>4. RoundTie(sum_ww * x, sum_ww, up[w]) = x
    BY <1>6, <1>8, <2>3, RoundTieExact
  <2>5. RoundTie(sum_nww * y, sum_nww, up[o]) = y
    BY <1>6, <1>8, <2>3, RoundTieExact
  <2> QED BY <2>2, <2>4, <2>5
<1>10. Ascending(t) <=> t[1].weight <= t[2].weight
  BY DEF Ascending
<1>11. \/ WorkerRecords = {1} /\ OtherRecords = {2} /\ IsWorker(1)
       \/ WorkerRecords = {2} /\ OtherRecords = {1} /\ ~IsWorker(1)
  BY <1>7 DEF BothPresent, OtherRecords, WorkerRecords
<1> HIDE DEF x, y
<1>12. Ascending(t) <=> IF IsWorker(1) THEN x <= 500 ELSE x >= 500
  BY <1>7, <1>8, <1>9, <1>10, <1>11
<1> QED BY <1>1, <1>2, <1>12 DEF x

\* With two records the new table is in the order of the file exactly as long as
\* the first record is not given more than half, for every file and shift.
THEOREM OrderIsTheFiles == Spec => []AscendingUntilOvertaken
<1>1. RInv /\ CallInv => AscendingUntilOvertaken
  BY OrderOfTwo
<1> QED BY <1>1, RInitially, RKept, CallInitially, CallKept, PTL DEF Spec

(***************************************************************************)
(* Refused tables.                                                         *)
(***************************************************************************)
\* The roundings of up to nine weights never make a table miss 100.
LEMMA RefusedSOnly ==
  ASSUME RInv, RefusedS, N <= 9, call.op = "s", pc = "exited"
  PROVE  ~Supported \/ WorkersUnsummed \/ ~BothPresent \/ OthersUnsummed
<1> SUFFICES ASSUME Supported, ~WorkersUnsummed, ~OthersUnsummed, BothPresent PROVE FALSE
  OBVIOUS
<1>1. PICK s \in Ratios : Refused(TablesS(s))
  BY DEF RefusedS
<1>2. s \in Int /\ N \in Nat /\ sum_ww \in Nat
  BY BoundsAssumption, NFacts DEF RInv, TypeOK
<1>3. TablesS(s) # {}
  <2>1. [k \in 1..N |-> TRUE] \in [1..N -> BOOLEAN]
    OBVIOUS
  <2>2. TablesS(s) = {TableS(s, up) : up \in [1..N -> BOOLEAN]}
    BY DEF TablesS
  <2>3. TableS(s, [k \in 1..N |-> TRUE]) \in TablesS(s)
    BY <2>1, <2>2
  <2> QED BY <2>3
<1>4. PICK t \in TablesS(s) : ~SumsTo100(Sum(1..N, t))
  BY <1>1, <1>3 DEF Refused
<1> DEFINE W == Sum(WorkerRecords, t)
           O == Sum(OtherRecords, t)
           C == Sum(WorkerRecords, Ones)
           D == Sum(OtherRecords, Ones)
<1>5. /\ W \in Int /\ O \in Int /\ W + O = Sum(1..N, t)
      /\ 2 * (sum_ww + s) - C <= 2 * W /\ 2 * W <= 2 * (sum_ww + s) + C
      /\ 2 * (1000 - sum_ww - s) - D <= 2 * O /\ 2 * O <= 2 * (1000 - sum_ww - s) + D
  BY <1>2, ShiftedSums DEF BothPresent
<1>6. C \in Nat /\ D \in Nat /\ C + D = N
  BY <1>2, CountsAddUp
<1> HIDE DEF W, O, C, D
<1>7. 2000 - N <= 2 * (W + O) /\ 2 * (W + O) <= 2000 + N
  BY <1>2, <1>5, <1>6
<1> QED BY <1>2, <1>4, <1>5, <1>7 DEF SumsTo100

\* d * x tenths in d percents, rounded: the nearest percent of x, or one of two.
LEMMA RoundPercent ==
  ASSUME NEW x \in Int, NEW d \in Nat, d > 0, NEW up \in BOOLEAN
  PROVE  LET r == RoundTie(d * x, 10 * d, up) IN r \in Int /\ x - 5 <= 10 * r /\ 10 * r <= x + 5
<1> DEFINE n == d * x
           e == 10 * d
           r == RoundTie(n, e, up)
<1>1. n \in Int /\ e \in Nat /\ e > 0
  OBVIOUS
<1> HIDE DEF n, e
<1>4. /\ r \in Int /\ 2 * n - e <= 2 * (e * r) /\ 2 * (e * r) <= 2 * n + e
  BY <1>1, RoundTieFacts
<1> HIDE DEF r
<1>6. /\ 2 * n - e = (2 * d) * (x - 5) /\ 2 * n + e = (2 * d) * (x + 5)
      /\ 2 * (e * r) = (2 * d) * (10 * r)
  BY <1>4 DEF n, e
<1>7. 2 * d \in Nat /\ 2 * d > 0 /\ x - 5 \in Int /\ x + 5 \in Int /\ 10 * r \in Int
  BY <1>4
<1>8. x - 5 <= 10 * r /\ 10 * r <= x + 5
  BY <1>4, <1>6, <1>7, Cancels
<1> QED BY <1>4, <1>8 DEF r, n, e


\* The sum of the workers is the weight of one record: the node of the workers has
\* one line in the file.
LEMMA OneWorkerRecord ==
  ASSUME RInv, OfTheFile, sum_ww > 0
  PROVE  \E j \in WorkerRecords :
           /\ sum_ww = nodes_info[j].weight
           /\ \A k \in WorkerRecords : k # j => nodes_info[k].weight = 0
<1>1. /\ N \in Nat /\ Weighted(nodes_info) /\ sum_ww \in Nat
      /\ \A k \in 1..N : nodes_info[k].weight \in Nat
  BY NFacts DEF RInv, FileLoaded, TypeOK
<1>2. WorkerRecords \subseteq 1..N
  BY DEF WorkerRecords
<1>3. PICK j \in WorkerRecords : nodes_info[j].weight # 0
  <2> SUFFICES ASSUME \A k \in WorkerRecords : nodes_info[k].weight = 0 PROVE FALSE
    OBVIOUS
  <2>1. \A k \in 1..N : k \in WorkerRecords =>
          1 * nodes_info[k].weight <= 0 * nodes_info[k].weight + 0 * nodes_info[k].weight
    BY <1>1
  <2>2. 0 \in Int /\ 1 \in Int
    OBVIOUS
  <2>3. 1 * Sum(WorkerRecords, nodes_info)
          <= 0 * Sum(WorkerRecords, nodes_info) + 0 * Sum(WorkerRecords, nodes_info)
    BY <1>1, <2>1, <2>2, SumCompares, Zenon
  <2> QED BY <1>1, <2>3 DEF OfTheFile
<1>4. \A k \in WorkerRecords : k # j => nodes_info[k].weight = 0
  <2> SUFFICES ASSUME NEW k \in WorkerRecords, k # j PROVE nodes_info[k].weight = 0
    OBVIOUS
  <2>1. nodes_info[j].id = nodes_info[k].id
    BY DEF WorkerRecords, IsWorker
  <2> QED BY <1>2, <1>3, <2>1 DEF RInv, FileLoaded
<1>5. Sum(WorkerRecords, nodes_info) = nodes_info[j].weight
  BY <1>1, <1>2, <1>4, SumOfOne
<1> QED BY <1>4, <1>5 DEF OfTheFile

\* Two shares of 100%, each rounded to a percent, make 100% but for halves.
LEMMA SharesMake100 ==
  ASSUME NEW x \in Int, NEW r \in Int, NEW q \in Int,
         x - 5 <= 10 * r, 10 * r <= x + 5,
         1000 - x - 5 <= 10 * q, 10 * q <= 1000 - x + 5,
         x % 10 # 5
  PROVE  10 * r + 10 * q = 1000
<1>1. r + q \in 99..101
  OBVIOUS
<1>2. CASE r + q = 99
  <2>1. x = 10 * r + 5
    BY <1>2
  <2> QED BY <2>1
<1>3. CASE r + q = 101
  <2>1. x = 10 * (r - 1) + 5
    BY <1>3
  <2> QED BY <2>1
<1> QED BY <1>1, <1>2, <1>3

LEMMA RefusedDwpOnly ==
  ASSUME RInv, RefusedDwp, call.op = "dwp", pc = "exited"
  PROVE  \/ ~Supported \/ WorkersUnsummed \/ ~BothPresent \/ Cardinality(OtherRecords) # 1
         \/ (sum_ww - call.s) % 10 = 5
<1> SUFFICES ASSUME Supported, ~WorkersUnsummed, BothPresent, Cardinality(OtherRecords) = 1,
                    (sum_ww - call.s) % 10 # 5
             PROVE  FALSE
  OBVIOUS
<1>1. PICK s \in Ratios : call.s = s /\ Refused(TablesDwp(s))
  BY DEF RefusedDwp
<1>2. s \in Int /\ N \in Nat /\ sum_ww \in Nat
  BY BoundsAssumption, NFacts DEF RInv, TypeOK
<1> DEFINE x == sum_ww - s
<1>20. PICK t \in TablesDwp(s) : ~SumsTo100(Sum(1..N, t))
  <2>1. TablesDwp(s) = {TableDwp(s, up) : up \in [1..N -> BOOLEAN]}
    BY DEF TablesDwp
  <2>2. TableDwp(s, [k \in 1..N |-> TRUE]) \in TablesDwp(s)
    BY <2>1
  <2> QED BY <1>1, <2>2 DEF Refused
<1>3. PICK up \in [1..N -> BOOLEAN] : t = TableDwp(s, up)
  BY DEF TablesDwp
<1>4. sum_ww > 0 /\ OfTheFile
  <2>1. sum_ww > 0
    BY <1>2 DEF WorkersUnsummed, BothPresent
  <2> QED BY <2>1 DEF RInv, SumsInv
<1>5. Weighted(t)
  BY <1>2, TableDwpType DEF Weighted
<1>6. PICK j \in WorkerRecords : /\ sum_ww = nodes_info[j].weight
                                 /\ \A k \in WorkerRecords : k # j => nodes_info[k].weight = 0
  BY <1>4, OneWorkerRecord
<1>7. PICK o : OtherRecords = {o}
  <2>1. 1 \in Int /\ N \in Int /\ OtherRecords \in SUBSET (1..N)
    BY <1>2 DEF OtherRecords
  <2>2. IsFiniteSet(1..N)
    BY <2>1, FS_Interval
  <2>6. IsFiniteSet(OtherRecords)
    BY <2>1, <2>2, FS_Subset
  <2>3. PICK o : o \in OtherRecords
    BY DEF BothPresent
  <2>4. Cardinality(OtherRecords \ {o}) = 0 /\ IsFiniteSet(OtherRecords \ {o})
    BY <2>6, <2>3, FS_RemoveElement
  <2>5. OtherRecords \ {o} = {}
    BY <2>4, FS_EmptySet
  <2> QED BY <2>3, <2>5
<1>8. j \in 1..N /\ o \in 1..N /\ WorkerRecords \subseteq 1..N
      /\ (\A k \in WorkerRecords : IsWorker(k)) /\ ~IsWorker(o)
  BY <1>7 DEF WorkerRecords, OtherRecords
<1>9. \A k \in WorkerRecords : t[k].weight = 10 * RoundTie(nodes_info[k].weight * x, 10 * sum_ww, up[k])
  BY <1>3, <1>8 DEF TableDwp
<1>10. t[o].weight = 10 * RoundTie(1000 - x, 10, up[o])
  <2>1. 1000 - sum_ww + s = 1000 - x
    BY <1>2
  <2>2. t[o].weight = 10 * RoundTie(1000 - sum_ww + s, 10, up[o])
    BY <1>3, <1>8 DEF TableDwp
  <2> HIDE DEF x
  <2> QED BY <2>1, <2>2
<1>11. x \in Int /\ 1000 - x \in Int /\ \A k \in 1..N : up[k] \in BOOLEAN
  BY <1>2
<1> DEFINE r == RoundTie(sum_ww * x, 10 * sum_ww, up[j])
           q == RoundTie(1000 - x, 10, up[o])
<1> HIDE DEF x
<1>12. r \in Int /\ x - 5 <= 10 * r /\ 10 * r <= x + 5
  BY <1>2, <1>4, <1>8, <1>11, RoundPercent
<1>13. q \in Int /\ 1000 - x - 5 <= 10 * q /\ 10 * q <= 1000 - x + 5
  <2> DEFINE y == 1000 - x
             u == up[o]
  <2>1. y \in Int /\ 1 \in Nat /\ 1 > 0 /\ 1 * y = y /\ 10 * 1 = 10 /\ u \in BOOLEAN
    BY <1>8, <1>11
  <2> HIDE DEF y, u
  <2>3. RoundTie(1 * y, 10 * 1, u) = RoundTie(y, 10, u)
    BY <2>1
  <2>4. LET p == RoundTie(1 * y, 10 * 1, u) IN p \in Int /\ y - 5 <= 10 * p /\ 10 * p <= y + 5
    BY <2>1, RoundPercent, Zenon
  <2>2. LET p == RoundTie(y, 10, u) IN p \in Int /\ y - 5 <= 10 * p /\ 10 * p <= y + 5
    BY <2>3, <2>4
  <2> QED BY <2>2 DEF y, u
<1>14. t[j].weight = 10 * r /\ t[o].weight = 10 * q
  BY <1>6, <1>9, <1>10
<1>15. ASSUME NEW k \in WorkerRecords, k # j PROVE t[k].weight = 0
  <2>1. nodes_info[k].weight = 0
    BY <1>6, <1>15
  <2> DEFINE e == 10 * sum_ww
  <2>2. /\ nodes_info[k].weight * x = 0 /\ e \in Nat /\ e > 0 /\ e * 0 = 0 /\ 0 \in Int
        /\ up[k] \in BOOLEAN
    BY <1>2, <1>4, <1>8, <1>11, <1>15, <2>1
  <2>6. t[k].weight = 10 * RoundTie(0, e, up[k])
    BY <1>9, <1>15, <2>2
  <2> HIDE DEF e
  <2>5. RoundTie(0, e, up[k]) = 0
    BY <2>2, RoundTieExact
  <2> QED BY <2>5, <2>6
<1> HIDE DEF r, q
<1>16. Sum(WorkerRecords, t) = 10 * r
  BY <1>2, <1>5, <1>8, <1>14, <1>15, SumOfOne
<1>17. Sum(OtherRecords, t) = 10 * q
  BY <1>2, <1>5, <1>7, <1>8, <1>14, SumOfOne
<1>18. Sum(1..N, t) = 10 * r + 10 * q
  BY <1>2, <1>5, <1>16, <1>17, SumSplits DEF OtherRecords
<1>19. 10 * r + 10 * q = 1000
  <2>1. x % 10 # 5
    BY <1>1 DEF x
  <2> QED BY <1>11, <1>12, <1>13, <2>1, SharesMake100
<1> QED BY <1>20, <1>18, <1>19 DEF SumsTo100

\* The process exits over a new table only for the reasons given, with up to nine
\* nodes: then the roundings, half a tenth each, stay below half a percent.
THEOREM RefusedForHalves ==
  ASSUME \A n \in MaxNodes : n <= 9
  PROVE  Spec => []RefusedOnlyForHalves
<1>1. RInv /\ CallInv => RefusedOnlyForHalves
  <2> SUFFICES ASSUME RInv, CallInv, call.op \in {"s", "dwp"}, pc = "exited"
               PROVE  RefusedOnlyForHalves
    BY DEF RefusedOnlyForHalves
  <2>1. N <= 9 /\ RefusedS /\ RefusedDwp
    BY DEF RInv, FileLoaded, CallInv
  <2>2. CASE call.op = "s"
    BY <2>1, <2>2, RefusedSOnly DEF RefusedOnlyForHalves
  <2>3. CASE call.op = "dwp"
    BY <2>1, <2>3, RefusedDwpOnly DEF RefusedOnlyForHalves
  <2> QED BY <2>2, <2>3
<1> QED BY <1>1, RInitially, RKept, CallInitially, CallKept, PTL DEF Spec


(***************************************************************************)
(* Pages, one by one.                                                      *)
(***************************************************************************)
LEMMA MinOfTwo ==
  ASSUME NEW a \in Int, NEW b \in Int
  PROVE  Min({a, b}) = IF a <= b THEN a ELSE b
<1> DEFINE m == IF a <= b THEN a ELSE b
<1>1. m \in {a, b} /\ \A y \in {a, b} : m <= y
  OBVIOUS
<1>2. \A x \in {a, b} : (\A y \in {a, b} : x <= y) => x = m
  OBVIOUS
<1> QED BY <1>1, <1>2 DEF Min


LEMMA DivUnique ==
  ASSUME NEW b \in Nat, b > 0, NEW q \in Nat, NEW r \in 0..(b - 1), NEW x \in Nat, x = b * q + r
  PROVE  x \div b = q /\ x % b = r
<1> DEFINE d == x \div b
<1>1. d \in Int /\ b * d <= x /\ x < b * d + b
  BY DivFacts
<1>2. x % b = x - b * d
  OBVIOUS
<1> HIDE DEF d
<1>3. b * d \in Int /\ b * q \in Int
  BY <1>1
<1>4. d <= q
  <2> SUFFICES ASSUME q + 1 <= d PROVE FALSE
    BY <1>1
  <2>1. b * (q + 1) <= b * d /\ b * (q + 1) = b * q + b
    BY <1>1
  <2> QED BY <1>1, <1>3, <2>1
<1>5. q <= d
  <2> SUFFICES ASSUME d + 1 <= q PROVE FALSE
    BY <1>1
  <2>1. b * (d + 1) <= b * q /\ b * (d + 1) = b * d + b
    BY <1>1
  <2> QED BY <1>1, <1>3, <2>1
<1>6. d = q
  BY <1>1, <1>4, <1>5
<1> QED BY <1>2, <1>3, <1>6 DEF d

\* The first k pages dealt: some rounds to everyone, a chunk each to the nodes before
\* cur and the first pages of a chunk to cur.
DealtTo(k, m) == {p \in 0..(k - 1) : (p \div ChunkPages) % NumNodes = m}
Hand(rounds, cur, off, m) ==
  rounds * ChunkPages + IF m < cur THEN ChunkPages ELSE IF m = cur THEN off ELSE 0
Dealt(k, rounds, cur, off) ==
  /\ k = ChunkPages * (NumNodes * rounds + cur) + off
  /\ \A m \in 0..(NumNodes - 1) :
       IsFiniteSet(DealtTo(k, m)) /\ Cardinality(DealtTo(k, m)) = Hand(rounds, cur, off, m)

LEMMA NextDealt ==
  ASSUME NEW k \in Nat, NEW rounds \in Nat, NEW cur \in 0..(NumNodes - 1),
         NEW off \in 0..(ChunkPages - 1), Dealt(k, rounds, cur, off)
  PROVE  \E r \in Nat, c \in 0..(NumNodes - 1), o \in 0..(ChunkPages - 1) : Dealt(k + 1, r, c, o)
<1>1. ChunkPages \in Nat /\ ChunkPages > 0 /\ NumNodes \in Nat /\ NumNodes > 0
  BY BoundsAssumption
<1> DEFINE chunk == NumNodes * rounds + cur
<1>2. chunk \in Nat /\ chunk % NumNodes = cur
  BY <1>1, DivUnique
<1>3. k = ChunkPages * chunk + off
  BY DEF Dealt
<1> HIDE DEF chunk
<1>4. k \div ChunkPages = chunk
  BY <1>1, <1>2, <1>3, DivUnique
<1>5. ASSUME NEW m \in 0..(NumNodes - 1)
      PROVE  /\ IsFiniteSet(DealtTo(k + 1, m))
             /\ Cardinality(DealtTo(k + 1, m)) = Hand(rounds, cur, off, m) + IF m = cur THEN 1 ELSE 0
  <2>1. DealtTo(k + 1, m) = IF m = cur THEN DealtTo(k, m) \cup {k} ELSE DealtTo(k, m)
    BY <1>2, <1>4 DEF DealtTo
  <2>2. k \notin DealtTo(k, m)
    BY DEF DealtTo
  <2>3. IsFiniteSet(DealtTo(k, m)) /\ Cardinality(DealtTo(k, m)) = Hand(rounds, cur, off, m)
    BY DEF Dealt
  <2>4. Hand(rounds, cur, off, m) \in Int
    BY <1>1 DEF Hand
  <2>5. /\ IsFiniteSet(DealtTo(k, m) \cup {k})
        /\ Cardinality(DealtTo(k, m) \cup {k}) = Cardinality(DealtTo(k, m)) + 1
    BY <2>2, <2>3, FS_AddElement
  <2> QED BY <2>1, <2>3, <2>4, <2>5
<1>6. CASE off + 1 < ChunkPages
  <2>1. \A m \in 0..(NumNodes - 1) :
          Hand(rounds, cur, off + 1, m) = Hand(rounds, cur, off, m) + IF m = cur THEN 1 ELSE 0
    BY <1>1 DEF Hand
  <2>2. k + 1 = ChunkPages * (NumNodes * rounds + cur) + (off + 1)
    <3>1. ChunkPages * chunk \in Int
      BY <1>1, <1>2
    <3>2. k + 1 = ChunkPages * chunk + (off + 1)
      BY <1>3, <3>1
    <3> QED BY <3>2 DEF chunk
  <2>3. Dealt(k + 1, rounds, cur, off + 1) /\ off + 1 \in 0..(ChunkPages - 1)
    BY <1>1, <1>5, <1>6, <2>1, <2>2 DEF Dealt
  <2> QED BY <2>3
<1>7. CASE off + 1 = ChunkPages /\ cur + 1 < NumNodes
  <2>1. \A m \in 0..(NumNodes - 1) :
          Hand(rounds, cur + 1, 0, m) = Hand(rounds, cur, off, m) + IF m = cur THEN 1 ELSE 0
    BY <1>1, <1>7 DEF Hand
  <2>2. k + 1 = ChunkPages * (NumNodes * rounds + (cur + 1)) + 0
    <3>1. ChunkPages * chunk \in Int /\ ChunkPages * (chunk + 1) = ChunkPages * chunk + ChunkPages
      BY <1>1, <1>2
    <3>2. k + 1 = ChunkPages * (chunk + 1)
      BY <1>1, <1>3, <1>7, <3>1
    <3>3. chunk + 1 = NumNodes * rounds + (cur + 1) /\ ChunkPages * (chunk + 1) \in Int
      BY <1>1, <1>2 DEF chunk
    <3> QED BY <3>2, <3>3
  <2>3. Dealt(k + 1, rounds, cur + 1, 0) /\ cur + 1 \in 0..(NumNodes - 1) /\ 0 \in 0..(ChunkPages - 1)
    BY <1>1, <1>5, <1>7, <2>1, <2>2 DEF Dealt
  <2> QED BY <2>3
<1>8. CASE off + 1 = ChunkPages /\ cur + 1 = NumNodes
  <2>1. \A m \in 0..(NumNodes - 1) :
          Hand(rounds + 1, 0, 0, m) = Hand(rounds, cur, off, m) + IF m = cur THEN 1 ELSE 0
    <3>1. /\ rounds * ChunkPages \in Int
          /\ (rounds + 1) * ChunkPages = rounds * ChunkPages + ChunkPages
      BY <1>1
    <3> QED BY <1>1, <1>8, <3>1 DEF Hand
  <2>2. k + 1 = ChunkPages * (NumNodes * (rounds + 1) + 0) + 0
    <3>1. ChunkPages * chunk \in Int /\ ChunkPages * (chunk + 1) = ChunkPages * chunk + ChunkPages
      BY <1>1, <1>2
    <3>2. k + 1 = ChunkPages * (chunk + 1)
      BY <1>1, <1>3, <1>8, <3>1
    <3>3. chunk + 1 = NumNodes * (rounds + 1) + 0 /\ ChunkPages * (chunk + 1) \in Int
      BY <1>1, <1>2, <1>8 DEF chunk
    <3> QED BY <3>2, <3>3
  <2>3. Dealt(k + 1, rounds + 1, 0, 0) /\ 0 \in 0..(NumNodes - 1) /\ 0 \in 0..(ChunkPages - 1)
    BY <1>1, <1>5, <2>1, <2>2 DEF Dealt
  <2> QED BY <2>3
<1> QED BY <1>1, <1>6, <1>7, <1>8

LEMMA AllDealt ==
  ASSUME NEW k \in Nat
  PROVE  \E r \in Nat, c \in 0..(NumNodes - 1), o \in 0..(ChunkPages - 1) : Dealt(k, r, c, o)
<1> DEFINE T == {n \in Nat : \E r \in Nat, c \in 0..(NumNodes - 1), o \in 0..(ChunkPages - 1) :
                               Dealt(n, r, c, o)}
<1>1. ChunkPages \in Nat /\ ChunkPages > 0 /\ NumNodes \in Nat /\ NumNodes > 0
  BY BoundsAssumption
<1>2. 0 \in T
  <2>1. \A m \in 0..(NumNodes - 1) : DealtTo(0, m) = {} /\ Hand(0, 0, 0, m) = 0
    BY <1>1 DEF DealtTo, Hand
  <2>2. Dealt(0, 0, 0, 0)
    BY <1>1, <2>1, FS_EmptySet DEF Dealt
  <2>3. 0 \in 0..(NumNodes - 1) /\ 0 \in 0..(ChunkPages - 1)
    BY <1>1
  <2> QED BY <2>2, <2>3
<1>3. \A n \in T : n + 1 \in T
  BY NextDealt
<1>4. T \in SUBSET Nat
  OBVIOUS
<1> HIDE DEF T
<1>5. T = Nat
  BY <1>2, <1>3, <1>4, SetInduction
<1> QED BY <1>5 DEF T

LEMMA UniformShare ==
  ASSUME MovedUniform PROVE ChunksAreEven
<1> SUFFICES ASSUME call.op = "uniform", NEW m \in 0..(NumNodes - 1), NEW n \in 0..(NumNodes - 1)
             PROVE  Count({m}) - Count({n}) <= ChunkPages
  BY DEF ChunksAreEven
<1>1. PICK count \in Counts : nodes = UniformNodes(count)
  BY DEF MovedUniform
<1>2. count \in Nat /\ ChunkPages \in Nat /\ NumNodes \in Nat
  BY BoundsAssumption
<1>3. PICK r \in Nat, c \in 0..(NumNodes - 1), o \in 0..(ChunkPages - 1) : Dealt(count, r, c, o)
  BY <1>2, AllDealt
<1>4. \A i : Count({i}) = Cardinality(DealtTo(count, i))
  <2> SUFFICES ASSUME NEW i PROVE {p \in DOMAIN nodes : nodes[p] \in {i}} = DealtTo(count, i)
    BY DEF Count
  <2> QED BY <1>1 DEF UniformNodes, PagesOf, DealtTo
<1>5. Count({m}) = Hand(r, c, o, m) /\ Count({n}) = Hand(r, c, o, n)
  BY <1>3, <1>4 DEF Dealt
<1>6. r * ChunkPages \in Int
  BY <1>2
<1> QED BY <1>2, <1>5, <1>6 DEF Hand

\* Chunks go to the nodes in turn: no node gets more than a chunk more than another,
\* for any length, chunk and number of nodes.
THEOREM ChunksGoRound == Spec => []ChunksAreEven
<1>1. RInv /\ CallInv => ChunksAreEven
  BY UniformShare DEF CallInv
<1> QED BY <1>1, RInitially, RKept, CallInitially, CallKept, PTL DEF Spec

(***************************************************************************)
(* The cuts of move_pages_initial.                                         *)
(***************************************************************************)
WholeFile == Ascending(nodes_info) /\ Sum(1..N, nodes_info) = 1000

\* a[k] is the part of the pages that the first k entries cut off.
PartsOf(a) ==
  /\ a \in [0..N -> Int] /\ a[0] = 0 /\ a[N] = 1000
  /\ \A k \in 0..N : 0 <= a[k] /\ a[k] <= 1000
  /\ \A k \in 1..N : Portion(k) \in Nat /\ a[k] = a[k - 1] + Portion(k)

LEMMA PortionsAddUp ==
  ASSUME FileLoaded, WholeFile PROVE \E a : PartsOf(a)
<1>1. PICK x : SumsOf(x, 1..N, nodes_info) /\ Sum(1..N, nodes_info) = x[N]
  BY NFacts, SumExists
<1> DEFINE w(k) == IF k = 0 THEN 0 ELSE nodes_info[k].weight
           a == [k \in 0..N |-> x[k] + (N - k) * w(k)]
<1>2. N \in Nat /\ N > 0 /\ \A k \in 0..N : w(k) \in Nat
  BY NFacts DEF FileLoaded
<1>3. ASSUME NEW k \in 1..N
      PROVE  w(k - 1) <= w(k) /\ Portion(k) = (N - k + 1) * (w(k) - w(k - 1))
  BY <1>2 DEF WholeFile, Ascending, Portion
<1>4. /\ x \in [0..N -> Int] /\ x[0] = 0 /\ x[N] = 1000 /\ w(0) = 0
      /\ \A k \in 1..N : x[k] = x[k - 1] + w(k)
  BY <1>1 DEF SumsOf, Term, WholeFile
<1> HIDE DEF w
<1>5. ASSUME NEW k \in 1..N
      PROVE  Portion(k) \in Nat /\ a[k] = a[k - 1] + Portion(k)
  <2>1. w(k) \in Nat /\ w(k - 1) \in Nat /\ k - 1 \in 0..N /\ k \in 0..N
    BY <1>2
  <2>2. PICK d \in Nat : w(k) = w(k - 1) + d
    <3>1. w(k) - w(k - 1) \in Nat /\ w(k) = w(k - 1) + (w(k) - w(k - 1))
      BY <1>3, <2>1
    <3> QED BY <3>1
  <2>3. Portion(k) = (N - k + 1) * d
    BY <1>3, <2>1, <2>2
  <2>4. a[k] = x[k] + (N - k) * w(k) /\ a[k - 1] = x[k - 1] + (N - (k - 1)) * w(k - 1)
    BY <2>1
  <2>5. x[k] = x[k - 1] + w(k) /\ x[k - 1] \in Int
    BY <1>4, <2>1
  <2>6. PICK m \in Nat : m = N - k
    BY <1>2
  <2>7. /\ m * (w(k - 1) + d) = m * w(k - 1) + m * d
        /\ (m + 1) * d = m * d + d
        /\ (m + 1) * w(k - 1) = m * w(k - 1) + w(k - 1)
        /\ m * d \in Nat /\ m * w(k - 1) \in Nat
    BY <2>1
  <2>8. Portion(k) = m * d + d /\ a[k] = x[k - 1] + w(k - 1) + d + m * w(k - 1) + m * d
    <3>1. N - k + 1 = m + 1
      BY <1>2, <2>6
    <3>2. a[k] = x[k] + m * (w(k - 1) + d)
      BY <2>2, <2>4, <2>6, Zenon
    <3> QED BY <2>1, <2>2, <2>3, <2>5, <2>7, <3>1, <3>2
  <2>9. a[k - 1] = x[k - 1] + m * w(k - 1) + w(k - 1)
    <3>1. N - (k - 1) = m + 1
      BY <1>2, <2>6
    <3>2. a[k - 1] = x[k - 1] + (m + 1) * w(k - 1)
      BY <2>4, <3>1, Zenon
    <3> QED BY <2>1, <2>5, <2>7, <3>2
  <2> HIDE DEF a
  <2> QED BY <2>1, <2>5, <2>7, <2>8, <2>9
<1>6. a[0] = 0 /\ a[N] = 1000
  <2>1. (N - 0) * 0 = 0 /\ (N - N) * w(N) = 0
    BY <1>2
  <2> QED BY <1>2, <1>4, <2>1
<1>7. a \in [0..N -> Int]
  <2>1. ASSUME NEW k \in 0..N PROVE (N - k) * w(k) \in Int /\ x[k] \in Int
    BY <1>2, <1>4
  <2> QED BY <2>1
<1> HIDE DEF a
<1>8. \A k \in 1..N : a[k - 1] <= a[k]
  <2> SUFFICES ASSUME NEW k \in 1..N PROVE a[k - 1] <= a[k]
    OBVIOUS
  <2>1. a[k - 1] \in Int /\ a[k] = a[k - 1] + Portion(k) /\ Portion(k) \in Nat
    BY <1>2, <1>5, <1>7
  <2> QED BY <2>1
<1>9. \A k \in 0..N : 0 <= a[k] /\ a[k] <= 1000
  <2>1. \A k \in 0..N : \A j \in 0..k : a[j] <= a[k]
    BY <1>2, <1>7, <1>8, NeverFalls, Zenon
  <2> QED BY <1>2, <1>6, <2>1
<1>10. PartsOf(a)
  BY <1>5, <1>6, <1>7, <1>9 DEF PartsOf
<1> QED BY <1>10

LEMMA Distributes ==
  ASSUME NEW a \in Int, NEW b \in Int, NEW c \in Int
  PROVE  (a + b) * c = a * c + b * c /\ a * c \in Int /\ b * c \in Int
  OBVIOUS

\* Truncated is the quotient rounded down, or one less where it is exact.
LEMMA TruncatedFacts ==
  ASSUME NEW n \in Nat, NEW low \in BOOLEAN
  PROVE  LET q == Truncated(n, 1000, low) IN q \in Nat /\ 1000 * q <= n /\ n <= 1000 * q + 1000
  BY DEF Truncated

\* The cuts never reach the end early, and are the parts to a page for each entry.
CutsRise(cut, count) ==
  /\ cut \in [0..N -> Nat] /\ cut[0] = 0
  /\ \A k \in 0..N : \A j \in 0..k : cut[j] <= cut[k]
  /\ cut[N] <= count /\ count <= cut[N] + N
PartFits(cut, count, k) ==
  \E q \in Nat :
    cut[k] = cut[k - 1] + q /\ 1000 * q <= Portion(k) * count /\ Portion(k) * count <= 1000 * q + 1000
CutsFit(cut, count) == CutsRise(cut, count) /\ \A k \in 1..N : PartFits(cut, count, k)

LEMMA CutFacts ==
  ASSUME FileLoaded, WholeFile, NEW count \in Nat, NEW low \in [1..N -> BOOLEAN]
  PROVE  CutsFit(Cut(count, low), count)
<1> DEFINE T(k) == Truncated(Portion(k) * count, 1000, low[k])
           t == [k \in 1..N |-> T(k)]
<1>1. N \in Nat /\ N > 0
  BY NFacts
<1>2. PICK a : PartsOf(a)
  BY PortionsAddUp
<1>3. ASSUME NEW k \in 1..N
      PROVE  /\ T(k) \in Nat /\ Portion(k) * count \in Nat
             /\ 1000 * T(k) <= Portion(k) * count /\ Portion(k) * count <= 1000 * T(k) + 1000
  <2>1. Portion(k) * count \in Nat /\ low[k] \in BOOLEAN
    BY <1>2 DEF PartsOf
  <2> QED BY <2>1, TruncatedFacts
<1> HIDE DEF T
<1>4. t \in [1..N -> Int]
  BY <1>3
<1>5. PICK s \in [0..N -> Int] : s = [k \in 0..N |-> IF k = 0 THEN 0 ELSE s[k - 1] + t[k]]
  <2> HIDE DEF t
  <2> QED BY <1>1, <1>4, PartialSums
<1>6. s[0] = 0 /\ \A k \in 1..N : s[k] = s[k - 1] + T(k)
  <2>1. 0 \in 0..N /\ \A k \in 1..N : k \in 0..N /\ k # 0
    BY <1>1
  <2> QED BY <1>5, <2>1
<1>7. \A k \in 0..N : s[k] \in Nat
  <2> DEFINE S == {k \in 0..N : s[k] \in Nat}
  <2>1. 0 \in S /\ S \in SUBSET (0..N)
    BY <1>1, <1>6
  <2>2. ASSUME NEW k \in S, k < N PROVE k + 1 \in S
    <3>1. k + 1 \in 1..N /\ k \in 0..N /\ (k + 1) - 1 = k
      BY <1>1, <2>2
    <3>2. s[k + 1] = s[k] + T(k + 1) /\ T(k + 1) \in Nat /\ s[k] \in Nat
      BY <1>3, <1>6, <2>2, <3>1
    <3> QED BY <3>1, <3>2
  <2> HIDE DEF S
  <2>3. S = 0..N
    BY <1>1, <2>1, <2>2, BoundedInduction
  <2> QED BY <2>3 DEF S
<1>8. \A k \in 0..N : 1000 * s[k] <= a[k] * count /\ a[k] * count <= 1000 * s[k] + 1000 * k
  <2> DEFINE S == {k \in 0..N : 1000 * s[k] <= a[k] * count /\ a[k] * count <= 1000 * s[k] + 1000 * k}
  <2>1. 0 \in S /\ S \in SUBSET (0..N)
    BY <1>1, <1>2, <1>6 DEF PartsOf
  <2>2. ASSUME NEW k \in S, k < N PROVE k + 1 \in S
    <3>1. k + 1 \in 1..N /\ k \in 0..N /\ (k + 1) - 1 = k
      BY <1>1, <2>2
    <3>2. a[k + 1] = a[k] + Portion(k + 1) /\ s[k + 1] = s[k] + T(k + 1)
      BY <1>2, <1>6, <3>1 DEF PartsOf
    <3>3. a[k] \in Int /\ Portion(k + 1) \in Nat /\ s[k] \in Nat /\ T(k + 1) \in Nat
      <4>1. a[k] \in Int /\ Portion(k + 1) \in Nat
        BY <1>2, <3>1 DEF PartsOf
      <4>2. s[k] \in Nat /\ T(k + 1) \in Nat
        BY <1>3, <1>7, <3>1
      <4> QED BY <4>1, <4>2
    <3>4. /\ (a[k] + Portion(k + 1)) * count = a[k] * count + Portion(k + 1) * count
          /\ a[k] * count \in Int /\ Portion(k + 1) * count \in Int
      <4>1. a[k] \in Int /\ Portion(k + 1) \in Int /\ count \in Int
        BY <3>3
      <4> QED BY <4>1, Distributes
    <3>5. /\ 1000 * T(k + 1) <= Portion(k + 1) * count
          /\ Portion(k + 1) * count <= 1000 * T(k + 1) + 1000
      BY <1>3, <3>1
    <3>6. 1000 * s[k] <= a[k] * count /\ a[k] * count <= 1000 * s[k] + 1000 * k
      BY <2>2
    <3>7. /\ 1000 * s[k + 1] <= a[k + 1] * count
          /\ a[k + 1] * count <= 1000 * s[k + 1] + 1000 * (k + 1)
      <4>1. a[k + 1] * count = a[k] * count + Portion(k + 1) * count
        <5> HIDE DEF S
        <5>1. a[k + 1] = a[k] + Portion(k + 1)
          BY <3>2
        <5> QED BY <3>4, <5>1
      <4> DEFINE x == a[k] * count
                 y == Portion(k + 1) * count
                 z == a[k + 1] * count
                 tt == T(k + 1)
      <4>2. /\ x \in Int /\ y \in Int /\ z = x + y /\ tt \in Nat /\ s[k] \in Nat /\ k \in Nat
            /\ s[k + 1] = s[k] + tt
            /\ 1000 * s[k] <= x /\ x <= 1000 * s[k] + 1000 * k
            /\ 1000 * tt <= y /\ y <= 1000 * tt + 1000
        BY <3>1, <3>2, <3>3, <3>4, <3>5, <3>6, <4>1
      <4> HIDE DEF x, y, z, tt
      <4>3. 1000 * s[k + 1] <= z /\ z <= 1000 * s[k + 1] + 1000 * (k + 1)
        BY <4>2
      <4> QED BY <4>3 DEF z
    <3> QED BY <3>1, <3>7
  <2> HIDE DEF S
  <2>3. S = 0..N
    BY <1>1, <2>1, <2>2, BoundedInduction
  <2> QED BY <2>3 DEF S
<1>9. \A k \in 0..N : s[k] <= count
  <2> SUFFICES ASSUME NEW k \in 0..N PROVE s[k] <= count
    OBVIOUS
  <2>1. a[k] \in Nat /\ a[k] <= 1000
    BY <1>2 DEF PartsOf
  <2>2. a[k] * count <= 1000 * count
    BY <2>1
  <2>3. 1000 * s[k] <= a[k] * count /\ s[k] \in Nat /\ a[k] * count \in Int
    BY <1>7, <1>8, <2>1
  <2> QED BY <2>2, <2>3
<1>10. count <= s[N] + N
  <2>1. a[N] = 1000 /\ N \in 0..N
    BY <1>1, <1>2 DEF PartsOf
  <2>2. 1000 * count <= 1000 * s[N] + 1000 * N /\ s[N] \in Nat
    BY <1>7, <1>8, <2>1
  <2> QED BY <1>1, <2>2
<1> HIDE DEF t
<1>11. Cut(count, low) = s
  <2> DEFINE cut[k \in 0..N] ==
               IF k = 0 THEN 0
               ELSE IF cut[k - 1] = count THEN count ELSE Min({count, cut[k - 1] + T(k)})
  <2>1. Cut(count, low) = cut
    BY DEF Cut, T
  <2>2. ASSUME NEW k \in 1..N
        PROVE  s[k] = IF s[k - 1] = count THEN count ELSE Min({count, s[k - 1] + T(k)})
    <3>1. s[k] = s[k - 1] + T(k) /\ T(k) \in Nat
      BY <1>3, <1>6
    <3>2. s[k - 1] \in Nat /\ s[k] \in Nat /\ s[k] <= count
      BY <1>1, <1>7, <1>9
    <3>3. Min({count, s[k - 1] + T(k)}) = s[k]
      <4>1. Min({count, s[k]}) = IF count <= s[k] THEN count ELSE s[k]
        BY <3>2, MinOfTwo
      <4> QED BY <3>1, <3>2, <4>1
    <3> QED BY <3>1, <3>2, <3>3
  <2>3. s = [k \in 0..N |->
               IF k = 0 THEN 0
               ELSE IF s[k - 1] = count THEN count ELSE Min({count, s[k - 1] + T(k)})]
    <3>1. \A k \in 0..N : s[k] = IF k = 0 THEN 0
                                 ELSE IF s[k - 1] = count THEN count
                                 ELSE Min({count, s[k - 1] + T(k)})
      <4>1. \A k \in 0..N : k = 0 \/ k \in 1..N
        BY <1>1
      <4>2. \A k \in 1..N : k # 0
        OBVIOUS
      <4> QED BY <1>6, <2>2, <4>1, <4>2, Zenon
    <3> QED BY <3>1
  <2>4. cut = [k \in 0..N |->
                 IF k = 0 THEN 0
                 ELSE IF cut[k - 1] = count THEN count ELSE Min({count, cut[k - 1] + T(k)})]
    BY <2>3
  <2> HIDE DEF cut
  <2> DEFINE S == {k \in 0..N : cut[k] = s[k]}
  <2>5. 0 \in S /\ S \in SUBSET (0..N)
    BY <1>1, <1>6, <2>4
  <2>6. ASSUME NEW k \in S, k < N PROVE k + 1 \in S
    <3>1. k + 1 \in 1..N /\ k + 1 \in 0..N /\ (k + 1) - 1 = k /\ k + 1 # 0
      BY <1>1, <2>6
    <3>2. cut[k + 1] = IF cut[k] = count THEN count ELSE Min({count, cut[k] + T(k + 1)})
      BY <2>4, <3>1
    <3>3. s[k + 1] = IF s[k] = count THEN count ELSE Min({count, s[k] + T(k + 1)})
      BY <2>2, <3>1
    <3> QED BY <2>6, <3>1, <3>2, <3>3
  <2> HIDE DEF S
  <2>7. S = 0..N
    BY <1>1, <2>5, <2>6, BoundedInduction
  <2>8. \A k \in 0..N : cut[k] = s[k]
    BY <2>7 DEF S
  <2>9. cut = [k \in 0..N |-> cut[k]] /\ s = [k \in 0..N |-> s[k]]
    BY <2>4, Zenon
  <2> QED BY <2>1, <2>8, <2>9
<1>12. CutsFit(s, count)
  <2>1. \A k \in 1..N : s[k - 1] <= s[k]
    <3> SUFFICES ASSUME NEW k \in 1..N PROVE s[k - 1] <= s[k]
      OBVIOUS
    <3>1. s[k] = s[k - 1] + T(k) /\ T(k) \in Nat
      BY <1>3, <1>6
    <3>2. s[k - 1] \in Nat
      BY <1>1, <1>7
    <3> QED BY <3>1, <3>2
  <2>2. \A k \in 0..N : \A j \in 0..k : s[j] <= s[k]
    BY <1>1, <2>1, NeverFalls, Zenon
  <2>3. s \in [0..N -> Nat] /\ N \in 0..N
    BY <1>1, <1>7
  <2>4. ASSUME NEW k \in 1..N PROVE PartFits(s, count, k)
    <3>1. s[k] = s[k - 1] + T(k) /\ T(k) \in Nat
      BY <1>3, <1>6
    <3>2. 1000 * T(k) <= Portion(k) * count /\ Portion(k) * count <= 1000 * T(k) + 1000
      BY <1>3
    <3> QED BY <3>1, <3>2 DEF PartFits
  <2>5. CutsRise(s, count)
    BY <1>6, <1>9, <1>10, <2>2, <2>3 DEF CutsRise
  <2> QED BY <2>4, <2>5 DEF CutsFit
<1> QED BY <1>11, <1>12

\* Of the first n pages, the ones that leave r divided by m.
Residues(n, m, r) == {p \in 0..(n - 1) : p % m = r}
Turns(n, m, r, q, o) ==
  /\ n = m * q + o
  /\ IsFiniteSet(Residues(n, m, r))
  /\ Cardinality(Residues(n, m, r)) = q + IF r < o THEN 1 ELSE 0

\* One more page.
LEMMA NextTurn ==
  ASSUME NEW m \in Nat, m > 0, NEW r \in 0..(m - 1), NEW n \in Nat,
         NEW q \in Nat, NEW o \in 0..(m - 1), Turns(n, m, r, q, o)
  PROVE  \E p \in Nat, x \in 0..(m - 1) : Turns(n + 1, m, r, p, x)
<1>1. n = m * q + o /\ m * q \in Nat
  BY DEF Turns
<1>2. n % m = o
  BY <1>1, DivUnique
<1> DEFINE R == Residues(n, m, r)
<1>3. Residues(n + 1, m, r) = IF o = r THEN R \cup {n} ELSE R
  BY <1>2 DEF Residues
<1>4. n \notin R
  BY DEF Residues
<1>5. IsFiniteSet(R) /\ Cardinality(R) = q + IF r < o THEN 1 ELSE 0
  BY DEF Turns
<1> HIDE DEF R
<1>6. IsFiniteSet(R \cup {n}) /\ Cardinality(R \cup {n}) = Cardinality(R) + 1
  BY <1>4, <1>5, FS_AddElement
<1>7. /\ IsFiniteSet(Residues(n + 1, m, r))
      /\ Cardinality(Residues(n + 1, m, r)) = q + IF r < o + 1 THEN 1 ELSE 0
  BY <1>3, <1>5, <1>6
<1>8. CASE o + 1 < m
  <2>1. n + 1 = m * q + (o + 1) /\ o + 1 \in 0..(m - 1)
    BY <1>1, <1>8
  <2> QED BY <1>7, <2>1 DEF Turns
<1>9. CASE o + 1 = m
  <2>1. n + 1 = m * (q + 1) + 0
    <3>1. m * (q + 1) = m * q + m
      OBVIOUS
    <3> QED BY <1>1, <1>9, <3>1
  <2>2. Cardinality(Residues(n + 1, m, r)) = (q + 1) + IF r < 0 THEN 1 ELSE 0
    BY <1>7, <1>9
  <2>3. Turns(n + 1, m, r, q + 1, 0) /\ q + 1 \in Nat /\ 0 \in 0..(m - 1)
    BY <1>7, <2>1, <2>2 DEF Turns
  <2> QED BY <2>3
<1> QED BY <1>8, <1>9

\* They are one in m, to less than one.
LEMMA OneInTurn ==
  ASSUME NEW m \in Nat, m > 0, NEW r \in 0..(m - 1), NEW n \in Nat
  PROVE  /\ IsFiniteSet(Residues(n, m, r)) /\ Cardinality(Residues(n, m, r)) \in Nat
         /\ n - r <= m * Cardinality(Residues(n, m, r))
         /\ m * Cardinality(Residues(n, m, r)) <= n + m - 1 - r
<1> DEFINE T == {x \in Nat : \E q \in Nat, o \in 0..(m - 1) : Turns(x, m, r, q, o)}
<1>1. 0 \in T
  <2>1. Residues(0, m, r) = {} /\ 0 \in 0..(m - 1) /\ 0 = m * 0 + 0
    BY DEF Residues
  <2>2. Turns(0, m, r, 0, 0)
    BY <2>1, FS_EmptySet DEF Turns
  <2> QED BY <2>1, <2>2
<1>2. \A x \in T : x + 1 \in T
  BY NextTurn
<1>3. T \in SUBSET Nat
  OBVIOUS
<1> HIDE DEF T
<1>4. T = Nat
  BY <1>1, <1>2, <1>3, SetInduction
<1>5. PICK q \in Nat, o \in 0..(m - 1) : Turns(n, m, r, q, o)
  BY <1>4 DEF T
<1> DEFINE c == Cardinality(Residues(n, m, r))
           mq == m * q
<1>6. n = mq + o /\ mq \in Nat /\ c = q + (IF r < o THEN 1 ELSE 0) /\ IsFiniteSet(Residues(n, m, r))
  BY <1>5 DEF Turns
<1>7. m * c = mq + IF r < o THEN m ELSE 0
  <2>1. m * (q + 1) = m * q + m /\ m * (q + 0) = m * q + 0
    OBVIOUS
  <2> QED BY <1>6, <2>1
<1> HIDE DEF c, mq
<1>8. c \in Nat /\ n - r <= m * c /\ m * c <= n + m - 1 - r
  BY <1>6, <1>7
<1> QED BY <1>6, <1>8 DEF c

\* The pages from cut[j - 1] to cut[j] go round from the j-th node to the last.
LEMMA EntryPages ==
  ASSUME N \in Nat, NEW count, NEW cut, CutsFit(cut, count), NEW j \in 1..N, NEW p \in Nat,
         cut[j - 1] <= p, p < cut[j]
  PROVE  NodeBy(cut, p) = nodes_info[j + (p % (N - j + 1))].id
<1> DEFINE entries == {k \in 1..N : cut[k - 1] <= p /\ p < cut[k]}
<1>1. \A k \in 0..N : \A i \in 0..k : cut[i] <= cut[k] /\ cut[i] \in Nat /\ cut[k] \in Nat
  BY DEF CutsFit, CutsRise
<1>2. ASSUME NEW k \in entries PROVE k = j
  <2>1. CASE k < j
    <3>1. k \in 0..(j - 1) /\ j - 1 \in 0..N
      BY <2>1
    <3>2. cut[k] <= cut[j - 1] /\ cut[k] \in Nat /\ cut[j - 1] \in Nat
      BY <1>1, <3>1
    <3> QED BY <3>2
  <2>2. CASE k > j
    <3>1. j \in 0..(k - 1) /\ k - 1 \in 0..N
      BY <2>2
    <3>2. cut[j] <= cut[k - 1] /\ cut[j] \in Nat /\ cut[k - 1] \in Nat
      BY <1>1, <3>1
    <3> QED BY <3>2
  <2> QED BY <2>1, <2>2
<1>3. entries = {j}
  BY <1>2
<1> HIDE DEF entries
<1>4. Max({j}) = j
  BY DEF Max
<1>5. NodeBy(cut, p) =
        IF entries = {} THEN 0 ELSE nodes_info[Max(entries) + (p % (N - Max(entries) + 1))].id
  BY DEF NodeBy, entries
<1> QED BY <1>3, <1>4, <1>5

\* A page past the last cut is left to node 0.
LEMMA PagesLeftOver ==
  ASSUME N \in Nat, NEW count, NEW cut, CutsFit(cut, count), NEW p \in Nat, cut[N] <= p
  PROVE  NodeBy(cut, p) = 0
<1> DEFINE entries == {k \in 1..N : cut[k - 1] <= p /\ p < cut[k]}
<1>1. ASSUME NEW k \in entries PROVE FALSE
  <2>1. k \in 0..N /\ N \in 0..N
    OBVIOUS
  <2>2. cut[k] <= cut[N] /\ cut[k] \in Nat /\ cut[N] \in Nat
    BY <2>1 DEF CutsFit, CutsRise
  <2> QED BY <2>2
<1>2. entries = {}
  BY <1>1
<1> HIDE DEF entries
<1>3. NodeBy(cut, p) =
        IF entries = {} THEN 0 ELSE nodes_info[Max(entries) + (p % (N - Max(entries) + 1))].id
  BY DEF NodeBy, entries
<1> QED BY <1>2, <1>3

\* The pages that the j-th entry gives node i, and all those before page n.
EntryGives(cut, j, i) == {p \in cut[j - 1]..(cut[j] - 1) : NodeBy(cut, p) = i}
TakenBy(cut, n, i) == {p \in 0..(n - 1) : NodeBy(cut, p) = i}

OwnNodes == \A j, k \in 1..N : j # k => nodes_info[j].id # nodes_info[k].id
Gain(j) == nodes_info[j].weight - IF j = 1 THEN 0 ELSE nodes_info[j - 1].weight

\* Each entry that is not past it gives the e-th node, to a page, what the weight of
\* its own record is more than that of the record before.
LEMMA EntryShare ==
  ASSUME FileLoaded, OwnNodes, NEW count \in Nat, NEW cut, CutsFit(cut, count),
         NEW e \in 1..N, NEW j \in 1..e
  PROVE  LET given == EntryGives(cut, j, nodes_info[e].id)
         IN  /\ IsFiniteSet(given) /\ Cardinality(given) \in Nat
             /\ Gain(j) * count - 1000 <= 1000 * Cardinality(given)
             /\ 1000 * Cardinality(given) <= Gain(j) * count + 1000
<1> DEFINE i == nodes_info[e].id
           given == EntryGives(cut, j, i)
           a == cut[j - 1]
           b == cut[j]
           m == N - j + 1
           r == e - j
<1>1. N \in Nat /\ j \in 1..N /\ m \in Nat /\ m > 0 /\ r \in 0..(m - 1) /\ j - 1 \in 0..N /\ j \in 0..N
  BY NFacts
<1>2. a \in Nat /\ b \in Nat
  BY <1>1 DEF CutsFit, CutsRise
<1>3. PICK q \in Nat : b = a + q /\ 1000 * q <= Portion(j) * count /\ Portion(j) * count <= 1000 * q + 1000
  BY <1>1 DEF CutsFit, PartFits
<1>4. ASSUME NEW p \in a..(b - 1) PROVE NodeBy(cut, p) = i <=> p % m = r
  <2>1. p \in Nat /\ a <= p /\ p < b
    BY <1>2
  <2>2. NodeBy(cut, p) = nodes_info[j + (p % m)].id
    BY <1>1, <2>1, EntryPages
  <2>3. p % m \in 0..(m - 1)
    BY <1>1, <2>1
  <2>4. j + (p % m) \in 1..N
    BY <1>1, <2>3
  <2>5. NodeBy(cut, p) = i <=> j + (p % m) = e
    BY <2>2, <2>4 DEF OwnNodes
  <2> QED BY <1>1, <2>3, <2>5
<1> HIDE DEF a, b, m, r
<1> DEFINE A == Residues(a, m, r)
           B == Residues(b, m, r)
<1>5. given = {p \in a..(b - 1) : p % m = r}
  BY <1>4 DEF EntryGives, a, b
<1>6. given = B \ A /\ B \cap A = A
  BY <1>2, <1>3, <1>5 DEF Residues
<1>7. /\ IsFiniteSet(A) /\ Cardinality(A) \in Nat
      /\ a - r <= m * Cardinality(A) /\ m * Cardinality(A) <= a + m - 1 - r
  BY <1>1, <1>2, OneInTurn
<1>8. /\ IsFiniteSet(B) /\ Cardinality(B) \in Nat
      /\ b - r <= m * Cardinality(B) /\ m * Cardinality(B) <= b + m - 1 - r
  BY <1>1, <1>2, OneInTurn
<1> HIDE DEF A, B, given
<1>9. IsFiniteSet(given) /\ Cardinality(given) = Cardinality(B) - Cardinality(A)
  <2>1. IsFiniteSet(B)
    BY <1>8
  <2>2. IsFiniteSet(B \ A) /\ Cardinality(B \ A) = Cardinality(B) - Cardinality(B \cap A)
    BY <2>1, FS_Difference, Zenon
  <2> QED BY <1>6, <2>2
<1> DEFINE c == Cardinality(given)
           y == Gain(j) * count
<1>10. c \in Nat /\ c = Cardinality(B) - Cardinality(A)
  BY <1>9, FS_CardinalityType
<1>11. y \in Int /\ Portion(j) * count = m * y
  <2>1. Gain(j) \in Int
    BY <1>1 DEF FileLoaded, Gain
  <2>2. Portion(j) = m * Gain(j)
    BY DEF Portion, Gain, m
  <2>3. (m * Gain(j)) * count = m * (Gain(j) * count)
    BY <1>1, <2>1
  <2> QED BY <2>1, <2>2, <2>3
<1> HIDE DEF c, y
<1>12. q - m + 1 <= m * c /\ m * c <= q + m - 1
  <2>1. m * c = m * Cardinality(B) - m * Cardinality(A)
    BY <1>1, <1>7, <1>8, <1>10
  <2>2. m * Cardinality(B) \in Int /\ m * Cardinality(A) \in Int
    BY <1>1, <1>7, <1>8
  <2> QED BY <1>1, <1>2, <1>3, <1>7, <1>8, <2>1, <2>2
<1>13. m * (1000 * c) <= m * (y + 1000) /\ m * (y - 1000) <= m * (1000 * c)
  <2>1. /\ m * (1000 * c) = 1000 * (m * c) /\ m * (y + 1000) = m * y + 1000 * m
        /\ m * (y - 1000) = m * y - 1000 * m /\ m * c \in Int /\ m * y \in Int
    BY <1>1, <1>10, <1>11
  <2>2. 1000 * q <= m * y /\ m * y <= 1000 * q + 1000
    BY <1>3, <1>11
  <2> QED BY <1>1, <1>12, <2>1, <2>2
<1>14. 1000 * c <= y + 1000 /\ y - 1000 <= 1000 * c
  <2>1. 1000 * c \in Int /\ y + 1000 \in Int /\ y - 1000 \in Int
    BY <1>10, <1>11
  <2> QED BY <1>1, <1>13, <2>1, Cancels
<1> QED BY <1>9, <1>10, <1>14 DEF c, y, given, i

\* An entry past it gives it nothing.
LEMMA NothingGiven ==
  ASSUME FileLoaded, OwnNodes, NEW count \in Nat, NEW cut, CutsFit(cut, count),
         NEW e \in 1..N, NEW j \in 1..N, e < j
  PROVE  EntryGives(cut, j, nodes_info[e].id) = {}
<1> SUFFICES ASSUME NEW p \in cut[j - 1]..(cut[j] - 1) PROVE NodeBy(cut, p) # nodes_info[e].id
  BY DEF EntryGives
<1>1. N \in Nat
  BY NFacts
<1>2. cut[j - 1] \in Nat /\ cut[j] \in Nat
  BY <1>1 DEF CutsFit, CutsRise
<1>3. p \in Nat /\ cut[j - 1] <= p /\ p < cut[j]
  BY <1>2
<1>4. NodeBy(cut, p) = nodes_info[j + (p % (N - j + 1))].id
  BY <1>1, <1>3, EntryPages
<1>5. j + (p % (N - j + 1)) \in 1..N /\ j + (p % (N - j + 1)) # e
  <2>1. N - j + 1 \in Nat /\ N - j + 1 > 0
    BY <1>1
  <2>2. p % (N - j + 1) \in 0..(N - j)
    BY <1>1, <1>3, <2>1
  <2> QED BY <1>1, <2>2
<1> QED BY <1>4, <1>5 DEF OwnNodes

\* What the e-th node has of the first j entries: the weights gained up to its own.
Upto(e, j) == IF j <= e THEN j ELSE e
WeightUpto(e, j) == IF Upto(e, j) = 0 THEN 0 ELSE nodes_info[Upto(e, j)].weight
GivenUpto(cut, count, e, j) ==
  LET taken == TakenBy(cut, cut[j], nodes_info[e].id)
  IN  /\ IsFiniteSet(taken) /\ Cardinality(taken) \in Nat
      /\ WeightUpto(e, j) * count - 1000 * Upto(e, j) <= 1000 * Cardinality(taken)
      /\ 1000 * Cardinality(taken) <= WeightUpto(e, j) * count + 1000 * Upto(e, j)

LEMMA NextEntryGives ==
  ASSUME FileLoaded, OwnNodes, NEW count \in Nat, NEW cut, CutsFit(cut, count),
         NEW e \in 1..N, NEW j \in 0..(N - 1), GivenUpto(cut, count, e, j)
  PROVE  GivenUpto(cut, count, e, j + 1)
<1> DEFINE i == nodes_info[e].id
           taken == TakenBy(cut, cut[j], i)
           given == EntryGives(cut, j + 1, i)
<1>1. N \in Nat /\ j + 1 \in 1..N /\ j \in 0..N /\ (j + 1) - 1 = j
  BY NFacts
<1>2. cut[j] \in Nat /\ cut[j + 1] \in Nat /\ cut[j] <= cut[j + 1]
  <2>1. j + 1 \in 0..N /\ j \in 0..(j + 1)
    BY <1>1
  <2> QED BY <1>1, <2>1 DEF CutsFit, CutsRise
<1>3. TakenBy(cut, cut[j + 1], i) = taken \cup given /\ taken \cap given = {}
  BY <1>1, <1>2 DEF TakenBy, EntryGives
<1>4. /\ IsFiniteSet(taken) /\ Cardinality(taken) \in Nat
      /\ WeightUpto(e, j) * count - 1000 * Upto(e, j) <= 1000 * Cardinality(taken)
      /\ 1000 * Cardinality(taken) <= WeightUpto(e, j) * count + 1000 * Upto(e, j)
  BY DEF GivenUpto
<1>5. CASE j + 1 <= e
  <2>1. /\ IsFiniteSet(given) /\ Cardinality(given) \in Nat
        /\ Gain(j + 1) * count - 1000 <= 1000 * Cardinality(given)
        /\ 1000 * Cardinality(given) <= Gain(j + 1) * count + 1000
    <3>1. j + 1 \in 1..e
      BY <1>1, <1>5
    <3> QED BY <3>1, EntryShare
  <2>2. Upto(e, j) = j /\ Upto(e, j + 1) = j + 1
    BY <1>1, <1>5 DEF Upto
  <2>3. /\ WeightUpto(e, j + 1) = WeightUpto(e, j) + Gain(j + 1)
        /\ WeightUpto(e, j) \in Int /\ Gain(j + 1) \in Int
    <3>1. WeightUpto(e, j + 1) = nodes_info[j + 1].weight /\ nodes_info[j + 1].weight \in Nat
      BY <1>1, <2>2 DEF WeightUpto, FileLoaded
    <3>2. CASE j = 0
      <4>1. WeightUpto(e, j) = 0 /\ Gain(j + 1) = nodes_info[j + 1].weight - 0
        BY <2>2, <3>2 DEF WeightUpto, Gain
      <4> QED BY <3>1, <4>1
    <3>3. CASE j # 0
      <4>1. j \in 1..N
        BY <1>1, <3>3
      <4>2. /\ WeightUpto(e, j) = nodes_info[j].weight /\ nodes_info[j].weight \in Nat
            /\ Gain(j + 1) = nodes_info[j + 1].weight - nodes_info[j].weight
        BY <1>1, <2>2, <3>3, <4>1 DEF WeightUpto, Gain, FileLoaded
      <4> QED BY <3>1, <4>2
    <3> QED BY <3>2, <3>3
  <2> HIDE DEF taken, given
  <2>4. /\ IsFiniteSet(taken \cup given)
        /\ Cardinality(taken \cup given) = Cardinality(taken) + Cardinality(given)
    <3>1. /\ IsFiniteSet(taken \cup given)
          /\ Cardinality(taken \cup given) =
               Cardinality(taken) + Cardinality(given) - Cardinality(taken \cap given)
      <4>1. IsFiniteSet(taken) /\ IsFiniteSet(given)
        BY <1>4, <2>1
      <4> QED BY <4>1, FS_Union, Zenon
    <3>2. Cardinality(taken \cap given) = 0
      BY <1>3, FS_EmptySet
    <3> QED BY <1>4, <2>1, <3>1, <3>2
  <2> DEFINE x == WeightUpto(e, j) * count
             y == Gain(j + 1) * count
             z == WeightUpto(e, j + 1) * count
  <2>5. x \in Int /\ y \in Int /\ z = x + y
    BY <2>3
  <2>6. /\ x - 1000 * j <= 1000 * Cardinality(taken) /\ 1000 * Cardinality(taken) <= x + 1000 * j
        /\ y - 1000 <= 1000 * Cardinality(given) /\ 1000 * Cardinality(given) <= y + 1000
    BY <1>4, <2>1, <2>2
  <2> HIDE DEF x, y, z
  <2>7. /\ z - 1000 * (j + 1) <= 1000 * Cardinality(taken \cup given)
        /\ 1000 * Cardinality(taken \cup given) <= z + 1000 * (j + 1)
        /\ Cardinality(taken \cup given) \in Nat
    BY <1>1, <1>4, <2>1, <2>4, <2>5, <2>6
  <2> QED BY <1>3, <2>2, <2>4, <2>7 DEF GivenUpto, z, i
<1>6. CASE ~(j + 1 <= e)
  <2>1. given = {}
    <3>1. e < j + 1
      BY <1>1, <1>6
    <3> QED BY <1>1, <3>1, NothingGiven
  <2>2. TakenBy(cut, cut[j + 1], i) = taken
    BY <1>3, <2>1
  <2>3. Upto(e, j) = e /\ Upto(e, j + 1) = e
    BY <1>1, <1>6 DEF Upto
  <2>4. WeightUpto(e, j) = WeightUpto(e, j + 1)
    BY <2>3 DEF WeightUpto
  <2> QED BY <1>4, <2>2, <2>3, <2>4 DEF GivenUpto
<1> QED BY <1>5, <1>6

LEMMA AllEntriesGive ==
  ASSUME FileLoaded, OwnNodes, NEW count \in Nat, NEW cut, CutsFit(cut, count), NEW e \in 1..N
  PROVE  GivenUpto(cut, count, e, N)
<1> DEFINE T == {j \in 0..N : GivenUpto(cut, count, e, j)}
<1>1. N \in Nat
  BY NFacts
<1>2. 0 \in T /\ T \in SUBSET (0..N)
  <2>1. TakenBy(cut, cut[0], nodes_info[e].id) = {}
    BY DEF TakenBy, CutsFit, CutsRise
  <2>2. Upto(e, 0) = 0 /\ WeightUpto(e, 0) = 0
    BY DEF Upto, WeightUpto
  <2>3. 0 * count = 0
    OBVIOUS
  <2>4. GivenUpto(cut, count, e, 0)
    BY <2>1, <2>2, <2>3, FS_EmptySet DEF GivenUpto
  <2> QED BY <1>1, <2>4
<1>3. ASSUME NEW j \in T, j < N PROVE j + 1 \in T
  <2>1. j \in 0..(N - 1) /\ j + 1 \in 0..N
    BY <1>1, <1>3
  <2> QED BY <2>1, NextEntryGives
<1> HIDE DEF T
<1>4. T = 0..N
  BY <1>1, <1>2, <1>3, BoundedInduction
<1>5. N \in 0..N
  BY <1>1
<1> QED BY <1>4, <1>5 DEF T

LEMMA InitialShares ==
  ASSUME FileLoaded, WholeFile, OwnNodes, NEW count \in Counts, nodes \in InitialNodes(count)
  PROVE  PortionsFollowWeights
<1>1. N \in Nat /\ N > 0 /\ count \in Nat
  BY NFacts, BoundsAssumption
<1>2. PICK low \in [1..N -> BOOLEAN] : nodes = [p \in PagesOf(count) |-> NodeBy(Cut(count, low), p)]
  BY DEF InitialNodes
<1> DEFINE cut == Cut(count, low)
<1>3. CutsFit(cut, count)
  BY <1>1, CutFacts
<1>4. DOMAIN nodes = 0..(count - 1) /\ \A p \in 0..(count - 1) : nodes[p] = NodeBy(cut, p)
  BY <1>2 DEF PagesOf
<1> HIDE DEF cut
<1>5. Cardinality(DOMAIN nodes) = count
  <2>1. 0 \in Int /\ count - 1 \in Int
    BY <1>1
  <2>2. Cardinality(0..(count - 1)) = IF 0 > count - 1 THEN 0 ELSE (count - 1) - 0 + 1
    BY <2>1, FS_Interval
  <2> QED BY <1>1, <1>4, <2>2
<1>6. ASSUME NEW e \in 1..N
      PROVE  LET record == nodes_info[e]
                 excess == 1000 * Count({record.id}) - record.weight * Cardinality(DOMAIN nodes)
             IN  -1000 * e <= excess /\ excess <= 1000 * (e + IF record.id = 0 THEN N ELSE 0)
  <2> DEFINE i == nodes_info[e].id
             taken == TakenBy(cut, cut[N], i)
             rest == {p \in cut[N]..(count - 1) : NodeBy(cut, p) = i}
             w == nodes_info[e].weight * count
  <2>1. cut[N] \in Nat /\ cut[N] <= count /\ count <= cut[N] + N
    BY <1>1, <1>3 DEF CutsFit, CutsRise
  <2>2. Count({i}) = Cardinality(taken \cup rest) /\ taken \cap rest = {}
    <3>1. {p \in DOMAIN nodes : nodes[p] \in {i}} = taken \cup rest
      BY <1>1, <1>4, <2>1 DEF TakenBy
    <3>2. taken \cap rest = {}
      BY <2>1 DEF TakenBy
    <3> QED BY <3>1, <3>2 DEF Count
  <2>3. /\ IsFiniteSet(taken) /\ Cardinality(taken) \in Nat
        /\ w - 1000 * e <= 1000 * Cardinality(taken)
        /\ 1000 * Cardinality(taken) <= w + 1000 * e
    <3>1. GivenUpto(cut, count, e, N)
      BY <1>1, <1>3, AllEntriesGive
    <3>2. Upto(e, N) = e /\ WeightUpto(e, N) = nodes_info[e].weight
      BY <1>1 DEF Upto, WeightUpto
    <3> QED BY <3>1, <3>2 DEF GivenUpto
  <2>4. /\ IsFiniteSet(rest) /\ Cardinality(rest) \in Nat
        /\ Cardinality(rest) <= IF i = 0 THEN N ELSE 0
    <3>1. \A p \in cut[N]..(count - 1) : NodeBy(cut, p) = 0
      <4> SUFFICES ASSUME NEW p \in cut[N]..(count - 1) PROVE NodeBy(cut, p) = 0
        OBVIOUS
      <4>1. p \in Nat /\ cut[N] <= p
        BY <2>1
      <4> QED BY <1>1, <1>3, <4>1, PagesLeftOver
    <3>2. rest = IF i = 0 THEN cut[N]..(count - 1) ELSE {}
      BY <3>1
    <3>3. /\ IsFiniteSet(cut[N]..(count - 1))
          /\ Cardinality(cut[N]..(count - 1)) =
               IF cut[N] > count - 1 THEN 0 ELSE (count - 1) - cut[N] + 1
      <4>1. cut[N] \in Int /\ count - 1 \in Int
        BY <1>1, <2>1
      <4> QED BY <4>1, FS_Interval
    <3> HIDE DEF rest, i
    <3> QED BY <1>1, <2>1, <3>2, <3>3, FS_EmptySet
  <2>5. w \in Int
    BY <1>1 DEF FileLoaded
  <2> HIDE DEF taken, rest
  <2>6. Cardinality(taken \cup rest) = Cardinality(taken) + Cardinality(rest)
    <3>1. IsFiniteSet(taken) /\ IsFiniteSet(rest)
      BY <2>3, <2>4
    <3>2. Cardinality(taken \cup rest) =
            Cardinality(taken) + Cardinality(rest) - Cardinality(taken \cap rest)
      BY <3>1, FS_Union, Zenon
    <3>3. Cardinality(taken \cap rest) = 0
      BY <2>2, FS_EmptySet
    <3> QED BY <2>3, <2>4, <3>2, <3>3
  <2> HIDE DEF i, w
  <2>7. /\ -1000 * e <= 1000 * Count({i}) - w
        /\ 1000 * Count({i}) - w <= 1000 * (e + IF i = 0 THEN N ELSE 0)
    <3> DEFINE c == Cardinality(taken)
               d == Cardinality(rest)
               most == IF i = 0 THEN N ELSE 0
    <3>1. Count({i}) = c + d /\ c \in Nat /\ d \in Nat /\ d <= most /\ most \in Nat
      BY <1>1, <2>2, <2>3, <2>4, <2>6
    <3>2. w - 1000 * e <= 1000 * c /\ 1000 * c <= w + 1000 * e /\ e \in Nat
      BY <2>3
    <3> HIDE DEF c, d, most
    <3>3. -1000 * e <= 1000 * (c + d) - w /\ 1000 * (c + d) - w <= 1000 * (e + most)
      BY <2>5, <3>1, <3>2
    <3> QED BY <3>1, <3>3 DEF most
  <2> QED BY <1>5, <2>7 DEF i, w
<1> QED BY <1>6 DEF PortionsFollowWeights

\* A call of move_pages_initial leaves the pages to one of its outcomes, and a table
\* is of nodes of their own unless the file has fewer lines than there are records.
MovedInitial ==
  /\ OwnNodes \/ nodes_info[N].weight = 0
  /\ call.op = "initial" => \E count \in Counts : nodes \in InitialNodes(count)

LEMMA MovedInitially == Init => MovedInitial
<1> SUFFICES ASSUME Init PROVE OwnNodes \/ nodes_info[N].weight = 0
  <2>1. Init => call.op # "initial"
    BY DEF Init, NoCall
  <2> QED BY <2>1 DEF MovedInitial
<1>1. PICK f \in Files : Cardinality(f) <= N /\ nodes_info \in Loaded(f)
  BY DEF Init
<1>2. PICK order \in Sorted(f) :
        nodes_info = [k \in 1..N |-> IF k <= Cardinality(f) THEN order[k] ELSE NoRecord]
  BY <1>1 DEF Loaded
<1>3. N \in Nat /\ N > 0 /\ Cardinality(f) \in Nat
  BY FilesAssumption, BoundsAssumption, FS_CardinalityType DEF Init
<1>4. /\ order \in [1..Cardinality(f) -> f]
      /\ \A j, k \in 1..Cardinality(f) : j < k => Before(order[j], order[k])
  BY DEF Sorted
<1>5. CASE Cardinality(f) < N
  BY <1>2, <1>3, <1>5 DEF NoRecord
<1>6. CASE Cardinality(f) = N
  <2>1. \A k \in 1..N : nodes_info[k] = order[k] /\ order[k] \in f
    BY <1>2, <1>4, <1>6
  <2>2. ASSUME NEW j \in 1..N, NEW k \in 1..N, j # k, nodes_info[j].id = nodes_info[k].id
        PROVE  FALSE
    <3>1. order[j] = order[k] /\ order[j].weight \in Nat /\ order[j].id \in Nat
      BY <2>1, <2>2, FilesAssumption
    <3>2. ~Before(order[j], order[k]) /\ ~Before(order[k], order[j])
      BY <3>1 DEF Before
    <3>3. j < k \/ k < j
      BY <1>3, <2>2
    <3> QED BY <1>4, <1>6, <3>2, <3>3
  <2> QED BY <2>2 DEF OwnNodes
<1> QED BY <1>1, <1>3, <1>5, <1>6

\* The cuts as a function of the table and its length.
CutOf(n, t, count, low) ==
  LET cut[k \in 0..n] ==
        IF k = 0 THEN 0
        ELSE IF cut[k - 1] = count THEN count
        ELSE Min({count, cut[k - 1]
               + Truncated((n - k + 1) * (t[k].weight - IF k = 1 THEN 0 ELSE t[k - 1].weight) * count,
                           1000, low[k])})
  IN  cut

LEMMA MovedStays == MovedInitial /\ [Next]_vars => MovedInitial'
<1> SUFFICES ASSUME MovedInitial, [Next]_vars PROVE MovedInitial'
  OBVIOUS
<1>1. UNCHANGED build
  BY DEF Next, vars, GetSums, PlaceS, PlaceDwp, PlaceAll, MoveInitial, UniformInterleave,
         KernelFails, NoTable, Exits
<1>2. N' = N /\ nodes_info' = nodes_info
  BY <1>1 DEF build
<1>3. \A count : (InitialNodes(count))' = InitialNodes(count)
  <2>1. \A count, low : (Cut(count, low))' = Cut(count, low)
    <3>1. \A count, low : Cut(count, low) = CutOf(N, nodes_info, count, low)
      BY DEF Cut, CutOf, Truncated, Portion
    <3>2. \A count, low : (Cut(count, low))' = (CutOf(N, nodes_info, count, low))'
      BY DEF Cut, CutOf, Truncated, Portion
    <3> QED BY <1>2, <3>1, <3>2
  <2>2. \A cut, p : (NodeBy(cut, p))' = NodeBy(cut, p)
    BY <1>2, Zenon DEF NodeBy
  <2> QED BY <1>2, <2>1, <2>2 DEF InitialNodes, PagesOf
<1>4. (OwnNodes \/ nodes_info[N].weight = 0)'
  BY <1>2 DEF MovedInitial, OwnNodes
<1>5. CASE UNCHANGED vars
  BY <1>3, <1>4, <1>5 DEF vars, MovedInitial
<1>6. CASE \E count \in Counts : MoveInitial(count)
  BY <1>3, <1>4, <1>6 DEF MoveInitial, MovedInitial
<1>7. CASE call'.op # "initial"
  BY <1>4, <1>7 DEF MovedInitial
<1>8. UNCHANGED vars \/ (\E count \in Counts : MoveInitial(count)) \/ call'.op # "initial"
  BY DEF Next, Called, GetSums, PlaceS, PlaceDwp, PlaceAll, UniformInterleave, KernelFails
<1> QED BY <1>5, <1>6, <1>7, <1>8

\* The loop cuts every node its share, for any file, length and number of nodes: the
\* cuts add up to the whole segment, and the pages between two of them go round.
THEOREM SharesFollowFile == Spec => []NodesGetTheirShare
<1>1. RInv /\ MovedInitial => PortionsFollowWeights
  <2> SUFFICES ASSUME RInv, MovedInitial, call.op = "initial", WholeFile
               PROVE  PortionsFollowWeights
    BY DEF PortionsFollowWeights, WholeFile
  <2>1. FileLoaded /\ N \in Nat /\ N > 0
    BY NFacts DEF RInv
  <2>2. OwnNodes
    <3> SUFFICES ASSUME nodes_info[N].weight = 0 PROVE FALSE
      BY DEF MovedInitial
    <3> DEFINE w == [k \in 0..N |-> IF k = 0 THEN 0 ELSE nodes_info[k].weight]
    <3>1. w \in [0..N -> Int] /\ \A k \in 1..N : nodes_info[k].weight \in Nat /\ w[k] = nodes_info[k].weight
      BY <2>1 DEF FileLoaded
    <3>2. ASSUME NEW k \in 1..N PROVE w[k - 1] <= w[k]
      <4>1. w[0] = 0 /\ k - 1 \in 0..N /\ w[k] = nodes_info[k].weight /\ nodes_info[k].weight \in Nat
        BY <2>1, <3>1
      <4>2. CASE k = 1
        BY <4>1, <4>2
      <4>3. CASE k # 1
        <5>1. k \in 2..N /\ k - 1 \in 1..N
          BY <2>1, <4>3
        <5>2. nodes_info[k - 1].weight <= nodes_info[k].weight
          BY <5>1 DEF WholeFile, Ascending
        <5>3. w[k - 1] = nodes_info[k - 1].weight
          BY <3>1, <5>1
        <5> QED BY <4>1, <5>2, <5>3
      <4> QED BY <4>2, <4>3
    <3> HIDE DEF w
    <3>3. \A k \in 0..N : \A j \in 0..k : w[j] <= w[k]
      BY <2>1, <3>1, <3>2, NeverFalls, Zenon
    <3>4. ASSUME NEW k \in 1..N PROVE nodes_info[k].weight = 0
      <4>1. k \in 0..N /\ N \in 0..N /\ N \in 1..N
        BY <2>1
      <4>2. w[k] <= w[N]
        BY <3>3, <4>1
      <4> QED BY <3>1, <4>1, <4>2
    <3>5. N \in 1..N
      BY <2>1
    <3>6. Sum(1..N, nodes_info) = nodes_info[N].weight
      BY <2>1, <3>4, <3>5, NFacts, SumOfOne
    <3> QED BY <3>6 DEF WholeFile
  <2> QED BY <2>1, <2>2, InitialShares DEF MovedInitial
<1>2. RInv /\ CallInv => ChunksAreEven
  BY UniformShare DEF CallInv
<1>3. RInv /\ CallInv /\ MovedInitial => NodesGetTheirShare
  BY <1>1, <1>2 DEF NodesGetTheirShare
<1> QED BY <1>3, RInitially, RKept, CallInitially, CallKept, MovedInitially, MovedStays, PTL DEF Spec
=============================================================================
