------------------------ MODULE JournalSystemProofs ------------------------
(***************************************************************************)
(* The journal system for any size of the disk, any number of requests and *)
(* any number of crashes: the superblock recovery chooses, the blocks a    *)
(* write may touch, the journals that can be parsed from the disk, and the *)
(* refinement of JournalView.                                              *)
(*                                                                         *)
(* First the cyclic disk: the k-th block behind a start, the slice of an   *)
(* interval, what an update of an interval changes.  Then ParseJournalRange*)
(* as a recursion over the blocks, the inductive invariant IInv with one   *)
(* lemma per step, and the view with one lemma per step.                   *)
(***************************************************************************)
EXTENDS JournalSystem, JournalTheorems

\* The distance from start to block b, going round the array.
Offset(b, start) == IF b >= start THEN b - start ELSE b - start + NumJournalBlocks

\* Offsets and positions are inverse to each other.
LEMMA PositionOfOffset ==
    ASSUME NEW start \in BlockIndex
    PROVE  /\ \A k \in 0..NumJournalBlocks : JournalPosAdd(start, k) \in BlockIndex
           /\ \A k \in BlockIndex : Offset(JournalPosAdd(start, k), start) = k
           /\ \A b \in BlockIndex : /\ Offset(b, start) \in BlockIndex
                                    /\ JournalPosAdd(start, Offset(b, start)) = b
  BY NumJournalBlocksAssumption DEF BlockIndex, JournalPosAdd, Offset

\* Positions can be reached in two steps.
LEMMA PositionTwice ==
    ASSUME NEW start \in BlockIndex, NEW p \in 0..NumJournalBlocks, NEW k \in 0..NumJournalBlocks,
           p + k <= NumJournalBlocks
    PROVE  JournalPosAdd(JournalPosAdd(start, p), k) = JournalPosAdd(start, p + k)
  BY NumJournalBlocksAssumption DEF BlockIndex, JournalPosAdd

\* The fields of an interval.
LEMMA IntervalFields ==
    ASSUME NEW start \in BlockIndex, NEW len \in 0..NumJournalBlocks
    PROVE  /\ Interval(start, len) \in IntervalSet
           /\ Interval(start, len).start = start /\ Interval(start, len).len = len
  BY DEF Interval, IntervalSet

\* An interval covers the blocks whose offset is less than its length.
LEMMA RangeByOffset ==
    ASSUME NEW start \in BlockIndex, NEW len \in 0..NumJournalBlocks, NEW b \in BlockIndex
    PROVE  /\ InCyclicRange(b, Interval(start, len)) <=> Offset(b, start) < len
           /\ b \in BlocksOf(Interval(start, len)) <=> Offset(b, start) < len
<1>1. InCyclicRange(b, Interval(start, len)) <=> Offset(b, start) < len
  BY NumJournalBlocksAssumption, IntervalFields DEF InCyclicRange, BlockIndex, Offset
<1> QED
  BY <1>1 DEF BlocksOf

\* The blocks of an interval, as a sequence.
LEMMA SliceElements ==
    ASSUME NEW j, NEW start \in BlockIndex, NEW len \in 0..NumJournalBlocks
    PROVE  \A k \in 1..len : CyclicSlice(j, Interval(start, len))[k] = j[JournalPosAdd(start, k - 1)]
  BY NumJournalBlocksAssumption, IntervalFields DEF CyclicSlice

\* What an interval holds depends on its blocks only.
LEMMA SliceSame ==
    ASSUME NEW j, NEW jj, NEW start \in BlockIndex, NEW len \in 0..NumJournalBlocks,
           \A b \in BlocksOf(Interval(start, len)) : jj[b] = j[b]
    PROVE  CyclicSlice(jj, Interval(start, len)) = CyclicSlice(j, Interval(start, len))
<1>1. ASSUME NEW k \in 1..len
      PROVE  jj[JournalPosAdd(start, k - 1)] = j[JournalPosAdd(start, k - 1)]
  <2>1. k - 1 \in BlockIndex /\ k - 1 < len /\ k - 1 \in 0..NumJournalBlocks
    BY NumJournalBlocksAssumption DEF BlockIndex
  <2> DEFINE b == JournalPosAdd(start, k - 1)
  <2>2. b \in BlockIndex /\ Offset(b, start) = k - 1
    BY <2>1, PositionOfOffset
  <2> HIDE DEF b
  <2>3. b \in BlocksOf(Interval(start, len))
    BY <2>1, <2>2, RangeByOffset
  <2> QED
    BY <2>3 DEF b
<1> QED
  BY <1>1, IntervalFields DEF CyclicSlice

\* A slice of blocks that are all readable.
LEMMA SliceType ==
    ASSUME NEW j \in [BlockIndex -> Block \cup {None}],
           NEW start \in BlockIndex, NEW len \in 0..NumJournalBlocks,
           Disk_HasJournalRange(j, Interval(start, len))
    PROVE  /\ CyclicSlice(j, Interval(start, len)) \in Seq(Block)
           /\ Len(CyclicSlice(j, Interval(start, len))) = len
<1> DEFINE s == [k \in 1..len |-> j[JournalPosAdd(start, k - 1)]]
<1>1. ASSUME NEW k \in 1..len PROVE s[k] \in Block
  <2>1. k - 1 \in BlockIndex /\ k - 1 < len /\ k - 1 \in 0..NumJournalBlocks
    BY NumJournalBlocksAssumption DEF BlockIndex
  <2> DEFINE b == JournalPosAdd(start, k - 1)
  <2>2. b \in BlockIndex /\ Offset(b, start) = k - 1
    BY <2>1, PositionOfOffset
  <2>4. s[k] = j[b]
    OBVIOUS
  <2> HIDE DEF b, s
  <2>3. b \in BlocksOf(Interval(start, len))
    BY <2>1, <2>2, RangeByOffset
  <2> QED
    BY <2>2, <2>3, <2>4 DEF Disk_HasJournalRange
<1>2. DOMAIN s = 1..len /\ len \in Nat /\ s = [k \in 1..len |-> s[k]]
  BY NumJournalBlocksAssumption
<1>3. s = CyclicSlice(j, Interval(start, len))
  BY IntervalFields DEF CyclicSlice
<1> HIDE DEF s
<1>4. s \in Seq(Block) /\ Len(s) = len
  BY <1>1, <1>2, SeqDef
<1> QED
  BY <1>3, <1>4

\* An interval and what follows it.
LEMMA SliceConcat ==
    ASSUME NEW j \in [BlockIndex -> Block \cup {None}], NEW start \in BlockIndex,
           NEW p \in 0..NumJournalBlocks, NEW q \in 0..NumJournalBlocks, p + q <= NumJournalBlocks,
           Disk_HasJournalRange(j, Interval(start, p)),
           Disk_HasJournalRange(j, Interval(JournalPosAdd(start, p), q))
    PROVE  /\ CyclicSlice(j, Interval(start, p + q))
                 = CyclicSlice(j, Interval(start, p)) \o CyclicSlice(j, Interval(JournalPosAdd(start, p), q))
           /\ Disk_HasJournalRange(j, Interval(start, p + q))
<1> DEFINE next == JournalPosAdd(start, p)
           a == CyclicSlice(j, Interval(start, p))
           b == CyclicSlice(j, Interval(next, q))
<1>1. next \in BlockIndex /\ p + q \in 0..NumJournalBlocks
  BY PositionOfOffset, NumJournalBlocksAssumption
<1>2. a \in Seq(Block) /\ Len(a) = p
  BY SliceType
<1> HIDE DEF next
<1>3. b \in Seq(Block) /\ Len(b) = q
  BY <1>1, SliceType DEF next
<1> DEFINE n == p + q
<1>4. n \in 0..NumJournalBlocks /\ n = p + q /\ n \in Nat /\ p \in Nat /\ q \in Nat
  BY <1>1, NumJournalBlocksAssumption
<1> HIDE DEF n
<1>5. Disk_HasJournalRange(j, Interval(start, n))
  <2>1. ASSUME NEW x \in BlocksOf(Interval(start, n)) PROVE j[x] # None
    <3>1. x \in BlockIndex
      BY DEF BlocksOf
    <3>2. Offset(x, start) < n
      BY <1>4, <3>1, RangeByOffset
    <3>3. CASE Offset(x, start) < p
      BY <3>1, <3>3, RangeByOffset DEF Disk_HasJournalRange
    <3>4. CASE ~ (Offset(x, start) < p)
      <4>1. Offset(x, next) < q
        BY <1>4, <3>1, <3>2, <3>4, NumJournalBlocksAssumption DEF next, Offset, JournalPosAdd, BlockIndex
      <4> QED
        BY <1>1, <3>1, <4>1, RangeByOffset DEF Disk_HasJournalRange, next
    <3> QED
      BY <3>3, <3>4
  <2> QED
    BY <2>1 DEF Disk_HasJournalRange
<1> DEFINE c == CyclicSlice(j, Interval(start, n))
<1>6. c \in Seq(Block) /\ Len(c) = n
  BY <1>4, <1>5, SliceType
<1>7. ASSUME NEW k \in 1..n PROVE c[k] = (a \o b)[k]
  <2>1. c[k] = j[JournalPosAdd(start, k - 1)]
    BY <1>4, SliceElements
  <2>2. CASE k <= p
    <3>1. k \in 1..p
      BY <1>4, <2>2
    <3>2. a[k] = j[JournalPosAdd(start, k - 1)]
      BY <3>1, SliceElements
    <3> HIDE DEF a, b, c
    <3> QED
      BY <1>2, <1>3, <2>1, <3>1, <3>2
  <2>3. CASE ~ (k <= p)
    <3> DEFINE i == k - p
    <3>1. /\ i \in 1..q /\ i - 1 \in 0..NumJournalBlocks /\ p + (i - 1) <= NumJournalBlocks
          /\ p + (i - 1) = k - 1 /\ k = p + i
      BY <1>4, <2>3, NumJournalBlocksAssumption
    <3> HIDE DEF i
    <3>2. b[i] = j[JournalPosAdd(next, i - 1)]
      BY <1>1, <3>1, SliceElements
    <3>3. JournalPosAdd(next, i - 1) = JournalPosAdd(start, k - 1)
      <4> DEFINE m == i - 1
      <4>1. m \in 0..NumJournalBlocks /\ p + m <= NumJournalBlocks /\ p + m = k - 1
        BY <3>1
      <4> HIDE DEF m
      <4>2. JournalPosAdd(next, m) = JournalPosAdd(start, p + m)
        BY <4>1, PositionTwice DEF next
      <4> QED
        BY <4>1, <4>2 DEF m
    <3> HIDE DEF a, b, c
    <3>4. (a \o b)[p + i] = b[i]
      BY <1>2, <1>3, <3>1
    <3> QED
      BY <2>1, <3>1, <3>2, <3>3, <3>4
  <2> QED
    BY <2>2, <2>3
<1>8. c = a \o b
  <2> HIDE DEF a, b, c
  <2>1. a \o b \in Seq(Block) /\ Len(a \o b) = n
    BY <1>2, <1>3, <1>4
  <2> QED
    BY <1>6, <1>7, <2>1, SeqEqual
<1> QED
  BY <1>5, <1>8 DEF next, n

\* Writing a range changes the blocks of its interval and no other.
LEMMA UpdateBlocks ==
    ASSUME NEW j \in [BlockIndex -> Block \cup {None}], NEW start \in BlockIndex,
           NEW jr \in Seq(Block), Len(jr) <= NumJournalBlocks, NEW jj,
           jj = JournalUpdate(j, Interval(start, Len(jr)), jr)
    PROVE  /\ jj \in [BlockIndex -> Block \cup {None}]
           /\ \A b \in BlockIndex : Offset(b, start) >= Len(jr) => jj[b] = j[b]
           /\ \A b \in BlockIndex : Offset(b, start) < Len(jr) => jj[b] = jr[Offset(b, start) + 1]
<1> DEFINE n == Len(jr)
<1>1. n \in 0..NumJournalBlocks /\ n \in Nat
  BY NumJournalBlocksAssumption
<1>2. \A k \in 1..n : jr[k] \in Block
  OBVIOUS
<1> HIDE DEF n
<1>3. Interval(start, n).start = start /\ Interval(start, n).len = n
  BY <1>1, IntervalFields
<1>4. jj = [b \in BlockIndex |->
        CASE start <= b /\ b < start + n -> jr[b - start + 1]
          [] start <= b + NumJournalBlocks /\ b + NumJournalBlocks < start + n
                -> jr[b + NumJournalBlocks - start + 1]
          [] OTHER -> j[b]]
  BY <1>3 DEF JournalUpdate, n
<1>5. ASSUME NEW b \in BlockIndex
      PROVE  /\ Offset(b, start) >= n => jj[b] = j[b]
             /\ Offset(b, start) < n => jj[b] = jr[Offset(b, start) + 1] /\ Offset(b, start) + 1 \in 1..n
  BY <1>1, <1>4, NumJournalBlocksAssumption, SMTT(30) DEF Offset, BlockIndex
<1>6. ASSUME NEW b \in BlockIndex PROVE jj[b] \in Block \cup {None}
  <2>1. Offset(b, start) \in Int
    BY PositionOfOffset DEF BlockIndex
  <2> QED
    BY <1>1, <1>2, <1>5, <2>1
<1>7. jj \in [BlockIndex -> Block \cup {None}]
  BY <1>4, <1>6
<1> QED
  BY <1>5, <1>7 DEF n

\* The interval that was written holds the range.
LEMMA UpdateSlice ==
    ASSUME NEW j \in [BlockIndex -> Block \cup {None}], NEW start \in BlockIndex,
           NEW jr \in Seq(Block), Len(jr) <= NumJournalBlocks, None \notin Block, NEW jj,
           jj = JournalUpdate(j, Interval(start, Len(jr)), jr)
    PROVE  /\ CyclicSlice(jj, Interval(start, Len(jr))) = jr
           /\ Disk_HasJournalRange(jj, Interval(start, Len(jr)))
<1>1. /\ \A b \in BlockIndex : Offset(b, start) < Len(jr) => jj[b] = jr[Offset(b, start) + 1]
  BY UpdateBlocks
<1> DEFINE n == Len(jr)
<1>2. n \in 0..NumJournalBlocks /\ n \in Nat /\ \A k \in 1..n : jr[k] \in Block
  BY NumJournalBlocksAssumption
<1>3. jj \in [BlockIndex -> Block \cup {None}]
  BY UpdateBlocks
<1> HIDE DEF n
<1>4. Disk_HasJournalRange(jj, Interval(start, n))
  <2>1. ASSUME NEW b \in BlocksOf(Interval(start, n)) PROVE jj[b] # None
    <3>1. b \in BlockIndex
      BY DEF BlocksOf
    <3>2. Offset(b, start) < n /\ Offset(b, start) \in BlockIndex
      BY <1>2, <3>1, RangeByOffset, PositionOfOffset
    <3>3. Offset(b, start) + 1 \in 1..n
      BY <1>2, <3>2, NumJournalBlocksAssumption DEF BlockIndex
    <3> QED
      BY <1>1, <1>2, <3>1, <3>2, <3>3 DEF n
  <2> QED
    BY <2>1 DEF Disk_HasJournalRange
<1> DEFINE c == CyclicSlice(jj, Interval(start, n))
<1>5. c \in Seq(Block) /\ Len(c) = n
  BY <1>2, <1>3, <1>4, SliceType
<1>6. ASSUME NEW k \in 1..n PROVE c[k] = jr[k]
  <2>1. k - 1 \in BlockIndex /\ k - 1 < n /\ k - 1 \in 0..NumJournalBlocks /\ (k - 1) + 1 = k
    BY <1>2, NumJournalBlocksAssumption DEF BlockIndex
  <2> DEFINE b == JournalPosAdd(start, k - 1)
  <2>2. b \in BlockIndex /\ Offset(b, start) = k - 1
    BY <2>1, PositionOfOffset
  <2>3. c[k] = jj[b]
    BY <1>2, SliceElements
  <2> HIDE DEF b, c
  <2> QED
    BY <1>1, <2>1, <2>2, <2>3 DEF n
<1>7. c = jr
  <2> HIDE DEF c
  <2> QED
    BY <1>5, <1>6, SeqEqual DEF n
<1> QED
  BY <1>4, <1>7 DEF n

-----------------------------------------------------------------------------
(***************************************************************************)
(* What journal ranges parse to.                                           *)
(***************************************************************************)

\* The fields of a block.
LEMMA BlockFields ==
    ASSUME NEW blk \in Block
    PROVE  /\ blk.entries \in Seq(JournalEntry)
           /\ blk.nblocks \in Nat /\ blk.nblocks >= 1
           /\ blk.idx \in Nat
<1>1. blk.entries \in Batch /\ blk.nblocks \in 1..MaxBlocksPerWrite /\ blk.idx \in 1..MaxBlocksPerWrite
  BY DEF Block
<1>2. PICK n \in 0..MaxInMemory : blk.entries \in [1..n -> JournalEntry]
  BY <1>1 DEF Batch
<1>3. n \in Nat
  BY BoundsAssumption
<1>4. blk.entries \in Seq(JournalEntry)
  BY <1>2, <1>3, SeqDef
<1> QED
  BY <1>1, <1>4, BoundsAssumption

\* A whole batch, block by block.
LEMMA WholeBatchElements ==
    ASSUME NEW jr \in Seq(Block), NEW p \in 1..Len(jr), jr[p].idx = 1,
           p + jr[p].nblocks - 1 <= Len(jr)
    PROVE  WholeBatchAt(jr, p) <=>
              \A k \in 1..jr[p].nblocks :
                 jr[p + k - 1] = [entries |-> jr[p].entries, nblocks |-> jr[p].nblocks, idx |-> k]
<1> DEFINE n == jr[p].nblocks
           e == jr[p].entries
           q == p + n - 1
           s == SubSeq(jr, p, q)
<1>1. n \in Nat /\ n >= 1 /\ p \in Nat
  BY BlockFields
<1>2. q \in Nat /\ q >= p /\ q <= Len(jr) /\ q - p + 1 = n
  BY <1>1
<1> HIDE DEF n, e, q
<1>3. s \in Seq(Block) /\ Len(s) = n /\ \A k \in 1..n : s[k] = jr[p + k - 1]
  BY <1>1, <1>2
<1>4. s = [k \in 1..n |-> s[k]]
  BY <1>3
<1> HIDE DEF s
<1>5. s = MarshalBatch(e, n) <=> \A k \in 1..n : jr[p + k - 1] = [entries |-> e, nblocks |-> n, idx |-> k]
  BY <1>3, <1>4 DEF MarshalBatch
<1> QED
  BY <1>5 DEF WholeBatchAt, n, e, q, s

\* Two ranges that parse make one that does.
LEMMA ParsesConcat ==
    ASSUME NEW a \in Seq(Block), NEW b \in Seq(Block), Parses(a), Parses(b)
    PROVE  Parses(a \o b)
<1> DEFINE c == a \o b
           m == Len(a)
           n == Len(b)
<1>1. /\ c \in Seq(Block) /\ Len(c) = m + n /\ m \in Nat /\ n \in Nat
      /\ \A i \in 1..m : c[i] = a[i]
      /\ \A i \in 1..n : c[m + i] = b[i]
  OBVIOUS
<1>2. m = Len(a) /\ n = Len(b)
  OBVIOUS
<1> HIDE DEF c, m, n
<1>3. /\ \A i \in 1..m : a[i] \in Block /\ a[i].nblocks \in Nat
      /\ \A i \in 1..n : b[i] \in Block /\ b[i].nblocks \in Nat
  BY <1>2, BlockFields
<1>4. ASSUME NEW p \in 1..m, a[p].idx = 1
      PROVE  p + a[p].nblocks - 1 <= m /\ WholeBatchAt(c, p)
  <2>1. WholeBatchAt(a, p)
    BY <1>2, <1>4 DEF Parses, BatchStarts
  <2>2. p + a[p].nblocks - 1 <= m
    BY <1>2, <2>1 DEF WholeBatchAt
  <2>3. \A k \in 1..a[p].nblocks :
           a[p + k - 1] = [entries |-> a[p].entries, nblocks |-> a[p].nblocks, idx |-> k]
    BY <1>2, <1>4, <2>1, <2>2, WholeBatchElements
  <2>4. c[p] = a[p] /\ p \in 1..Len(c) /\ p + c[p].nblocks - 1 <= Len(c) /\ a[p].nblocks \in Nat
    BY <1>1, <1>3, <2>2
  <2>5. \A k \in 1..c[p].nblocks : p + k - 1 \in 1..m
    <3> DEFINE nb == a[p].nblocks
    <3>1. nb \in Nat /\ p + nb - 1 <= m /\ m \in Nat /\ c[p].nblocks = nb
      BY <1>1, <2>2, <2>4
    <3> HIDE DEF nb
    <3>2. \A k \in 1..nb : p + k - 1 \in 1..m
      BY <3>1
    <3> QED
      BY <3>1, <3>2
  <2>6. \A k \in 1..c[p].nblocks :
           c[p + k - 1] = [entries |-> c[p].entries, nblocks |-> c[p].nblocks, idx |-> k]
    BY <1>1, <2>3, <2>4, <2>5
  <2> QED
    BY <1>1, <1>4, <2>2, <2>4, <2>6, WholeBatchElements
<1>5. ASSUME NEW p \in 1..n, b[p].idx = 1
      PROVE  WholeBatchAt(c, m + p)
  <2>1. WholeBatchAt(b, p)
    BY <1>2, <1>5 DEF Parses, BatchStarts
  <2>2. p + b[p].nblocks - 1 <= n
    BY <1>2, <2>1 DEF WholeBatchAt
  <2>3. \A k \in 1..b[p].nblocks :
           b[p + k - 1] = [entries |-> b[p].entries, nblocks |-> b[p].nblocks, idx |-> k]
    BY <1>2, <1>5, <2>1, <2>2, WholeBatchElements
  <2> DEFINE r == m + p
             nb == b[p].nblocks
  <2>4. c[r] = b[p] /\ nb \in Nat /\ m \in Nat /\ n \in Nat
    BY <1>1, <1>3
  <2> HIDE DEF nb
  <2>5. /\ r \in 1..m + n /\ r + nb - 1 <= m + n
        /\ \A k \in 1..nb : p + k - 1 \in 1..n /\ r + k - 1 = m + (p + k - 1)
    BY <2>2, <2>4 DEF nb
  <2> HIDE DEF r
  <2>6. \A k \in 1..nb :
           c[r + k - 1] = [entries |-> c[r].entries, nblocks |-> c[r].nblocks, idx |-> k]
    BY <1>1, <2>3, <2>4, <2>5 DEF nb
  <2>7. c[r].idx = 1
    BY <1>5, <2>4
  <2>8. WholeBatchAt(c, r)
    BY <1>1, <2>4, <2>5, <2>6, <2>7, WholeBatchElements DEF nb
  <2> QED
    BY <2>8 DEF r
<1>6. ASSUME NEW p \in 1..m + n
      PROVE  p \in 1..m \/ (p - m \in 1..n /\ p = m + (p - m) /\ p \notin 1..m)
  BY <1>1
<1>7. ASSUME NEW p \in BatchStarts(c) PROVE WholeBatchAt(c, p)
  <2>1. p \in 1..m + n /\ c[p].idx = 1
    BY <1>1, <1>7 DEF BatchStarts
  <2>2. CASE p \in 1..m
    BY <1>1, <1>4, <2>1, <2>2
  <2>3. CASE p - m \in 1..n /\ p = m + (p - m)
    <3> DEFINE i == p - m
    <3>1. i \in 1..n /\ p = m + i
      BY <2>3
    <3> HIDE DEF i
    <3>2. b[i].idx = 1
      BY <1>1, <2>1, <3>1
    <3> QED
      BY <1>5, <3>1, <3>2
  <2> QED
    BY <1>6, <2>1, <2>2, <2>3
<1>8. ASSUME NEW q \in 1..Len(c)
      PROVE  \E p \in BatchStarts(c) : p <= q /\ q < p + c[p].nblocks
  <2>1. CASE q \in 1..m
    <3>1. PICK p \in BatchStarts(a) : p <= q /\ q < p + a[p].nblocks
      BY <1>2, <2>1 DEF Parses
    <3>2. p \in 1..m /\ a[p].idx = 1
      BY <1>2, <3>1 DEF BatchStarts
    <3>3. c[p] = a[p] /\ p \in 1..Len(c)
      BY <1>1, <3>2
    <3> QED
      BY <3>1, <3>2, <3>3 DEF BatchStarts
  <2>2. CASE q - m \in 1..n
    <3> DEFINE i == q - m
    <3>1. i \in 1..n /\ q = m + i
      BY <1>1, <2>2
    <3> HIDE DEF i
    <3>2. PICK p \in BatchStarts(b) : p <= i /\ i < p + b[p].nblocks
      BY <1>2, <3>1 DEF Parses
    <3>3. p \in 1..n /\ b[p].idx = 1
      BY <1>2, <3>2 DEF BatchStarts
    <3> DEFINE r == m + p
    <3>4. c[r] = b[p] /\ r \in 1..Len(c) /\ b[p].nblocks \in Nat /\ r <= q /\ q < r + b[p].nblocks
      BY <1>1, <1>3, <3>1, <3>2, <3>3
    <3> HIDE DEF r
    <3>5. r \in BatchStarts(c)
      BY <3>3, <3>4 DEF BatchStarts
    <3> QED
      BY <3>4, <3>5
  <2> QED
    BY <1>1, <1>6, <2>1, <2>2
<1> QED
  BY <1>7, <1>8 DEF Parses, c

\* Nothing parses, and to nothing.
LEMMA ParsesEmpty == Parses(<< >>)
  BY DEF Parses, BatchStarts

\* The recursive function inside ParseJournalRange.
IsParse(g, jr, n) ==
    g = [q \in 0..n |-> IF q = 0 THEN << >>
                        ELSE IF jr[q].idx = 1 THEN g[q - 1] \o jr[q].entries
                        ELSE g[q - 1]]

\* What it computes, step by step.
LEMMA ParseSteps ==
    ASSUME NEW jr, NEW n \in Nat, NEW g, IsParse(g, jr, n)
    PROVE  /\ g[0] = << >>
           /\ \A q \in 1..n : g[q] = IF jr[q].idx = 1 THEN g[q - 1] \o jr[q].entries ELSE g[q - 1]
<1>1. \A q \in 0..n : g[q] = IF q = 0 THEN << >>
                             ELSE IF jr[q].idx = 1 THEN g[q - 1] \o jr[q].entries
                             ELSE g[q - 1]
  BY DEF IsParse
<1> QED
  BY <1>1

\* There is such a function for every n.
LEMMA ParseExists ==
    ASSUME NEW jr, NEW n \in Nat
    PROVE  \E g : IsParse(g, jr, n)
<1> DEFINE S == {m \in Nat : \E g : IsParse(g, jr, m)}
<1>1. 0 \in S
  <2> DEFINE g == [q \in 0..0 |-> << >>]
  <2>1. IsParse(g, jr, 0)
    BY DEF IsParse
  <2> QED
    BY <2>1
<1>2. ASSUME NEW m \in Nat, m \in S
      PROVE  m + 1 \in S
  <2>1. PICK g : IsParse(g, jr, m)
    BY <1>2
  <2> DEFINE last == IF jr[m + 1].idx = 1 THEN g[m] \o jr[m + 1].entries ELSE g[m]
             h == [q \in 0..m + 1 |-> IF q = m + 1 THEN last ELSE g[q]]
  <2>2. g[0] = << >> /\ \A q \in 1..m : g[q] = IF jr[q].idx = 1 THEN g[q - 1] \o jr[q].entries ELSE g[q - 1]
    BY <2>1, ParseSteps
  <2>3. h = [q \in 0..m + 1 |-> h[q]] /\ h[m + 1] = last /\ \A q \in 0..m : h[q] = g[q]
    OBVIOUS
  <2> HIDE DEF h
  <2>4. ASSUME NEW q \in 0..m + 1
        PROVE  h[q] = IF q = 0 THEN << >>
                      ELSE IF jr[q].idx = 1 THEN h[q - 1] \o jr[q].entries
                      ELSE h[q - 1]
    <3>1. CASE q = 0
      <4>1. 0 \in 0..m
        OBVIOUS
      <4>2. h[0] = << >>
        BY <2>2, <2>3, <4>1
      <4> QED
        BY <3>1, <4>2
    <3>2. CASE q \in 1..m
      <4>1. q - 1 \in 0..m /\ q \in 0..m /\ q # 0
        BY <3>2
      <4> QED
        BY <2>2, <2>3, <3>2, <4>1
    <3>3. CASE q = m + 1
      <4>1. q - 1 = m /\ m \in 0..m /\ q # 0
        BY <3>3
      <4> QED
        BY <2>3, <3>3, <4>1
    <3> QED
      BY <3>1, <3>2, <3>3
  <2>5. IsParse(h, jr, m + 1)
    BY <2>3, <2>4 DEF IsParse
  <2> QED
    BY <2>5
<1> HIDE DEF S
<1>3. Nat \subseteq S
  BY <1>1, <1>2, SetInduction
<1> QED
  BY <1>3 DEF S

\* ParseJournalRange is its last value.
LEMMA ParseIsLast ==
    ASSUME NEW jr \in Seq(Block)
    PROVE  \E g : IsParse(g, jr, Len(jr)) /\ ParseJournalRange(jr) = g[Len(jr)]
<1> DEFINE f == CHOOSE g : IsParse(g, jr, Len(jr))
<1>1. IsParse(f, jr, Len(jr))
  <2>1. Len(jr) \in Nat
    OBVIOUS
  <2> QED
    BY <2>1, ParseExists
<1>2. ParseJournalRange(jr) = f[Len(jr)]
  BY DEF ParseJournalRange, IsParse
<1> QED
  BY <1>1, <1>2

\* What it computes are entries.
LEMMA ParseTypes ==
    ASSUME NEW jr \in Seq(Block), NEW g, IsParse(g, jr, Len(jr))
    PROVE  \A q \in 0..Len(jr) : g[q] \in Seq(JournalEntry)
<1> DEFINE S == {q \in Nat : q <= Len(jr) => g[q] \in Seq(JournalEntry)}
<1>0. Len(jr) \in Nat
  OBVIOUS
<1>1. g[0] = << >> /\ \A q \in 1..Len(jr) : g[q] = IF jr[q].idx = 1 THEN g[q - 1] \o jr[q].entries ELSE g[q - 1]
  BY <1>0, ParseSteps
<1>2. 0 \in S
  <2>1. g[0] \in Seq(JournalEntry)
    BY <1>1
  <2> QED
    BY <2>1
<1>3. ASSUME NEW q \in Nat, q \in S PROVE q + 1 \in S
  <2> SUFFICES ASSUME q + 1 <= Len(jr) PROVE g[q + 1] \in Seq(JournalEntry)
    OBVIOUS
  <2> DEFINE r == q + 1
  <2>1. r \in 1..Len(jr) /\ r - 1 = q /\ g[q] \in Seq(JournalEntry)
    BY <1>0, <1>3
  <2> HIDE DEF r
  <2>2. jr[r].entries \in Seq(JournalEntry)
    BY <2>1, BlockFields
  <2>3. g[r] = g[q] \/ g[r] = g[q] \o jr[r].entries
    BY <1>1, <2>1
  <2>4. g[q] \o jr[r].entries \in Seq(JournalEntry)
    BY <2>1, <2>2
  <2>5. g[r] \in Seq(JournalEntry)
    BY <2>1, <2>3, <2>4
  <2> QED
    BY <2>5 DEF r
<1> HIDE DEF S
<1>4. Nat \subseteq S
  BY <1>2, <1>3, SetInduction
<1> QED
  BY <1>0, <1>4 DEF S

\* A range parses to journal entries.
LEMMA ParseType ==
    ASSUME NEW jr \in Seq(Block)
    PROVE  ParseJournalRange(jr) \in Seq(JournalEntry)
<1>1. PICK g : IsParse(g, jr, Len(jr)) /\ ParseJournalRange(jr) = g[Len(jr)]
  BY ParseIsLast
<1>2. Len(jr) \in 0..Len(jr)
  OBVIOUS
<1> QED
  BY <1>1, <1>2, ParseTypes

\* An empty range parses to nothing.
LEMMA ParseEmpty == ParseJournalRange(<< >>) = << >>
<1>1. << >> \in Seq(Block) /\ Len(<< >>) = 0
  OBVIOUS
<1>2. PICK g : IsParse(g, << >>, 0) /\ ParseJournalRange(<< >>) = g[0]
  BY <1>1, ParseIsLast
<1> QED
  BY <1>2, ParseSteps

\* Parsing one range after the other is parsing both.
LEMMA ParseConcat ==
    ASSUME NEW a \in Seq(Block), NEW b \in Seq(Block)
    PROVE  ParseJournalRange(a \o b) = ParseJournalRange(a) \o ParseJournalRange(b)
<1> DEFINE c == a \o b
           m == Len(a)
           n == Len(b)
<1>1. /\ c \in Seq(Block) /\ Len(c) = m + n /\ m \in Nat /\ n \in Nat
      /\ \A i \in 1..m : c[i] = a[i]
      /\ \A i \in 1..n : c[m + i] = b[i]
  OBVIOUS
<1>2. PICK g : IsParse(g, c, m + n) /\ ParseJournalRange(c) = g[m + n]
  <2>1. \E g : IsParse(g, c, Len(c)) /\ ParseJournalRange(c) = g[Len(c)]
    <3> HIDE DEF c
    <3> QED
      BY <1>1, ParseIsLast
  <2> QED
    BY <1>1, <2>1
<1>3. PICK ga : IsParse(ga, a, m) /\ ParseJournalRange(a) = ga[m]
  BY ParseIsLast
<1>4. PICK gb : IsParse(gb, b, n) /\ ParseJournalRange(b) = gb[n]
  BY ParseIsLast
<1>5. \A q \in 0..m : ga[q] \in Seq(JournalEntry)
  BY <1>3, ParseTypes
<1>6. \A q \in 0..n : gb[q] \in Seq(JournalEntry)
  BY <1>4, ParseTypes
<1>7. \A q \in 1..n : b[q].entries \in Seq(JournalEntry)
  BY BlockFields
<1> HIDE DEF c, m, n
<1>8. /\ g[0] = << >>
      /\ \A q \in 1..m + n : g[q] = IF c[q].idx = 1 THEN g[q - 1] \o c[q].entries ELSE g[q - 1]
  <2> DEFINE k == m + n
  <2>1. k \in Nat /\ IsParse(g, c, k)
    BY <1>1, <1>2
  <2> HIDE DEF k
  <2>2. g[0] = << >> /\ \A q \in 1..k : g[q] = IF c[q].idx = 1 THEN g[q - 1] \o c[q].entries ELSE g[q - 1]
    BY <2>1, ParseSteps
  <2> QED
    BY <2>2 DEF k
<1>9. /\ ga[0] = << >>
      /\ \A q \in 1..m : ga[q] = IF a[q].idx = 1 THEN ga[q - 1] \o a[q].entries ELSE ga[q - 1]
  BY <1>1, <1>3, ParseSteps
<1>10. /\ gb[0] = << >>
       /\ \A q \in 1..n : gb[q] = IF b[q].idx = 1 THEN gb[q - 1] \o b[q].entries ELSE gb[q - 1]
  BY <1>1, <1>4, ParseSteps
<1>11. g[m] = ga[m]
  <2> DEFINE S == {q \in Nat : q <= m => g[q] = ga[q]}
  <2>1. 0 \in S
    BY <1>8, <1>9
  <2>2. ASSUME NEW q \in Nat, q \in S PROVE q + 1 \in S
    <3> SUFFICES ASSUME q + 1 <= m PROVE g[q + 1] = ga[q + 1]
      OBVIOUS
    <3> DEFINE r == q + 1
    <3>1. r \in 1..m /\ r \in 1..m + n /\ r - 1 = q /\ g[q] = ga[q]
      <4>1. m \in Nat /\ n \in Nat
        BY <1>1
      <4> QED
        BY <2>2, <4>1
    <3> HIDE DEF r
    <3>2. g[r] = ga[r]
      BY <1>1, <1>8, <1>9, <3>1
    <3> QED
      BY <3>2 DEF r
  <2> HIDE DEF S
  <2>3. Nat \subseteq S
    BY <2>1, <2>2, SetInduction
  <2> QED
    BY <1>1, <2>3 DEF S
<1>12. g[m + n] = ga[m] \o gb[n]
  <2> DEFINE H(q) == g[m + q] = ga[m] \o gb[q]
             S == {q \in Nat : q <= n => H(q)}
  <2>0. ga[m] \in Seq(JournalEntry)
    BY <1>1, <1>5
  <2>1. 0 \in S
    <3>1. ga[m] \o << >> = ga[m] /\ m + 0 = m
      BY <1>1, <2>0
    <3> QED
      BY <1>10, <1>11, <3>1
  <2>2. ASSUME NEW q \in Nat, q \in S PROVE q + 1 \in S
    <3> HIDE DEF H
    <3> SUFFICES ASSUME q + 1 <= n PROVE H(q + 1)
      OBVIOUS
    <3> DEFINE r == q + 1
               k == m + r
    <3>0. /\ r \in 1..n /\ r - 1 = q /\ q \in 0..n /\ k \in 1..m + n /\ k - 1 = m + q /\ H(q)
      <4>1. m \in Nat /\ n \in Nat
        BY <1>1
      <4> QED
        BY <2>2, <4>1
    <3> HIDE DEF r
    <3>1. /\ r \in 1..n /\ r - 1 = q /\ q \in 0..n /\ k \in 1..m + n /\ k - 1 = m + q
          /\ g[m + q] = ga[m] \o gb[q] /\ c[k] = b[r]
      BY <1>1, <3>0 DEF H
    <3> HIDE DEF r, k
    <3>2. gb[q] \in Seq(JournalEntry) /\ b[r].entries \in Seq(JournalEntry)
      BY <1>6, <1>7, <3>1
    <3>3. g[k] = IF b[r].idx = 1 THEN (ga[m] \o gb[q]) \o b[r].entries ELSE ga[m] \o gb[q]
      BY <1>8, <3>1
    <3>4. gb[r] = IF b[r].idx = 1 THEN gb[q] \o b[r].entries ELSE gb[q]
      BY <1>10, <3>1
    <3>5. (ga[m] \o gb[q]) \o b[r].entries = ga[m] \o (gb[q] \o b[r].entries)
      BY <2>0, <3>2, JournalConcatAssociative
    <3>6. g[k] = ga[m] \o gb[r]
      BY <3>3, <3>4, <3>5
    <3> QED
      BY <3>6 DEF H, r, k
  <2> HIDE DEF S, H
  <2>3. Nat \subseteq S
    BY <2>1, <2>2, SetInduction
  <2>4. H(n)
    BY <1>1, <2>3 DEF S
  <2> QED
    BY <2>4 DEF H
<1> QED
  BY <1>2, <1>3, <1>4, <1>12 DEF c

(***************************************************************************)
(* The machine in each of its phases.                                      *)
(***************************************************************************)
SuperblockReads == {Unfinished, Corruption} \cup {Success(sb) : sb \in SuperblockSet}

\* The machine while it reads the two superblocks.
LoadingSuperblockState ==
    [phase           : {"LoadingSuperblock"},
     outstandingRead : [Slot -> ReqId \cup {None}],
     superblockRead  : [Slot -> SuperblockReads],
     syncReqs        : [SyncId -> SyncReqStatus]]

\* The machine while it reads the journal the chosen superblock names.
LoadingOtherState ==
    [phase            : {"LoadingOther"},
     superblock       : SuperblockSet,
     whichSuperblock  : Slot,
     journalFrontRead : ReqId \cup {None},
     journalBackRead  : ReqId \cup {None},
     journalFront     : Seq(Block) \cup {None},
     journalBack      : Seq(Block) \cup {None},
     syncReqs         : [SyncId -> SyncReqStatus]]

\* The machine once the journal is loaded.
ReadyState ==
    [phase                    : {"Ready"},
     frozenLoc                : Loc \cup {NoLoc},
     isFrozen                 : BOOLEAN,
     frozenJournalPosition    : 0..NumJournalBlocks,
     superblockWrite          : ReqId \cup {None},
     inMemoryJournalFrozen    : Seq(JournalEntry),
     inMemoryJournal          : Seq(JournalEntry),
     outstandingJournalWrites : SUBSET ReqId,
     writtenJournalLen        : 0..NumJournalBlocks,
     replayJournal            : Seq(JournalEntry),
     superblock               : SuperblockSet,
     whichSuperblock          : Slot,
     commitStatus             : {"CommitNone", "CommitAdvanceLog", "CommitAdvanceLocation"},
     newSuperblock            : SuperblockSet \cup {None},
     syncReqs                 : [SyncId -> SyncReqStatus]]

\* The machine in any of its phases.
MachineState == LoadingSuperblockState \cup LoadingOtherState \cup ReadyState

\* The types of the disk and of its requests.
DiskTypes ==
    /\ reqReadSuperblock \in [Slot -> SUBSET ReqId]
    /\ reqReadJournals \in [ReqId -> IntervalSet \cup {None}]
    /\ reqWriteJournals \in [ReqId -> IntervalSet \cup {None}]
    /\ superblock \in [Slot -> SuperblockSet]
    /\ journal \in [BlockIndex -> Block \cup {None}]

\* The types of the machine and of the disk.
Types == DiskTypes /\ machine \in MachineState

\* The machine waits for a superblock it has written.
Committing == machine.commitStatus # "CommitNone"

\* The requests to write superblocks are those of a commit under way, which is one of two kinds.
SuperblockWriteInv ==
    /\ ~Ready => reqWriteSuperblock = NoSuperblockWrites
    /\ Ready =>
          /\ reqWriteSuperblock =
                [which \in Slot |->
                    IF Committing /\ which = OtherSlot(machine.whichSuperblock)
                    THEN [id |-> machine.superblockWrite, superblock |-> machine.newSuperblock]
                    ELSE None]
          /\ ~Committing => machine.newSuperblock = None /\ machine.superblockWrite = None
          /\ Committing => machine.superblockWrite # None
          /\ Committing => machine.outstandingJournalWrites = {} /\ machine.inMemoryJournalFrozen = << >>
          /\ machine.commitStatus = "CommitAdvanceLog" => machine.newSuperblock = AdvanceLogSuperblock
          /\ machine.commitStatus = "CommitAdvanceLocation" =>
                machine.newSuperblock = AdvanceLocationSuperblock /\ machine.frozenLoc # NoLoc

\* What the machine knows of the superblocks on disk.
SuperblockInv ==
    /\ LoadingSuperblock =>
          \A which \in Slot : machine.superblockRead[which].type = "SuperblockSuccess"
                                 => machine.superblockRead[which] = Success(superblock[which])
    /\ ~LoadingSuperblock => superblock[machine.whichSuperblock] = machine.superblock
    /\ ~LoadingSuperblock /\ ~HasUpdateOccurredUnacked =>
          SelectSuperblockIndex(superblock) = machine.whichSuperblock

\* Entries in memory and the position of the frozen journal.
MemoryInv ==
    Ready =>
       /\ Len(machine.inMemoryJournalFrozen) + Len(machine.inMemoryJournal) <= MaxInMemory
       /\ machine.frozenLoc # NoLoc => machine.isFrozen
       /\ machine.isFrozen => machine.frozenJournalPosition <= machine.writtenJournalLen
       /\ machine.inMemoryJournalFrozen # << >> =>
             machine.isFrozen /\ machine.frozenJournalPosition = machine.writtenJournalLen

\* What was read of the journal while loading.
ReadInv ==
    LoadingOther =>
       /\ \A id \in ReqId : reqReadJournals[id] # None =>
             /\ machine.journalFrontRead = id => reqReadJournals[id] = FrontInterval
             /\ machine.journalBackRead = id => reqReadJournals[id] = BackInterval
       /\ machine.journalFrontRead # None => FrontInterval # None
       /\ machine.journalBackRead # None => BackInterval # None
       /\ machine.journalFrontRead # None => machine.journalFrontRead # machine.journalBackRead
       /\ machine.journalFront # None => FrontInterval # None /\ machine.journalFront = CyclicSlice(journal, FrontInterval)
       /\ machine.journalBack # None => BackInterval # None /\ machine.journalBack = CyclicSlice(journal, BackInterval)

\* Journal writes under way are behind the journal of the superblock.
JournalWriteInv ==
    /\ ~Ready => reqWriteJournals = NoJournalRequests
    /\ Ready =>
          /\ machine.outstandingJournalWrites = {id \in ReqId : reqWriteJournals[id] # None}
          /\ \A id \in ReqId : reqWriteJournals[id] # None =>
                \A b \in BlocksOf(reqWriteJournals[id]) :
                   /\ machine.superblock.journalLen <= Offset(b, machine.superblock.journalStart)
                   /\ Offset(b, machine.superblock.journalStart) < machine.writtenJournalLen
          /\ \A id, other \in ReqId :
                id # other /\ reqWriteJournals[id] # None /\ reqWriteJournals[other] # None =>
                   BlocksOf(reqWriteJournals[id]) \cap BlocksOf(reqWriteJournals[other]) = {}

\* The journals on disk.
ContentInv ==
    /\ ~Ready => Disk_HasJournal(journal, PersistentInterval)
    /\ Ready =>
          LET start == machine.superblock.journalStart
              len == machine.superblock.journalLen
              position == machine.frozenJournalPosition
              written == machine.writtenJournalLen
          IN  /\ len <= written
              /\ Disk_HasJournal(journal, Interval(start, len))
              /\ Disk_HasJournal(journal, Interval(start, written))
              /\ machine.isFrozen =>
                    Disk_HasJournal(journal, Interval(JournalPosAdd(start, position), written - position))

\* The inductive invariant: everything the recovery of the journal rests on.
IInv ==
    /\ Types
    /\ SuperblockWriteInv
    /\ SuperblockInv
    /\ MemoryInv
    /\ ReadInv
    /\ JournalWriteInv
    /\ ContentInv

-----------------------------------------------------------------------------
(***************************************************************************)
(* Superblocks.                                                            *)
(***************************************************************************)

\* The fields of a superblock.
LEMMA SuperblockFields ==
    ASSUME NEW sb \in SuperblockSet
    PROVE  /\ sb.counter \in 0 .. CounterModulus - 1
           /\ sb.journalStart \in BlockIndex
           /\ sb.journalLen \in 0..NumJournalBlocks
           /\ sb.indirectionTableLoc \in Loc
  BY DEF SuperblockSet, Superblock

\* A superblock made of a counter, an interval and a location.
LEMMA SuperblockMade ==
    ASSUME NEW c \in 0 .. CounterModulus - 1, NEW p \in BlockIndex,
           NEW n \in 0..NumJournalBlocks, NEW loc \in Loc
    PROVE  /\ Superblock(c, p, n, loc) \in SuperblockSet
           /\ Superblock(c, p, n, loc).counter = c
           /\ Superblock(c, p, n, loc).journalStart = p
           /\ Superblock(c, p, n, loc).journalLen = n
           /\ Superblock(c, p, n, loc).indirectionTableLoc = loc
  BY DEF SuperblockSet, Superblock

\* The counter never comes back in two steps.
LEMMA CounterSteps ==
    ASSUME NEW c \in 0 .. CounterModulus - 1
    PROVE  /\ IncrementSuperblockCounter(c) \in 0 .. CounterModulus - 1
           /\ IncrementSuperblockCounter(IncrementSuperblockCounter(c)) # c
  BY CounterAssumption DEF IncrementSuperblockCounter

\* Recovery chooses a slot.
LEMMA SelectType ==
    ASSUME NEW sb
    PROVE  SelectSuperblockIndex(sb) \in Slot
  BY DEF SelectSuperblockIndex, Slot

\* The other slot.
LEMMA OtherSlots ==
    ASSUME NEW which \in Slot
    PROVE  /\ OtherSlot(which) \in Slot /\ OtherSlot(which) # which
           /\ OtherSlot(OtherSlot(which)) = which
           /\ \A w \in Slot : w = which \/ w = OtherSlot(which)
  BY DEF OtherSlot, Slot

\* Recovery chooses a superblock with the successor of the other's counter.
LEMMA SelectNewer ==
    ASSUME NEW sb \in [Slot -> SuperblockSet], NEW which \in Slot,
           sb[OtherSlot(which)].counter = IncrementSuperblockCounter(sb[which].counter)
    PROVE  SelectSuperblockIndex(sb) = OtherSlot(which)
<1>1. sb[which] \in SuperblockSet
  OBVIOUS
<1>2. sb[which].counter \in 0 .. CounterModulus - 1
  BY <1>1, SuperblockFields
<1>3. CASE which = 0
  BY <1>3 DEF SelectSuperblockIndex, OtherSlot
<1>4. CASE which = 1
  <2>1. IncrementSuperblockCounter(IncrementSuperblockCounter(sb[1].counter)) # sb[1].counter
    BY <1>2, <1>4, CounterSteps
  <2> QED
    BY <1>4, <2>1 DEF SelectSuperblockIndex, OtherSlot
<1> QED
  BY <1>3, <1>4 DEF Slot

\* The three phases.
LEMMA Phases ==
    ASSUME machine \in MachineState
    PROVE  /\ LoadingSuperblock => ~LoadingOther /\ ~Ready /\ machine \in LoadingSuperblockState
           /\ LoadingOther => ~LoadingSuperblock /\ ~Ready /\ machine \in LoadingOtherState
           /\ Ready => ~LoadingSuperblock /\ ~LoadingOther /\ machine \in ReadyState
           /\ LoadingSuperblock \/ LoadingOther \/ Ready
<1>1. machine \in LoadingSuperblockState => machine.phase = "LoadingSuperblock"
  BY DEF LoadingSuperblockState
<1>2. machine \in LoadingOtherState => machine.phase = "LoadingOther"
  BY DEF LoadingOtherState
<1>3. machine \in ReadyState => machine.phase = "Ready"
  BY DEF ReadyState
<1> QED
  BY <1>1, <1>2, <1>3 DEF MachineState, LoadingSuperblock, LoadingOther, Ready

\* The fields of a machine that is ready.
LEMMA ReadyFields ==
    ASSUME machine \in ReadyState
    PROVE  /\ Ready /\ ~LoadingSuperblock /\ ~LoadingOther
           /\ machine.frozenLoc \in Loc \cup {NoLoc}
           /\ machine.isFrozen \in BOOLEAN
           /\ machine.frozenJournalPosition \in 0..NumJournalBlocks
           /\ machine.superblockWrite \in ReqId \cup {None}
           /\ machine.inMemoryJournalFrozen \in Seq(JournalEntry)
           /\ machine.inMemoryJournal \in Seq(JournalEntry)
           /\ machine.outstandingJournalWrites \subseteq ReqId
           /\ machine.writtenJournalLen \in 0..NumJournalBlocks
           /\ machine.replayJournal \in Seq(JournalEntry)
           /\ machine.superblock \in SuperblockSet
           /\ machine.whichSuperblock \in Slot
           /\ machine.commitStatus \in {"CommitNone", "CommitAdvanceLog", "CommitAdvanceLocation"}
           /\ machine.newSuperblock \in SuperblockSet \cup {None}
           /\ machine.syncReqs \in [SyncId -> SyncReqStatus]
           /\ machine.superblock.journalStart \in BlockIndex
           /\ machine.superblock.journalLen \in 0..NumJournalBlocks
           /\ machine.superblock.counter \in 0 .. CounterModulus - 1
           /\ machine.superblock.indirectionTableLoc \in Loc
<1>1. machine.superblock \in SuperblockSet
  BY DEF ReadyState
<1> QED
  BY <1>1, SuperblockFields DEF ReadyState, Ready, LoadingSuperblock, LoadingOther

\* The superblock that recovery would choose now.
LEMMA ChosenSuperblock ==
    ASSUME Types, SuperblockWriteInv, SuperblockInv
    PROVE  /\ LoadingOther => SuperblockOfDisk = machine.superblock
           /\ Ready /\ HasUpdateOccurredUnacked =>
                 /\ SuperblockOfDisk = machine.newSuperblock
                 /\ SelectSuperblockIndex(superblock) = OtherSlot(machine.whichSuperblock)
                 /\ Committing
           /\ Ready /\ ~HasUpdateOccurredUnacked => SuperblockOfDisk = machine.superblock
<1>1. LoadingOther => SuperblockOfDisk = machine.superblock
  BY Phases DEF Types, SuperblockInv, SuperblockOfDisk, SelectSuperblock, HasUpdateOccurredUnacked
<1>2. ASSUME Ready, HasUpdateOccurredUnacked
      PROVE  /\ SuperblockOfDisk = machine.newSuperblock
             /\ SelectSuperblockIndex(superblock) = OtherSlot(machine.whichSuperblock)
             /\ Committing
  <2> DEFINE which == machine.whichSuperblock
  <2>1. machine \in ReadyState /\ which \in Slot /\ superblock[which] = machine.superblock
    BY <1>2, Phases, ReadyFields DEF Types, SuperblockInv
  <2>2. superblock[OtherSlot(which)] = machine.newSuperblock /\ Committing
    BY <1>2 DEF HasUpdateOccurredUnacked, SuperblockWriteInv
  <2>3. machine.commitStatus \in {"CommitAdvanceLog", "CommitAdvanceLocation"}
    BY <2>1, <2>2, ReadyFields DEF Committing
  <2>4. machine.newSuperblock \in {AdvanceLogSuperblock, AdvanceLocationSuperblock}
    BY <1>2, <2>3 DEF SuperblockWriteInv
  <2>5. machine.newSuperblock.counter = IncrementSuperblockCounter(machine.superblock.counter)
    BY <2>4 DEF AdvanceLogSuperblock, AdvanceLocationSuperblock, Superblock
  <2>6. superblock \in [Slot -> SuperblockSet]
    BY DEF Types, DiskTypes
  <2> HIDE DEF which
  <2>7. SelectSuperblockIndex(superblock) = OtherSlot(which)
    BY <2>1, <2>2, <2>5, <2>6, SelectNewer DEF which
  <2> QED
    BY <2>2, <2>7 DEF SuperblockOfDisk, SelectSuperblock, which
<1>3. ASSUME Ready, ~HasUpdateOccurredUnacked
      PROVE  SuperblockOfDisk = machine.superblock
  BY <1>3, Phases DEF Types, SuperblockInv, SuperblockOfDisk, SelectSuperblock
<1> QED
  BY <1>1, <1>2, <1>3

\* What a commit under way will leave in the superblock.
LEMMA CommitFields ==
    ASSUME Types, SuperblockWriteInv, MemoryInv, Ready
    PROVE  /\ machine.commitStatus = "CommitAdvanceLog" =>
                 /\ machine.newSuperblock \in SuperblockSet
                 /\ machine.newSuperblock.journalStart = machine.superblock.journalStart
                 /\ machine.newSuperblock.journalLen = machine.writtenJournalLen
                 /\ machine.newSuperblock.indirectionTableLoc = machine.superblock.indirectionTableLoc
           /\ machine.commitStatus = "CommitAdvanceLocation" =>
                 /\ machine.newSuperblock \in SuperblockSet
                 /\ machine.isFrozen /\ machine.frozenLoc \in Loc /\ machine.frozenLoc # NoLoc
                 /\ machine.frozenJournalPosition <= machine.writtenJournalLen
                 /\ machine.newSuperblock.journalStart
                       = JournalPosAdd(machine.superblock.journalStart, machine.frozenJournalPosition)
                 /\ machine.newSuperblock.journalLen
                       = machine.writtenJournalLen - machine.frozenJournalPosition
                 /\ machine.newSuperblock.indirectionTableLoc = machine.frozenLoc
           /\ Committing => machine.newSuperblock # None
<1>1. machine \in ReadyState
  BY Phases DEF Types
<1> DEFINE start == machine.superblock.journalStart
           position == machine.frozenJournalPosition
           written == machine.writtenJournalLen
           c == IncrementSuperblockCounter(machine.superblock.counter)
<1>2. /\ start \in BlockIndex /\ position \in 0..NumJournalBlocks /\ written \in 0..NumJournalBlocks
      /\ c \in 0 .. CounterModulus - 1 /\ machine.superblock.indirectionTableLoc \in Loc
  BY <1>1, ReadyFields, CounterSteps
<1>3. ASSUME machine.commitStatus = "CommitAdvanceLog"
      PROVE  /\ machine.newSuperblock \in SuperblockSet
             /\ machine.newSuperblock.journalStart = start
             /\ machine.newSuperblock.journalLen = written
             /\ machine.newSuperblock.indirectionTableLoc = machine.superblock.indirectionTableLoc
  <2>1. machine.newSuperblock = Superblock(c, start, written, machine.superblock.indirectionTableLoc)
    BY <1>3 DEF SuperblockWriteInv, AdvanceLogSuperblock
  <2> HIDE DEF c, start, written
  <2> QED
    BY <1>2, <2>1, SuperblockMade
<1>4. ASSUME machine.commitStatus = "CommitAdvanceLocation"
      PROVE  /\ machine.newSuperblock \in SuperblockSet
             /\ machine.isFrozen /\ machine.frozenLoc \in Loc /\ machine.frozenLoc # NoLoc
             /\ position <= written
             /\ machine.newSuperblock.journalStart = JournalPosAdd(start, position)
             /\ machine.newSuperblock.journalLen = written - position
             /\ machine.newSuperblock.indirectionTableLoc = machine.frozenLoc
  <2>1. /\ machine.newSuperblock = Superblock(c, JournalPosAdd(start, position), written - position, machine.frozenLoc)
        /\ machine.frozenLoc # NoLoc
    BY <1>4 DEF SuperblockWriteInv, AdvanceLocationSuperblock
  <2>2. machine.isFrozen /\ machine.frozenLoc \in Loc /\ position <= written
    BY <1>1, <2>1, ReadyFields DEF MemoryInv
  <2> DEFINE p == JournalPosAdd(start, position)
             n == written - position
  <2>3. p \in BlockIndex
    BY <1>2, PositionOfOffset
  <2>4. n \in 0..NumJournalBlocks
    BY <1>2, <2>2, NumJournalBlocksAssumption
  <2> HIDE DEF c, p, n
  <2>5. machine.newSuperblock = Superblock(c, p, n, machine.frozenLoc)
    BY <2>1 DEF p, n
  <2> QED
    BY <1>2, <2>1, <2>2, <2>3, <2>4, <2>5, SuperblockMade DEF p, n
<1>5. Committing => machine.newSuperblock # None
  BY <1>1, <1>3, <1>4, ReadyFields, NoneAssumption DEF Committing
<1> QED
  BY <1>3, <1>4, <1>5

\* The invariant implies the properties of the runs.
LEMMA RecoverySafeFollows == IInv => RecoverySafe
<1> SUFFICES ASSUME IInv PROVE RecoverySafe
  OBVIOUS
<1>1. /\ Types /\ DiskTypes /\ SuperblockWriteInv /\ SuperblockInv /\ MemoryInv /\ JournalWriteInv
      /\ machine \in MachineState
  BY DEF IInv, Types
<1>2. RequestsRecorded
  <2>1. ASSUME NEW id \in ReqId, reqWriteJournals[id] # None
        PROVE  Ready /\ id \in machine.outstandingJournalWrites
    BY <1>1, <2>1 DEF JournalWriteInv, NoJournalRequests
  <2>2. ASSUME NEW which \in Slot, reqWriteSuperblock[which] # None
        PROVE  /\ Ready /\ machine.superblockWrite = reqWriteSuperblock[which].id
               /\ \A id \in ReqId : reqWriteJournals[id] = None
    <3>1. Ready
      BY <1>1, <2>2 DEF SuperblockWriteInv, NoSuperblockWrites
    <3>2. /\ Committing
          /\ reqWriteSuperblock[which] = [id |-> machine.superblockWrite, superblock |-> machine.newSuperblock]
      BY <1>1, <2>2, <3>1 DEF SuperblockWriteInv
    <3>3. machine.outstandingJournalWrites = {}
      BY <1>1, <3>1, <3>2 DEF SuperblockWriteInv
    <3> QED
      BY <2>1, <3>1, <3>2, <3>3
  <2> QED
    BY <2>1, <2>2 DEF RequestsRecorded
<1>3. CurrentSuperblockSafe
  <2>1. ASSUME NEW which \in Slot, reqWriteSuperblock[which] # None
        PROVE  \/ SelectSuperblockIndex(superblock) # which
               \/ superblock[which] = reqWriteSuperblock[which].superblock
    <3>1. Ready
      BY <1>1, <2>1 DEF SuperblockWriteInv, NoSuperblockWrites
    <3>2. /\ which = OtherSlot(machine.whichSuperblock)
          /\ reqWriteSuperblock[which] = [id |-> machine.superblockWrite, superblock |-> machine.newSuperblock]
      BY <1>1, <2>1, <3>1 DEF SuperblockWriteInv
    <3>3. CASE HasUpdateOccurredUnacked
      BY <3>2, <3>3 DEF HasUpdateOccurredUnacked
    <3>4. CASE ~HasUpdateOccurredUnacked
      <4>1. machine.whichSuperblock \in Slot /\ SelectSuperblockIndex(superblock) = machine.whichSuperblock
        BY <1>1, <3>1, <3>4, Phases, ReadyFields DEF SuperblockInv
      <4> QED
        BY <3>2, <4>1, OtherSlots
    <3> QED
      BY <3>3, <3>4
  <2>2. ~LoadingSuperblock => superblock[machine.whichSuperblock] = machine.superblock
    BY <1>1 DEF SuperblockInv
  <2>3. LoadingOther => machine.superblock = SuperblockOfDisk
    BY <1>1, ChosenSuperblock
  <2>4. Ready => SuperblockOfDisk \in {machine.superblock, machine.newSuperblock}
    BY <1>1, ChosenSuperblock
  <2> QED
    BY <2>1, <2>2, <2>3, <2>4 DEF CurrentSuperblockSafe
<1>4. TypeOK
  <2>1. ASSUME NEW which \in Slot, reqWriteSuperblock[which] # None
        PROVE  /\ reqWriteSuperblock[which].id \in ReqId
               /\ reqWriteSuperblock[which].superblock \in SuperblockSet
    <3>1. Ready
      BY <1>1, <2>1 DEF SuperblockWriteInv, NoSuperblockWrites
    <3>2. /\ Committing
          /\ reqWriteSuperblock[which] = [id |-> machine.superblockWrite, superblock |-> machine.newSuperblock]
      BY <1>1, <2>1, <3>1 DEF SuperblockWriteInv
    <3>3. machine.newSuperblock # None /\ machine.superblockWrite # None
      BY <1>1, <3>1, <3>2, CommitFields DEF SuperblockWriteInv
    <3> QED
      BY <1>1, <3>1, <3>2, <3>3, Phases, ReadyFields
  <2>2. machine.syncReqs \in [SyncId -> SyncReqStatus]
    BY <1>1 DEF MachineState, LoadingSuperblockState, LoadingOtherState, ReadyState
  <2>3. LoadingSuperblock => \A which \in Slot : machine.outstandingRead[which] \in ReqId \cup {None}
    BY <1>1, Phases DEF LoadingSuperblockState
  <2>4. ~LoadingSuperblock => machine.superblock \in SuperblockSet
    BY <1>1, Phases DEF LoadingOtherState, ReadyState
  <2>5. Ready => /\ machine.writtenJournalLen \in 0..NumJournalBlocks
                 /\ machine.frozenJournalPosition \in 0..NumJournalBlocks
                 /\ machine.newSuperblock # None => machine.newSuperblock \in SuperblockSet
    BY <1>1, Phases, ReadyFields
  <2> QED
    BY <1>1, <2>1, <2>2, <2>3, <2>4, <2>5 DEF TypeOK, DiskTypes
<1> QED
  BY <1>2, <1>3, <1>4 DEF RecoverySafe

\* The interval of the persistent journal, seen from the machine.
LEMMA PersistentSeen ==
    ASSUME IInv, Ready
    PROVE  /\ ~HasUpdateOccurredUnacked => SuperblockOfDisk = machine.superblock
           /\ HasUpdateOccurredUnacked =>
                 /\ SuperblockOfDisk = machine.newSuperblock
                 /\ \/ machine.commitStatus = "CommitAdvanceLog"
                    \/ machine.commitStatus = "CommitAdvanceLocation"
<1>1. machine \in ReadyState
  BY Phases DEF IInv, Types
<1> QED
  BY <1>1, ChosenSuperblock, ReadyFields DEF IInv, Committing

\* Offsets from the start of the journal separate what is being written from what is persistent.
LEMMA WritesAvoidFollows == IInv => WritesAvoidPersistentJournal
<1> SUFFICES ASSUME IInv, NEW id \in ReqId, reqWriteJournals[id] # None
             PROVE  /\ BlocksOf(reqWriteJournals[id]) \cap BlocksOf(PersistentInterval) = {}
                    /\ \A other \in ReqId \ {id} : reqWriteJournals[other] # None =>
                          BlocksOf(reqWriteJournals[id]) \cap BlocksOf(reqWriteJournals[other]) = {}
  BY DEF WritesAvoidPersistentJournal
<1>1. Ready
  BY DEF IInv, JournalWriteInv, NoJournalRequests
<1>2. machine \in ReadyState
  BY <1>1, Phases DEF IInv, Types
<1>3. machine.outstandingJournalWrites # {}
  BY <1>1 DEF IInv, JournalWriteInv
<1>4. ~Committing
  BY <1>1, <1>3 DEF IInv, SuperblockWriteInv
<1>5. SuperblockOfDisk = machine.superblock
  BY <1>1, <1>4, <1>2, PersistentSeen, ReadyFields DEF Committing
<1> DEFINE start == machine.superblock.journalStart
           len == machine.superblock.journalLen
<1>6. start \in BlockIndex /\ len \in 0..NumJournalBlocks
  BY <1>2, ReadyFields
<1>7. PersistentInterval = Interval(start, len)
  BY <1>5 DEF PersistentInterval
<1> HIDE DEF start, len
<1>8. ASSUME NEW b \in BlocksOf(reqWriteJournals[id]), b \in BlocksOf(PersistentInterval)
      PROVE  FALSE
  <2>1. b \in BlockIndex
    BY DEF BlocksOf
  <2>2. Offset(b, start) < len
    BY <1>6, <1>7, <1>8, <2>1, RangeByOffset
  <2>3. len <= Offset(b, start)
    BY <1>1, <1>8 DEF IInv, JournalWriteInv, start, len
  <2>4. Offset(b, start) \in BlockIndex
    BY <1>6, <2>1, PositionOfOffset
  <2> QED
    BY <1>6, <2>2, <2>3, <2>4, NumJournalBlocksAssumption DEF BlockIndex
<1> QED
  BY <1>1, <1>8 DEF IInv, JournalWriteInv

\* The persistent, frozen and gamma journals are the journals ContentInv speaks of.
LEMMA JournalsReadableFollows == IInv => JournalsReadable
<1> SUFFICES ASSUME IInv PROVE JournalsReadable
  OBVIOUS
<1>1. CASE ~Ready
  <2>1. FrozenInterval = PersistentInterval /\ GammaInterval = PersistentInterval
    BY <1>1 DEF FrozenInterval, GammaInterval, GammaLen, PersistentInterval
  <2> QED
    BY <1>1, <2>1 DEF IInv, ContentInv, JournalsReadable
<1>2. CASE Ready
  <2> DEFINE start == machine.superblock.journalStart
             len == machine.superblock.journalLen
             position == machine.frozenJournalPosition
             written == machine.writtenJournalLen
  <2>0. machine \in ReadyState
    BY <1>2, Phases DEF IInv, Types
  <2>1. /\ Disk_HasJournal(journal, Interval(start, len))
        /\ Disk_HasJournal(journal, Interval(start, written))
        /\ machine.isFrozen => Disk_HasJournal(journal, Interval(JournalPosAdd(start, position), written - position))
    BY <1>2 DEF IInv, ContentInv
  <2>2. FrozenInterval = IF machine.isFrozen
                         THEN Interval(JournalPosAdd(start, position), written - position)
                         ELSE Interval(start, written)
    BY <1>2 DEF FrozenInterval
  <2>3. CASE ~HasUpdateOccurredUnacked
    <3>1. PersistentInterval = Interval(start, len) /\ GammaInterval = Interval(start, written)
      BY <1>2, <2>3, PersistentSeen DEF PersistentInterval, GammaInterval, GammaLen,
         HasLocationUpdateOccurredUnacked
    <3> QED
      BY <2>1, <2>2, <3>1 DEF JournalsReadable
  <2>4. CASE HasUpdateOccurredUnacked /\ machine.commitStatus = "CommitAdvanceLog"
    <3>1. SuperblockOfDisk.journalStart = start /\ SuperblockOfDisk.journalLen = written
      BY <1>2, <2>4, PersistentSeen, CommitFields DEF IInv
    <3>2. PersistentInterval = Interval(start, written) /\ GammaInterval = Interval(start, written)
      BY <1>2, <2>4, <3>1 DEF PersistentInterval, GammaInterval, GammaLen,
         HasLocationUpdateOccurredUnacked
    <3> QED
      BY <2>1, <2>2, <3>2 DEF JournalsReadable
  <2>5. CASE HasUpdateOccurredUnacked /\ machine.commitStatus = "CommitAdvanceLocation"
    <3>1. /\ SuperblockOfDisk.journalStart = JournalPosAdd(start, position)
          /\ SuperblockOfDisk.journalLen = written - position /\ machine.isFrozen
      BY <1>2, <2>5, PersistentSeen, CommitFields DEF IInv
    <3>2. /\ PersistentInterval = Interval(JournalPosAdd(start, position), written - position)
          /\ GammaInterval = PersistentInterval
      BY <1>2, <2>5, <3>1 DEF PersistentInterval, GammaInterval, GammaLen,
         HasLocationUpdateOccurredUnacked
    <3> QED
      BY <2>1, <2>2, <3>1, <3>2 DEF JournalsReadable
  <2> QED
    BY <1>2, <2>3, <2>4, <2>5, PersistentSeen
<1> QED
  BY <1>1, <1>2

\* A new disk and a machine that starts.
LEMMA InitInv == Init => IInv
<1> SUFFICES ASSUME Init PROVE IInv
  OBVIOUS
<1>1. PICK loc \in Loc : DInit(loc)
  BY DEF Init, InitWithLoc
<1> DEFINE sb == Superblock(0, 0, 0, loc)
<1>2. sb \in SuperblockSet /\ sb.counter = 0 /\ sb.journalStart = 0 /\ sb.journalLen = 0
  BY SuperblockMade, CounterAssumption, NumJournalBlocksAssumption DEF BlockIndex
<1> HIDE DEF sb
<1>3. machine = StartState /\ superblock = [which \in Slot |-> sb]
  BY <1>1 DEF Init, InitWithLoc, MInit, DInit, sb
<1>4. machine \in LoadingSuperblockState
  BY <1>3 DEF StartState, LoadingSuperblockState, SuperblockReads, NoSyncReqs, SyncReqStatus
<1>5. Types
  BY <1>1, <1>2, <1>3, <1>4 DEF Types, DiskTypes, DInit, MachineState, NoSuperblockReads, NoJournalRequests
<1>6. LoadingSuperblock /\ ~Ready /\ ~LoadingOther
  BY <1>3 DEF StartState, LoadingSuperblock, Ready, LoadingOther
<1>7. SuperblockWriteInv /\ MemoryInv /\ ReadInv /\ JournalWriteInv
  BY <1>1, <1>6 DEF SuperblockWriteInv, MemoryInv, ReadInv, JournalWriteInv, DInit
<1>8. SuperblockInv
  BY <1>3, <1>6 DEF SuperblockInv, StartState, Unfinished
<1>9. ContentInv
  <2>1. SelectSuperblock(superblock) = sb
    BY <1>3, SelectType DEF SelectSuperblock
  <2>2. PersistentInterval = Interval(0, 0)
    BY <1>2, <2>1 DEF PersistentInterval, SuperblockOfDisk
  <2>3. 0 \in BlockIndex /\ 0 \in 0..NumJournalBlocks
    BY NumJournalBlocksAssumption DEF BlockIndex
  <2>4. \A b \in BlocksOf(Interval(0, 0)) : FALSE
    <3> SUFFICES ASSUME NEW b \in BlocksOf(Interval(0, 0)) PROVE FALSE
      OBVIOUS
    <3>1. b \in BlockIndex
      BY DEF BlocksOf
    <3>2. Offset(b, 0) < 0 /\ Offset(b, 0) \in BlockIndex
      BY <2>3, <3>1, RangeByOffset, PositionOfOffset
    <3> QED
      BY <3>2, NumJournalBlocksAssumption DEF BlockIndex
  <2>5. CyclicSlice(journal, Interval(0, 0)) = << >>
    BY <2>3, IntervalFields DEF CyclicSlice
  <2> QED
    BY <1>6, <2>2, <2>4, <2>5, ParsesEmpty DEF ContentInv, Disk_HasJournal, Disk_HasJournalRange
<1> QED
  BY <1>5, <1>7, <1>8, <1>9 DEF IInv

\* The empty journal is readable anywhere.
LEMMA EmptyJournal ==
    ASSUME NEW j, NEW start \in BlockIndex
    PROVE  /\ Disk_HasJournal(j, Interval(start, 0)) /\ Disk_HasJournalRange(j, Interval(start, 0))
           /\ CyclicSlice(j, Interval(start, 0)) = << >>
<1>1. 0 \in 0..NumJournalBlocks
  BY NumJournalBlocksAssumption
<1>2. ASSUME NEW b \in BlocksOf(Interval(start, 0)) PROVE FALSE
  <2>1. b \in BlockIndex
    BY DEF BlocksOf
  <2>2. Offset(b, start) < 0 /\ Offset(b, start) \in BlockIndex
    BY <1>1, <1>2, <2>1, RangeByOffset, PositionOfOffset
  <2> QED
    BY <2>2, NumJournalBlocksAssumption DEF BlockIndex
<1>3. CyclicSlice(j, Interval(start, 0)) = << >>
  BY <1>1, IntervalFields DEF CyclicSlice
<1> QED
  BY <1>2, <1>3, ParsesEmpty DEF Disk_HasJournal, Disk_HasJournalRange

\* Steps of the machine alone that change no field of which the invariant depends.
LEMMA QuietFrame ==
    ASSUME IInv, UNCHANGED dvars, machine' \in MachineState, machine'.phase = machine.phase,
           LoadingSuperblock => /\ machine'.outstandingRead = machine.outstandingRead
                                /\ machine'.superblockRead = machine.superblockRead,
           LoadingOther => /\ machine'.superblock = machine.superblock
                           /\ machine'.whichSuperblock = machine.whichSuperblock
                           /\ machine'.journalFrontRead = machine.journalFrontRead
                           /\ machine'.journalBackRead = machine.journalBackRead
                           /\ machine'.journalFront = machine.journalFront
                           /\ machine'.journalBack = machine.journalBack,
           Ready => /\ machine'.frozenLoc = machine.frozenLoc
                    /\ machine'.isFrozen = machine.isFrozen
                    /\ machine'.frozenJournalPosition = machine.frozenJournalPosition
                    /\ machine'.superblockWrite = machine.superblockWrite
                    /\ machine'.inMemoryJournalFrozen = machine.inMemoryJournalFrozen
                    /\ machine'.outstandingJournalWrites = machine.outstandingJournalWrites
                    /\ machine'.writtenJournalLen = machine.writtenJournalLen
                    /\ machine'.superblock = machine.superblock
                    /\ machine'.whichSuperblock = machine.whichSuperblock
                    /\ machine'.commitStatus = machine.commitStatus
                    /\ machine'.newSuperblock = machine.newSuperblock
                    /\ Len(machine'.inMemoryJournalFrozen) + Len(machine'.inMemoryJournal) <= MaxInMemory
    PROVE  IInv'
<1>1. /\ LoadingSuperblock' = LoadingSuperblock /\ LoadingOther' = LoadingOther /\ Ready' = Ready
      /\ LoadingSuperblock \/ LoadingOther \/ Ready
  <2>1. LoadingSuperblock' = LoadingSuperblock /\ LoadingOther' = LoadingOther /\ Ready' = Ready
    BY DEF LoadingSuperblock, LoadingOther, Ready
  <2>2. LoadingSuperblock \/ LoadingOther \/ Ready
    BY Phases DEF IInv, Types
  <2> QED
    BY <2>1, <2>2
<1>2. Types'
  BY DEF IInv, Types, DiskTypes, dvars
<1>3. SuperblockWriteInv'
  <2>1. Ready => /\ Committing' = Committing /\ AdvanceLogSuperblock' = AdvanceLogSuperblock
                 /\ AdvanceLocationSuperblock' = AdvanceLocationSuperblock
    BY DEF Committing, AdvanceLogSuperblock, AdvanceLocationSuperblock
  <2>2. CASE Ready
    BY <1>1, <2>1, <2>2 DEF IInv, SuperblockWriteInv, dvars
  <2>3. CASE ~Ready
    BY <1>1, <2>3 DEF IInv, SuperblockWriteInv, dvars
  <2> QED
    BY <2>2, <2>3
<1>4. SuperblockInv'
  BY <1>1, Phases DEF IInv, Types, SuperblockInv, HasUpdateOccurredUnacked, dvars
<1>5. MemoryInv'
  BY <1>1 DEF IInv, MemoryInv
<1>6. ReadInv'
  BY <1>1 DEF IInv, ReadInv, FrontInterval, BackInterval, dvars
<1>7. JournalWriteInv'
  BY <1>1 DEF IInv, JournalWriteInv, dvars
<1>8. ContentInv'
  BY <1>1 DEF IInv, ContentInv, PersistentInterval, SuperblockOfDisk, dvars
<1> QED
  BY <1>2, <1>3, <1>4, <1>5, <1>6, <1>7, <1>8 DEF IInv

\* Replayed and new operations.
LEMMA ReplayInv == IInv /\ ReplayStep => IInv'
<1> SUFFICES ASSUME IInv, NEW op \in Write \cup {NoOp}, Replay(op), UNCHANGED dvars PROVE IInv'
  BY DEF ReplayStep
<1>1. machine \in ReadyState /\ Ready
  BY Phases DEF Replay, IInv, Types
<1> DEFINE r == machine.replayJournal
           k == Len(JournalEntriesForUIOp(op))
           rest == SubSeq(r, k + 1, Len(r))
<1>2. k \in Nat /\ r \in Seq(JournalEntry)
  BY <1>1, ReadyFields DEF JournalEntriesForUIOp
<1>3. rest \in Seq(JournalEntry)
  <2> HIDE DEF k, r
  <2> QED
    BY <1>2
<1>4. machine' = [machine EXCEPT !.replayJournal = rest]
  BY DEF Replay
<1> HIDE DEF rest
<1>5. machine' \in ReadyState /\ machine' \in MachineState
  BY <1>1, <1>3, <1>4 DEF ReadyState, MachineState
<1> QED
  BY <1>1, <1>4, <1>5, ReadyFields, QuietFrame DEF ReadyState, IInv, MemoryInv

\* The entries of an operation.
LEMMA EntriesType ==
    ASSUME NEW op \in Write \cup {NoOp}
    PROVE  JournalEntriesForUIOp(op) \in Seq(JournalEntry)
<1>1. CASE op \in Write
  <2>1. PICK k \in Key, v \in Value : op = PutOp(k, v)
    BY <1>1 DEF Write
  <2>2. JournalInsert(k, v) \in JournalEntry
    BY DEF JournalEntry
  <2>3. JournalEntriesForUIOp(op) = <<JournalInsert(k, v)>>
    BY <2>1 DEF JournalEntriesForUIOp, PutOp
  <2> QED
    BY <2>2, <2>3
<1>2. CASE op = NoOp
  BY <1>2 DEF JournalEntriesForUIOp, NoOp
<1> QED
  BY <1>1, <1>2

\* Appending the entries of an operation to the journal in memory keeps the invariant.
LEMMA AdvanceInv == IInv /\ AdvanceStep => IInv'
<1> SUFFICES ASSUME IInv, NEW op \in Write \cup {NoOp}, Advance(op), UNCHANGED dvars PROVE IInv'
  BY DEF AdvanceStep
<1>1. machine \in ReadyState /\ Ready
  BY Phases DEF Advance, IInv, Types
<1> DEFINE e == JournalEntriesForUIOp(op)
           m == machine.inMemoryJournal
           f == machine.inMemoryJournalFrozen
<1>2. e \in Seq(JournalEntry) /\ m \in Seq(JournalEntry) /\ f \in Seq(JournalEntry)
  BY <1>1, ReadyFields, EntriesType
<1>3. Len(f) + Len(m) + Len(e) <= MaxInMemory /\ machine' = [machine EXCEPT !.inMemoryJournal = m \o e]
  BY DEF Advance
<1> HIDE DEF e, m, f
<1>4. m \o e \in Seq(JournalEntry) /\ Len(m \o e) = Len(m) + Len(e) /\ Len(m) \in Nat /\ Len(e) \in Nat /\ Len(f) \in Nat
  BY <1>2
<1>5. machine' \in ReadyState /\ machine' \in MachineState
  BY <1>1, <1>3, <1>4 DEF ReadyState, MachineState
<1>6. machine'.inMemoryJournal = m \o e /\ machine'.inMemoryJournalFrozen = f
  BY <1>1, <1>3 DEF ReadyState, f
<1>7. Len(machine'.inMemoryJournalFrozen) + Len(machine'.inMemoryJournal) <= MaxInMemory
  <2>1. Len(f) + Len(m \o e) <= MaxInMemory
    <3>1. \A x, y, z \in Nat : x + y + z <= MaxInMemory => x + (y + z) <= MaxInMemory
      BY BoundsAssumption
    <3> QED
      BY <1>3, <1>4, <3>1, Zenon
  <2> QED
    BY <1>6, <2>1, Zenon
<1> QED
  BY <1>1, <1>3, <1>5, <1>7, ReadyFields, QuietFrame DEF ReadyState

\* Syncs may be requested and answered in every phase.
LEMMA SyncInv == IInv /\ (PushSyncReqStep \/ PopSyncReqStep) => IInv'
<1> SUFFICES ASSUME IInv, UNCHANGED dvars,
                    NEW id \in SyncId, NEW st \in SyncReqStatus,
                    machine' = [machine EXCEPT !.syncReqs[id] = st]
             PROVE  IInv'
  BY DEF PushSyncReqStep, PopSyncReqStep, PushSyncReq, PopSyncReq, SyncReqStatus
<1>1. CASE LoadingSuperblock
  <2>1. machine \in LoadingSuperblockState /\ ~LoadingOther /\ ~Ready
    BY <1>1, Phases DEF IInv, Types
  <2>2. machine' \in LoadingSuperblockState /\ machine' \in MachineState
    BY <2>1 DEF LoadingSuperblockState, MachineState
  <2> QED
    BY <2>1, <2>2, QuietFrame DEF LoadingSuperblockState
<1>2. CASE LoadingOther
  <2>1. machine \in LoadingOtherState /\ ~LoadingSuperblock /\ ~Ready
    BY <1>2, Phases DEF IInv, Types
  <2>2. machine' \in LoadingOtherState /\ machine' \in MachineState
    BY <2>1 DEF LoadingOtherState, MachineState
  <2> QED
    BY <2>1, <2>2, QuietFrame DEF LoadingOtherState
<1>3. CASE Ready
  <2>1. machine \in ReadyState /\ ~LoadingSuperblock /\ ~LoadingOther
    BY <1>3, Phases DEF IInv, Types
  <2>2. machine' \in ReadyState /\ machine' \in MachineState
    BY <2>1 DEF ReadyState, MachineState
  <2> QED
    BY <1>3, <2>1, <2>2, QuietFrame DEF ReadyState, IInv, MemoryInv
<1> QED
  BY <1>1, <1>2, <1>3, Phases DEF IInv, Types

\* Reads are started, answered or forgotten without the machine taking notice.
LEMMA ReadsFrame ==
    ASSUME IInv, UNCHANGED <<machine, reqWriteSuperblock, reqWriteJournals, superblock, journal>>,
           reqReadSuperblock' \in [Slot -> SUBSET ReqId],
           reqReadJournals' \in [ReqId -> IntervalSet \cup {None}],
           \A id \in ReqId : reqReadJournals'[id] \in {None, reqReadJournals[id]}
    PROVE  IInv'
<1>1. LoadingSuperblock' = LoadingSuperblock /\ LoadingOther' = LoadingOther /\ Ready' = Ready
  BY DEF LoadingSuperblock, LoadingOther, Ready
<1>2. Types'
  BY DEF IInv, Types, DiskTypes
<1>3. SuperblockWriteInv' /\ SuperblockInv' /\ MemoryInv'
  BY <1>1 DEF IInv, SuperblockWriteInv, Committing, AdvanceLogSuperblock, AdvanceLocationSuperblock,
     SuperblockInv, HasUpdateOccurredUnacked, MemoryInv
<1>4. ReadInv'
  BY <1>1 DEF IInv, ReadInv, FrontInterval, BackInterval
<1>5. JournalWriteInv' /\ ContentInv'
  BY <1>1 DEF IInv, JournalWriteInv, ContentInv, PersistentInterval, SuperblockOfDisk
<1> QED
  BY <1>2, <1>3, <1>4, <1>5 DEF IInv

\* A read the machine does not wait for changes requests only.
LEMMA NoOpInv == IInv /\ NoOpStep => IInv'
<1> SUFFICES ASSUME IInv, NoOpStep PROVE IInv'
  OBVIOUS
<1>0. UNCHANGED machine /\ DiskTypes
  BY DEF NoOpStep, IInv, Types
<1>1. CASE UNCHANGED dvars
  BY <1>0, <1>1, ReadsFrame DEF dvars, DiskTypes
<1>2. ASSUME NEW id \in ReqId, NEW which \in Slot, AckReadSuperblock(id, which, superblock[which])
      PROVE  IInv'
  <2>1. reqReadSuperblock' \in [Slot -> SUBSET ReqId]
    BY <1>0, <1>2 DEF AckReadSuperblock, DiskTypes
  <2> QED
    BY <1>0, <1>2, <2>1, ReadsFrame DEF AckReadSuperblock, DiskTypes
<1>3. ASSUME NEW id \in ReqId, AckReadJournal(id, None)
      PROVE  IInv'
  <2>1. reqReadJournals' = [reqReadJournals EXCEPT ![id] = None]
    BY <1>3 DEF AckReadJournal
  <2>2. /\ reqReadJournals' \in [ReqId -> IntervalSet \cup {None}]
        /\ \A i \in ReqId : reqReadJournals'[i] \in {None, reqReadJournals[i]}
    BY <1>0, <2>1 DEF DiskTypes
  <2> QED
    BY <1>0, <1>3, <2>2, ReadsFrame DEF AckReadJournal, DiskTypes
<1> QED
  BY <1>1, <1>2, <1>3 DEF NoOpStep

\* Steps of a ready machine that change nothing but what is frozen.
LEMMA FrozenFrame ==
    ASSUME IInv, Ready, UNCHANGED dvars, machine' \in ReadyState,
           machine'.superblockWrite = machine.superblockWrite,
           machine'.outstandingJournalWrites = machine.outstandingJournalWrites,
           machine'.writtenJournalLen = machine.writtenJournalLen,
           machine'.superblock = machine.superblock,
           machine'.whichSuperblock = machine.whichSuperblock,
           machine'.commitStatus = machine.commitStatus,
           machine'.newSuperblock = machine.newSuperblock,
           machine.commitStatus # "CommitAdvanceLocation",
           Committing => machine'.inMemoryJournalFrozen = machine.inMemoryJournalFrozen,
           MemoryInv',
           machine'.isFrozen =>
              Disk_HasJournal(journal,
                 Interval(JournalPosAdd(machine.superblock.journalStart, machine'.frozenJournalPosition),
                          machine.writtenJournalLen - machine'.frozenJournalPosition))
    PROVE  IInv'
<1>1. Ready' /\ ~LoadingSuperblock' /\ ~LoadingOther'
  BY DEF ReadyState, Ready, LoadingSuperblock, LoadingOther
<1>2. ~LoadingSuperblock /\ ~LoadingOther
  BY DEF Ready, LoadingSuperblock, LoadingOther
<1>3. Types'
  BY DEF IInv, Types, DiskTypes, MachineState, dvars
<1>4. SuperblockWriteInv'
  <2>1. Committing' = Committing /\ AdvanceLogSuperblock' = AdvanceLogSuperblock
    BY DEF Committing, AdvanceLogSuperblock
  <2> QED
    BY <1>1, <2>1 DEF IInv, SuperblockWriteInv, dvars
<1>5. SuperblockInv'
  BY <1>1, <1>2 DEF IInv, SuperblockInv, HasUpdateOccurredUnacked, dvars
<1>6. ReadInv' /\ JournalWriteInv'
  BY <1>1 DEF IInv, ReadInv, JournalWriteInv, dvars
<1>7. ContentInv'
  BY <1>1 DEF IInv, ContentInv, dvars
<1> QED
  BY <1>3, <1>4, <1>5, <1>6, <1>7 DEF IInv

\* Learning the location of the frozen state keeps the invariant.
LEMMA ReceiveFrozenLocInv == IInv /\ ReceiveFrozenLocStep => IInv'
<1> SUFFICES ASSUME IInv, NEW loc \in Loc, ReceiveFrozenLoc(loc), UNCHANGED dvars PROVE IInv'
  BY DEF ReceiveFrozenLocStep
<1>1. machine \in ReadyState /\ Ready /\ machine.isFrozen /\ machine.frozenLoc = NoLoc
  BY Phases DEF ReceiveFrozenLoc, IInv, Types
<1>2. machine' = [machine EXCEPT !.frozenLoc = loc]
  BY DEF ReceiveFrozenLoc
<1>3. machine' \in ReadyState
  BY <1>1, <1>2 DEF ReadyState
<1>4. machine.commitStatus # "CommitAdvanceLocation"
  BY <1>1 DEF IInv, SuperblockWriteInv
<1>5. MemoryInv'
  BY <1>1, <1>2 DEF IInv, MemoryInv, ReadyState
<1>6. Disk_HasJournal(journal,
         Interval(JournalPosAdd(machine.superblock.journalStart, machine.frozenJournalPosition),
                  machine.writtenJournalLen - machine.frozenJournalPosition))
  BY <1>1 DEF IInv, ContentInv
<1> QED
  BY <1>1, <1>2, <1>3, <1>4, <1>5, <1>6, FrozenFrame DEF ReadyState

\* What is kept of the sync requests is sync requests.
LEMMA SyncReqsTypes ==
    ASSUME NEW r \in [SyncId -> SyncReqStatus]
    PROVE  SyncReqs3to2(r) \in [SyncId -> SyncReqStatus] /\ SyncReqs2to1(r) \in [SyncId -> SyncReqStatus]
  BY DEF SyncReqs3to2, SyncReqs2to1, SyncReqStatus

\* The frozen journal starts out empty.
LEMMA FreezeInv == IInv /\ FreezeStep => IInv'
<1> SUFFICES ASSUME IInv, Freeze, UNCHANGED dvars PROVE IInv'
  BY DEF FreezeStep
<1>1. machine \in ReadyState /\ Ready /\ machine.superblockWrite = None
  BY Phases DEF Freeze, IInv, Types
<1> DEFINE m == machine.inMemoryJournal
           f == machine.inMemoryJournalFrozen
           written == machine.writtenJournalLen
           r == SyncReqs3to2(machine.syncReqs)
<1>2. /\ f \in Seq(JournalEntry) /\ m \in Seq(JournalEntry) /\ Len(f) + Len(m) <= MaxInMemory
      /\ written \in 0..NumJournalBlocks /\ machine.superblock.journalStart \in BlockIndex
      /\ r \in [SyncId -> SyncReqStatus]
  BY <1>1, ReadyFields, SyncReqsTypes DEF IInv, MemoryInv
<1>3. machine' = [machine EXCEPT !.frozenLoc = NoLoc,
                     !.inMemoryJournalFrozen = f \o m,
                     !.inMemoryJournal = << >>,
                     !.frozenJournalPosition = written,
                     !.syncReqs = r,
                     !.isFrozen = TRUE]
  BY DEF Freeze, EntriesFrozen
<1> HIDE DEF f, m, written, r
<1>4. f \o m \in Seq(JournalEntry) /\ Len(f \o m) = Len(f) + Len(m) /\ Len(f) \in Nat /\ Len(m) \in Nat
  BY <1>2
<1>5. machine' \in ReadyState
  <2> DEFINE fm == f \o m
  <2>1. fm \in Seq(JournalEntry) /\ << >> \in Seq(JournalEntry)
    BY <1>4
  <2> HIDE DEF fm
  <2>2. machine' = [machine EXCEPT !.frozenLoc = NoLoc, !.inMemoryJournalFrozen = fm,
                       !.inMemoryJournal = << >>, !.frozenJournalPosition = written,
                       !.syncReqs = r, !.isFrozen = TRUE]
    BY <1>3 DEF fm
  <2> QED
    BY <1>1, <1>2, <2>1, <2>2 DEF ReadyState
<1>6. ~Committing
  BY <1>1 DEF IInv, SuperblockWriteInv
<1>7. /\ machine'.inMemoryJournalFrozen = f \o m /\ machine'.inMemoryJournal = << >>
      /\ machine'.isFrozen /\ machine'.frozenJournalPosition = written
      /\ machine'.writtenJournalLen = written
  BY <1>1, <1>3 DEF ReadyState, written
<1>8. MemoryInv'
  <2>1. Len(f \o m) + Len(<< >>) <= MaxInMemory
    <3>1. \A x, y \in Nat : x + y <= MaxInMemory => (x + y) + 0 <= MaxInMemory
      BY BoundsAssumption
    <3>2. Len(<< >>) = 0
      OBVIOUS
    <3> QED
      BY <1>2, <1>4, <3>1, <3>2, Zenon
  <2>2. written <= written
    BY <1>2
  <2> QED
    BY <1>7, <2>1, <2>2 DEF MemoryInv
<1>9. Disk_HasJournal(journal,
         Interval(JournalPosAdd(machine.superblock.journalStart, written), written - written))
  <2>1. JournalPosAdd(machine.superblock.journalStart, written) \in BlockIndex /\ written - written = 0
    BY <1>2, PositionOfOffset
  <2> QED
    BY <2>1, EmptyJournal
<1> QED
  BY <1>1, <1>3, <1>5, <1>6, <1>7, <1>8, <1>9, FrozenFrame DEF ReadyState, Committing, written

\* A journal write is answered.
LEMMA WriteBackJournalRespInv == IInv /\ WriteBackJournalRespStep => IInv'
<1> SUFFICES ASSUME IInv, NEW id \in ReqId, WriteBackJournalResp(id), AckWriteJournal(id) PROVE IInv'
  BY DEF WriteBackJournalRespStep
<1>1. machine \in ReadyState /\ Ready /\ id \in machine.outstandingJournalWrites
  BY Phases DEF WriteBackJournalResp, IInv, Types
<1>2. machine' = [machine EXCEPT !.outstandingJournalWrites = @ \ {id}]
  BY DEF WriteBackJournalResp
<1>3. /\ reqWriteJournals' = [reqWriteJournals EXCEPT ![id] = None]
      /\ UNCHANGED <<reqReadSuperblock, reqReadJournals, reqWriteSuperblock, superblock, journal>>
  BY DEF AckWriteJournal
<1>4. machine' \in ReadyState
  BY <1>1, <1>2 DEF ReadyState
<1>5. Types'
  BY <1>3, <1>4 DEF IInv, Types, DiskTypes, MachineState
<1>6. Ready' /\ ~LoadingSuperblock' /\ ~LoadingOther' /\ ~LoadingSuperblock /\ ~LoadingOther
  BY <1>1, <1>4 DEF ReadyState, Ready, LoadingSuperblock, LoadingOther
<1>7. /\ machine'.superblockWrite = machine.superblockWrite
      /\ machine'.outstandingJournalWrites = machine.outstandingJournalWrites \ {id}
      /\ machine'.inMemoryJournalFrozen = machine.inMemoryJournalFrozen
      /\ machine'.inMemoryJournal = machine.inMemoryJournal
      /\ machine'.writtenJournalLen = machine.writtenJournalLen
      /\ machine'.frozenJournalPosition = machine.frozenJournalPosition
      /\ machine'.frozenLoc = machine.frozenLoc
      /\ machine'.isFrozen = machine.isFrozen
      /\ machine'.superblock = machine.superblock
      /\ machine'.whichSuperblock = machine.whichSuperblock
      /\ machine'.commitStatus = machine.commitStatus
      /\ machine'.newSuperblock = machine.newSuperblock
  BY <1>1, <1>2 DEF ReadyState
<1>8. SuperblockWriteInv'
  <2>1. /\ Committing' = Committing /\ AdvanceLogSuperblock' = AdvanceLogSuperblock
        /\ AdvanceLocationSuperblock' = AdvanceLocationSuperblock
    BY <1>7 DEF Committing, AdvanceLogSuperblock, AdvanceLocationSuperblock
  <2> QED
    BY <1>1, <1>3, <1>6, <1>7, <2>1 DEF IInv, SuperblockWriteInv
<1>9. SuperblockInv'
  BY <1>1, <1>3, <1>6, <1>7 DEF IInv, SuperblockInv, HasUpdateOccurredUnacked
<1>10. MemoryInv' /\ ReadInv'
  BY <1>1, <1>6, <1>7 DEF IInv, MemoryInv, ReadInv
<1>11. JournalWriteInv'
  <2>1. DiskTypes
    BY DEF IInv, Types
  <2>2. \A i \in ReqId : reqWriteJournals'[i] = IF i = id THEN None ELSE reqWriteJournals[i]
    BY <1>3, <2>1 DEF DiskTypes
  <2> QED
    BY <1>1, <1>6, <1>7, <2>2 DEF IInv, JournalWriteInv
<1>12. ContentInv'
  BY <1>1, <1>3, <1>6, <1>7 DEF IInv, ContentInv
<1> QED
  BY <1>5, <1>8, <1>9, <1>10, <1>11, <1>12 DEF IInv

\* A commit starts: a superblock of one of the two kinds is sent to the other slot.
LEMMA CommitStarts ==
    ASSUME IInv, CommitEnabled, NEW id \in ReqId, NEW sb \in SuperblockSet,
           NEW status \in {"CommitAdvanceLog", "CommitAdvanceLocation"},
           RecvWriteSuperblock(id, OtherSlot(machine.whichSuperblock), sb),
           machine' = [machine EXCEPT !.newSuperblock = sb, !.superblockWrite = id,
                                      !.commitStatus = status],
           status = "CommitAdvanceLog" => sb = AdvanceLogSuperblock,
           status = "CommitAdvanceLocation" => sb = AdvanceLocationSuperblock /\ machine.frozenLoc # NoLoc
    PROVE  IInv'
<1>1. machine \in ReadyState /\ Ready /\ ~Committing
  BY Phases DEF CommitEnabled, IInv, Types, Committing
<1>2. /\ machine.outstandingJournalWrites = {} /\ machine.inMemoryJournalFrozen = << >>
      /\ machine.newSuperblock = None /\ machine.whichSuperblock \in Slot
  BY <1>1, ReadyFields DEF CommitEnabled, IInv, SuperblockWriteInv
<1> DEFINE other == OtherSlot(machine.whichSuperblock)
<1>3. /\ reqWriteSuperblock' = [reqWriteSuperblock EXCEPT ![other] = [id |-> id, superblock |-> sb]]
      /\ UNCHANGED <<reqReadSuperblock, reqReadJournals, reqWriteJournals, superblock, journal>>
  BY DEF RecvWriteSuperblock
<1>4. machine' \in ReadyState
  BY <1>1 DEF ReadyState
<1>5. Types'
  BY <1>3, <1>4 DEF IInv, Types, DiskTypes, MachineState
<1>6. Ready' /\ ~LoadingSuperblock' /\ ~LoadingOther' /\ ~LoadingSuperblock /\ ~LoadingOther
  BY <1>1, <1>4 DEF ReadyState, Ready, LoadingSuperblock, LoadingOther
<1>7. /\ machine'.superblockWrite = id /\ machine'.newSuperblock = sb /\ machine'.commitStatus = status
      /\ machine'.outstandingJournalWrites = machine.outstandingJournalWrites
      /\ machine'.inMemoryJournalFrozen = machine.inMemoryJournalFrozen
      /\ machine'.inMemoryJournal = machine.inMemoryJournal
      /\ machine'.writtenJournalLen = machine.writtenJournalLen
      /\ machine'.frozenJournalPosition = machine.frozenJournalPosition
      /\ machine'.frozenLoc = machine.frozenLoc
      /\ machine'.isFrozen = machine.isFrozen
      /\ machine'.superblock = machine.superblock
      /\ machine'.whichSuperblock = machine.whichSuperblock
  BY <1>1 DEF ReadyState
<1>8. SuperblockWriteInv'
  <2>1. AdvanceLogSuperblock' = AdvanceLogSuperblock /\ AdvanceLocationSuperblock' = AdvanceLocationSuperblock
    BY <1>7 DEF AdvanceLogSuperblock, AdvanceLocationSuperblock
  <2>2. Committing'
    BY <1>7 DEF Committing
  <2>3. reqWriteSuperblock = [which \in Slot |-> None]
    BY <1>1 DEF IInv, SuperblockWriteInv
  <2>4. reqWriteSuperblock' = [which \in Slot |-> IF which = other THEN [id |-> id, superblock |-> sb] ELSE None]
    BY <1>3, <2>3
  <2>5. reqWriteSuperblock' =
                [which \in Slot |->
                    IF Committing' /\ which = OtherSlot(machine'.whichSuperblock)
                    THEN [id |-> machine'.superblockWrite, superblock |-> machine'.newSuperblock]
                    ELSE None]
    BY <1>7, <2>2, <2>4
  <2>6. id # None
    BY NoneAssumption
  <2> QED
    BY <1>2, <1>6, <1>7, <2>1, <2>2, <2>5, <2>6 DEF SuperblockWriteInv
<1>9. SuperblockInv'
  <2>1. ~HasUpdateOccurredUnacked
    BY <1>2 DEF HasUpdateOccurredUnacked
  <2> QED
    BY <1>1, <1>3, <1>6, <1>7, <2>1 DEF IInv, SuperblockInv
<1>10. MemoryInv' /\ ReadInv'
  BY <1>1, <1>6, <1>7 DEF IInv, MemoryInv, ReadInv
<1>11. JournalWriteInv' /\ ContentInv'
  BY <1>1, <1>3, <1>6, <1>7 DEF IInv, JournalWriteInv, ContentInv
<1> QED
  BY <1>5, <1>8, <1>9, <1>10, <1>11 DEF IInv

\* A superblock that covers all of the journal that is written.
LEMMA AdvanceLogReqInv == IInv /\ WriteBackSuperblockReq_AdvanceLog_Step => IInv'
<1> SUFFICES ASSUME IInv, NEW id \in ReqId, NEW which \in Slot,
                    WriteBackSuperblockReq_AdvanceLog(id, which, AdvanceLogSuperblock),
                    RecvWriteSuperblock(id, which, AdvanceLogSuperblock)
             PROVE  IInv'
  BY DEF WriteBackSuperblockReq_AdvanceLog_Step
<1>1. machine \in ReadyState /\ CommitEnabled /\ which = OtherSlot(machine.whichSuperblock)
  BY Phases DEF WriteBackSuperblockReq_AdvanceLog, IInv, Types, CommitEnabled
<1> DEFINE c == IncrementSuperblockCounter(machine.superblock.counter)
           sb == AdvanceLogSuperblock
<1>2. c \in 0 .. CounterModulus - 1
  BY <1>1, ReadyFields, CounterSteps
<1>3. sb \in SuperblockSet
  <2>1. sb = Superblock(c, machine.superblock.journalStart, machine.writtenJournalLen,
                        machine.superblock.indirectionTableLoc)
    BY DEF AdvanceLogSuperblock
  <2> HIDE DEF c, sb
  <2> QED
    BY <1>1, <1>2, <2>1, ReadyFields, SuperblockMade
<1>4. machine' = [machine EXCEPT !.newSuperblock = sb, !.superblockWrite = id,
                                 !.commitStatus = "CommitAdvanceLog"]
  BY DEF WriteBackSuperblockReq_AdvanceLog
<1>5. RecvWriteSuperblock(id, OtherSlot(machine.whichSuperblock), sb)
  BY <1>1
<1> DEFINE status == "CommitAdvanceLog"
<1>6. /\ status \in {"CommitAdvanceLog", "CommitAdvanceLocation"} /\ status # "CommitAdvanceLocation"
      /\ sb = AdvanceLogSuperblock
      /\ machine' = [machine EXCEPT !.newSuperblock = sb, !.superblockWrite = id, !.commitStatus = status]
  BY <1>4
<1> HIDE DEF sb, status
<1> QED
  BY <1>1, <1>3, <1>5, <1>6, CommitStarts

\* A superblock that names the frozen table and drops the journal before it.
LEMMA AdvanceLocationReqInv == IInv /\ WriteBackSuperblockReq_AdvanceLocation_Step => IInv'
<1> SUFFICES ASSUME IInv, NEW id \in ReqId, NEW which \in Slot,
                    WriteBackSuperblockReq_AdvanceLocation(id, which, AdvanceLocationSuperblock),
                    RecvWriteSuperblock(id, which, AdvanceLocationSuperblock)
             PROVE  IInv'
  BY DEF WriteBackSuperblockReq_AdvanceLocation_Step
<1>1. machine \in ReadyState /\ CommitEnabled /\ which = OtherSlot(machine.whichSuperblock)
  BY Phases DEF WriteBackSuperblockReq_AdvanceLocation, IInv, Types, CommitEnabled
<1> DEFINE c == IncrementSuperblockCounter(machine.superblock.counter)
           p == JournalPosAdd(machine.superblock.journalStart, machine.frozenJournalPosition)
           n == machine.writtenJournalLen - machine.frozenJournalPosition
           sb == AdvanceLocationSuperblock
<1>2. c \in 0 .. CounterModulus - 1
  BY <1>1, ReadyFields, CounterSteps
<1>3. /\ machine.frozenLoc # NoLoc /\ machine.frozenLoc \in Loc
      /\ machine.superblock.journalStart \in BlockIndex
      /\ machine.writtenJournalLen \in 0..NumJournalBlocks
      /\ machine.frozenJournalPosition \in 0..machine.writtenJournalLen
      /\ machine.frozenJournalPosition \in 0..NumJournalBlocks
  BY <1>1, ReadyFields DEF WriteBackSuperblockReq_AdvanceLocation
<1>4. p \in BlockIndex
  BY <1>3, PositionOfOffset
<1>5. n \in 0..NumJournalBlocks
  BY <1>3, NumJournalBlocksAssumption
<1>6. sb \in SuperblockSet
  <2>1. sb = Superblock(c, p, n, machine.frozenLoc)
    BY DEF AdvanceLocationSuperblock
  <2> HIDE DEF c, p, n, sb
  <2> QED
    BY <1>2, <1>3, <1>4, <1>5, <2>1, SuperblockMade
<1> DEFINE status == "CommitAdvanceLocation"
<1>7. /\ status \in {"CommitAdvanceLog", "CommitAdvanceLocation"} /\ status # "CommitAdvanceLog"
      /\ sb = AdvanceLocationSuperblock
      /\ machine' = [machine EXCEPT !.newSuperblock = sb, !.superblockWrite = id, !.commitStatus = status]
      /\ RecvWriteSuperblock(id, OtherSlot(machine.whichSuperblock), sb)
  BY <1>1 DEF WriteBackSuperblockReq_AdvanceLocation
<1> HIDE DEF sb, status
<1> QED
  BY <1>1, <1>3, <1>6, <1>7, CommitStarts

\* The write of the disk that makes a commit persistent, the first time it
\* happens or again.
LEMMA ProcessedWrite ==
    ASSUME IInv, NEW which \in Slot, ProcessWriteSuperblock(which)
    PROVE  /\ Ready /\ Committing /\ machine \in ReadyState
           /\ which = OtherSlot(machine.whichSuperblock)
           /\ superblock' = [superblock EXCEPT ![which] = machine.newSuperblock]
           /\ machine.newSuperblock \in SuperblockSet /\ machine.newSuperblock # None
<1>1. reqWriteSuperblock[which] # None
  BY DEF ProcessWriteSuperblock
<1>2. Ready
  BY <1>1 DEF IInv, SuperblockWriteInv, NoSuperblockWrites
<1>3. /\ Committing /\ which = OtherSlot(machine.whichSuperblock)
      /\ reqWriteSuperblock[which] = [id |-> machine.superblockWrite, superblock |-> machine.newSuperblock]
  BY <1>1, <1>2 DEF IInv, SuperblockWriteInv
<1>4. machine \in ReadyState
  BY <1>2, Phases DEF IInv, Types
<1>5. machine.newSuperblock # None /\ machine.newSuperblock \in SuperblockSet
  BY <1>2, <1>3, <1>4, CommitFields, ReadyFields DEF IInv
<1> QED
  BY <1>2, <1>3, <1>4, <1>5 DEF ProcessWriteSuperblock

\* A write that reaches the disk while its answer is outstanding keeps the invariant.
LEMMA DiskInternalInv == IInv /\ DiskInternal => IInv'
<1> SUFFICES ASSUME IInv, NEW which \in Slot, ProcessWriteSuperblock(which), UNCHANGED machine PROVE IInv'
  BY DEF DiskInternal
<1>1. UNCHANGED <<reqReadSuperblock, reqReadJournals, reqWriteSuperblock, reqWriteJournals, journal>>
  BY DEF ProcessWriteSuperblock, requests
<1>2. /\ Ready /\ machine \in ReadyState /\ machine.whichSuperblock \in Slot
      /\ which = OtherSlot(machine.whichSuperblock)
      /\ superblock' = [superblock EXCEPT ![which] = machine.newSuperblock]
      /\ machine.newSuperblock \in SuperblockSet /\ machine.newSuperblock # None
  BY ProcessedWrite, ReadyFields
<1>3. superblock \in [Slot -> SuperblockSet]
  BY DEF IInv, Types, DiskTypes
<1>4. /\ superblock' \in [Slot -> SuperblockSet] /\ superblock'[which] = machine.newSuperblock
      /\ superblock'[machine.whichSuperblock] = superblock[machine.whichSuperblock]
  BY <1>2, <1>3, OtherSlots
<1>5. Types'
  BY <1>1, <1>4 DEF IInv, Types, DiskTypes
<1>6. Ready' /\ ~LoadingSuperblock' /\ ~LoadingOther' /\ ~LoadingSuperblock /\ ~LoadingOther
  BY <1>2 DEF Ready, LoadingSuperblock, LoadingOther
<1>7. SuperblockWriteInv' /\ MemoryInv'
  BY <1>1, <1>2, <1>6 DEF IInv, SuperblockWriteInv, Committing, AdvanceLogSuperblock,
     AdvanceLocationSuperblock, MemoryInv
<1>8. SuperblockInv'
  <2>1. HasUpdateOccurredUnacked'
    BY <1>2, <1>4, <1>6 DEF HasUpdateOccurredUnacked
  <2> QED
    BY <1>2, <1>4, <1>6, <2>1 DEF IInv, SuperblockInv
<1>9. ReadInv' /\ JournalWriteInv' /\ ContentInv'
  BY <1>1, <1>2, <1>6 DEF IInv, ReadInv, JournalWriteInv, ContentInv
<1> QED
  BY <1>5, <1>7, <1>8, <1>9 DEF IInv

\* The machine learns that its commit is persistent.
LEMMA AckedWrite ==
    ASSUME IInv, Ready, NEW id \in ReqId, NEW which \in Slot, AckWriteSuperblock(id, which)
    PROVE  /\ Committing /\ HasUpdateOccurredUnacked
           /\ which = OtherSlot(machine.whichSuperblock)
           /\ superblock[which] = machine.newSuperblock
           /\ SelectSuperblockIndex(superblock) = which
           /\ reqWriteSuperblock' = [w \in Slot |-> None]
           /\ machine.outstandingJournalWrites = {} /\ machine.inMemoryJournalFrozen = << >>
           /\ machine.newSuperblock \in SuperblockSet
<1>1. reqWriteSuperblock[which] # None
  BY DEF AckWriteSuperblock
<1>2. /\ Committing /\ which = OtherSlot(machine.whichSuperblock)
      /\ reqWriteSuperblock[which] = [id |-> machine.superblockWrite, superblock |-> machine.newSuperblock]
      /\ machine.outstandingJournalWrites = {} /\ machine.inMemoryJournalFrozen = << >>
  BY <1>1 DEF IInv, SuperblockWriteInv
<1>3. superblock[which] = machine.newSuperblock
  BY <1>2 DEF AckWriteSuperblock
<1>4. machine \in ReadyState /\ machine.whichSuperblock \in Slot
  BY Phases, ReadyFields DEF IInv, Types
<1>5. machine.newSuperblock # None /\ machine.newSuperblock \in SuperblockSet
  BY <1>2, <1>4, CommitFields, ReadyFields DEF IInv
<1>6. HasUpdateOccurredUnacked
  BY <1>2, <1>3, <1>5 DEF HasUpdateOccurredUnacked
<1>7. SelectSuperblockIndex(superblock) = which
  BY <1>2, <1>6, ChosenSuperblock DEF IInv
<1>8. reqWriteSuperblock' = [w \in Slot |-> None]
  <2>1. reqWriteSuperblock = [w \in Slot |-> IF w = which THEN reqWriteSuperblock[which] ELSE None]
    BY <1>2 DEF IInv, SuperblockWriteInv
  <2>2. reqWriteSuperblock' = [reqWriteSuperblock EXCEPT ![which] = None]
    BY DEF AckWriteSuperblock
  <2> QED
    BY <2>1, <2>2
<1> QED
  BY <1>2, <1>3, <1>5, <1>6, <1>7, <1>8

\* A superblock write that is answered: the invariant for the machine that has adopted the new superblock.
LEMMA CommitEnds ==
    ASSUME IInv, Ready, NEW id \in ReqId, NEW which \in Slot, AckWriteSuperblock(id, which),
           machine' \in ReadyState,
           machine'.superblockWrite = None,
           machine'.superblock = machine.newSuperblock,
           machine'.newSuperblock = None,
           machine'.whichSuperblock = which,
           machine'.commitStatus = "CommitNone",
           machine'.outstandingJournalWrites = {},
           machine'.inMemoryJournalFrozen = << >>,
           MemoryInv', ContentInv'
    PROVE  IInv'
<1>1. /\ superblock[which] = machine.newSuperblock
      /\ SelectSuperblockIndex(superblock) = which
      /\ reqWriteSuperblock' = [w \in Slot |-> None]
      /\ machine.outstandingJournalWrites = {}
  BY AckedWrite
<1>2. UNCHANGED <<reqReadSuperblock, reqReadJournals, reqWriteJournals, superblock, journal>>
  BY DEF AckWriteSuperblock
<1>3. Types'
  BY <1>2 DEF IInv, Types, DiskTypes, MachineState
<1>4. Ready' /\ ~LoadingSuperblock' /\ ~LoadingOther'
  BY DEF ReadyState, Ready, LoadingSuperblock, LoadingOther
<1>5. SuperblockWriteInv'
  BY <1>1, <1>4 DEF SuperblockWriteInv, Committing
<1>6. SuperblockInv'
  BY <1>1, <1>2, <1>4 DEF SuperblockInv
<1>7. ReadInv'
  BY <1>4 DEF ReadInv
<1>8. JournalWriteInv'
  <2>1. \A i \in ReqId : reqWriteJournals[i] = None
    BY <1>1 DEF IInv, JournalWriteInv
  <2> QED
    BY <1>2, <1>4, <2>1 DEF JournalWriteInv
<1> QED
  BY <1>3, <1>5, <1>6, <1>7, <1>8 DEF IInv

\* Both kinds of commit keep the invariant when they end.
LEMMA WriteBackSuperblockRespInv == IInv /\ WriteBackSuperblockRespStep => IInv'
<1> SUFFICES ASSUME IInv, NEW id \in ReqId, NEW which \in Slot, AckWriteSuperblock(id, which),
                    WriteBackSuperblockResp_AdvanceLog(id) \/ WriteBackSuperblockResp_AdvanceLocation(id)
             PROVE  IInv'
  BY DEF WriteBackSuperblockRespStep
<1>1. Ready /\ machine \in ReadyState
  BY Phases DEF WriteBackSuperblockResp_AdvanceLog, WriteBackSuperblockResp_AdvanceLocation, IInv, Types
<1>2. /\ which = OtherSlot(machine.whichSuperblock)
      /\ machine.outstandingJournalWrites = {} /\ machine.inMemoryJournalFrozen = << >>
      /\ machine.newSuperblock \in SuperblockSet
  BY <1>1, AckedWrite
<1> DEFINE r == SyncReqs2to1(machine.syncReqs)
           start == machine.superblock.journalStart
           position == machine.frozenJournalPosition
           written == machine.writtenJournalLen
<1>3. /\ r \in [SyncId -> SyncReqStatus] /\ start \in BlockIndex
      /\ position \in 0..NumJournalBlocks /\ written \in 0..NumJournalBlocks
  BY <1>1, ReadyFields, SyncReqsTypes
<1>4. UNCHANGED journal
  BY DEF AckWriteSuperblock
<1>5. CASE WriteBackSuperblockResp_AdvanceLog(id)
  <2>1. machine' = [machine EXCEPT !.superblockWrite = None, !.superblock = machine.newSuperblock,
                                   !.newSuperblock = None, !.whichSuperblock = which,
                                   !.syncReqs = r, !.commitStatus = "CommitNone"]
    BY <1>2, <1>5 DEF WriteBackSuperblockResp_AdvanceLog
  <2> HIDE DEF r
  <2>2. machine' \in ReadyState
    BY <1>1, <1>2, <1>3, <2>1 DEF ReadyState
  <2>3. /\ machine'.superblockWrite = None /\ machine'.newSuperblock = None
        /\ machine'.superblock = machine.newSuperblock /\ machine'.whichSuperblock = which
        /\ machine'.commitStatus = "CommitNone"
        /\ machine'.outstandingJournalWrites = machine.outstandingJournalWrites
        /\ machine'.inMemoryJournalFrozen = machine.inMemoryJournalFrozen
        /\ machine'.inMemoryJournal = machine.inMemoryJournal
        /\ machine'.writtenJournalLen = machine.writtenJournalLen
        /\ machine'.frozenJournalPosition = machine.frozenJournalPosition
        /\ machine'.frozenLoc = machine.frozenLoc
        /\ machine'.isFrozen = machine.isFrozen
    BY <1>1, <2>1 DEF ReadyState
  <2>4. machine.newSuperblock.journalStart = start /\ machine.newSuperblock.journalLen = written
    BY <1>1, <1>5, CommitFields DEF IInv, WriteBackSuperblockResp_AdvanceLog
  <2>5. MemoryInv'
    BY <1>1, <2>3 DEF IInv, MemoryInv
  <2>6. ContentInv'
    <3>1. Ready' /\ written <= written
      BY <1>3, <2>2 DEF ReadyState, Ready
    <3> QED
      BY <1>1, <1>4, <2>3, <2>4, <3>1 DEF IInv, ContentInv
  <2> QED
    BY <1>1, <1>2, <2>2, <2>3, <2>5, <2>6, CommitEnds
<1>6. CASE WriteBackSuperblockResp_AdvanceLocation(id)
  <2> DEFINE n == written - position
             p == JournalPosAdd(start, position)
  <2>1. machine' = [machine EXCEPT !.superblockWrite = None, !.superblock = machine.newSuperblock,
                                   !.newSuperblock = None, !.whichSuperblock = which,
                                   !.syncReqs = r, !.writtenJournalLen = n,
                                   !.frozenJournalPosition = 0, !.frozenLoc = NoLoc,
                                   !.isFrozen = FALSE, !.commitStatus = "CommitNone"]
    BY <1>2, <1>6 DEF WriteBackSuperblockResp_AdvanceLocation
  <2>2. /\ machine.isFrozen /\ position <= written
        /\ machine.newSuperblock.journalStart = p /\ machine.newSuperblock.journalLen = n
    BY <1>1, <1>6, CommitFields DEF IInv, WriteBackSuperblockResp_AdvanceLocation
  <2>3. n \in 0..NumJournalBlocks /\ 0 \in 0..NumJournalBlocks /\ n <= n
    BY <1>3, <2>2, NumJournalBlocksAssumption
  <2>4. Disk_HasJournal(journal, Interval(p, n))
    BY <1>1, <2>2 DEF IInv, ContentInv
  <2> HIDE DEF r, n, p
  <2>5. machine' \in ReadyState
    BY <1>1, <1>2, <1>3, <2>1, <2>3 DEF ReadyState
  <2>6. /\ machine'.superblockWrite = None /\ machine'.newSuperblock = None
        /\ machine'.superblock = machine.newSuperblock /\ machine'.whichSuperblock = which
        /\ machine'.commitStatus = "CommitNone"
        /\ machine'.outstandingJournalWrites = machine.outstandingJournalWrites
        /\ machine'.inMemoryJournalFrozen = machine.inMemoryJournalFrozen
        /\ machine'.inMemoryJournal = machine.inMemoryJournal
        /\ machine'.writtenJournalLen = n
        /\ machine'.frozenLoc = NoLoc
        /\ machine'.isFrozen = FALSE
    BY <1>1, <2>1 DEF ReadyState
  <2>7. MemoryInv'
    BY <1>1, <1>2, <2>6 DEF IInv, MemoryInv
  <2>8. ContentInv'
    <3>1. Ready'
      BY <2>5 DEF ReadyState, Ready
    <3> QED
      BY <1>4, <2>2, <2>3, <2>4, <2>6, <3>1 DEF ContentInv
  <2> QED
    BY <1>1, <1>2, <2>5, <2>6, <2>7, <2>8, CommitEnds
<1> QED
  BY <1>5, <1>6

\* Offsets from two starts.
LEMMA OffsetShift ==
    ASSUME NEW start \in BlockIndex, NEW p \in 0..NumJournalBlocks, NEW b \in BlockIndex,
           p + Offset(b, JournalPosAdd(start, p)) < NumJournalBlocks
    PROVE  Offset(b, start) = p + Offset(b, JournalPosAdd(start, p))
  BY NumJournalBlocksAssumption DEF BlockIndex, JournalPosAdd, Offset

\* A part of a readable range is readable.
LEMMA SubRange ==
    ASSUME NEW j, NEW start \in BlockIndex, NEW len \in 0..NumJournalBlocks,
           NEW p \in 0..NumJournalBlocks, NEW q \in 0..NumJournalBlocks, p + q <= len,
           Disk_HasJournalRange(j, Interval(start, len))
    PROVE  Disk_HasJournalRange(j, Interval(JournalPosAdd(start, p), q))
<1> DEFINE next == JournalPosAdd(start, p)
<1>1. next \in BlockIndex
  BY PositionOfOffset
<1> SUFFICES ASSUME NEW b \in BlocksOf(Interval(next, q)) PROVE j[b] # None
  BY DEF Disk_HasJournalRange
<1>2. b \in BlockIndex
  BY DEF BlocksOf
<1> DEFINE o == Offset(b, next)
<1> HIDE DEF next
<1>3. o < q /\ o \in BlockIndex
  BY <1>1, <1>2, RangeByOffset, PositionOfOffset
<1>4. p + o < len /\ p + o < NumJournalBlocks
  BY <1>3, NumJournalBlocksAssumption DEF BlockIndex
<1>5. Offset(b, start) < len
  BY <1>2, <1>4, OffsetShift DEF next
<1> QED
  BY <1>2, <1>5, RangeByOffset DEF Disk_HasJournalRange

\* The two parts that a journal is read in.
LEMMA FrontBack ==
    ASSUME NEW start \in BlockIndex, NEW len \in 0..NumJournalBlocks
    PROVE  /\ len = 0 => JournalFrontInterval(start, len) = None /\ JournalBackInterval(start, len) = None
           /\ len # 0 /\ len <= NumJournalBlocks - start =>
                 /\ JournalFrontInterval(start, len) = Interval(start, len)
                 /\ JournalBackInterval(start, len) = None
           /\ len > NumJournalBlocks - start =>
                 /\ JournalFrontInterval(start, len) = Interval(start, NumJournalBlocks - start)
                 /\ JournalBackInterval(start, len) = Interval(0, len - (NumJournalBlocks - start))
           /\ JournalFrontInterval(start, len) \in IntervalSet \cup {None}
           /\ JournalBackInterval(start, len) \in IntervalSet \cup {None}
<1>1. /\ len = 0 => JournalFrontInterval(start, len) = None /\ JournalBackInterval(start, len) = None
      /\ len # 0 /\ len <= NumJournalBlocks - start =>
            /\ JournalFrontInterval(start, len) = Interval(start, len)
            /\ JournalBackInterval(start, len) = None
      /\ len > NumJournalBlocks - start =>
            /\ JournalFrontInterval(start, len) = Interval(start, NumJournalBlocks - start)
            /\ JournalBackInterval(start, len) = Interval(0, len - (NumJournalBlocks - start))
  BY NumJournalBlocksAssumption DEF BlockIndex, JournalFrontInterval, JournalBackInterval
<1>2. Interval(start, len) \in IntervalSet
  BY IntervalFields
<1>3. len > NumJournalBlocks - start =>
         /\ Interval(start, NumJournalBlocks - start) \in IntervalSet
         /\ Interval(0, len - (NumJournalBlocks - start)) \in IntervalSet
  BY NumJournalBlocksAssumption DEF BlockIndex, Interval, IntervalSet
<1>4. len = 0 \/ len <= NumJournalBlocks - start \/ len > NumJournalBlocks - start
  BY NumJournalBlocksAssumption DEF BlockIndex
<1> QED
  BY <1>1, <1>2, <1>3, <1>4

\* The fields of a machine that loads the journal.
LEMMA LoadingOtherFields ==
    ASSUME IInv, LoadingOther
    PROVE  /\ machine \in LoadingOtherState /\ ~Ready /\ ~LoadingSuperblock
           /\ machine.superblock = SuperblockOfDisk
           /\ machine.superblock \in SuperblockSet
           /\ machine.superblock.journalStart \in BlockIndex
           /\ machine.superblock.journalLen \in 0..NumJournalBlocks
           /\ PersistentInterval = Interval(machine.superblock.journalStart, machine.superblock.journalLen)
           /\ Disk_HasJournal(journal, Interval(machine.superblock.journalStart, machine.superblock.journalLen))
           /\ FrontInterval \in IntervalSet \cup {None}
           /\ BackInterval \in IntervalSet \cup {None}
<1>1. machine \in LoadingOtherState /\ ~Ready /\ ~LoadingSuperblock
  BY Phases DEF IInv, Types
<1>2. machine.superblock \in SuperblockSet
  BY <1>1 DEF LoadingOtherState
<1>3. machine.superblock.journalStart \in BlockIndex /\ machine.superblock.journalLen \in 0..NumJournalBlocks
  BY <1>2, SuperblockFields
<1>4. machine.superblock = SuperblockOfDisk
  BY ChosenSuperblock DEF IInv
<1>5. PersistentInterval = Interval(machine.superblock.journalStart, machine.superblock.journalLen)
  BY <1>4 DEF PersistentInterval
<1>6. Disk_HasJournal(journal, PersistentInterval)
  BY <1>1 DEF IInv, ContentInv
<1>7. FrontInterval \in IntervalSet \cup {None} /\ BackInterval \in IntervalSet \cup {None}
  BY <1>3, FrontBack DEF FrontInterval, BackInterval
<1> QED
  BY <1>1, <1>2, <1>3, <1>4, <1>5, <1>6, <1>7

\* The ranges that were read make up the persistent journal.
LEMMA FullRangeRead ==
    ASSUME IInv, LoadingOther,
           FrontInterval # None => machine.journalFront # None,
           BackInterval # None => machine.journalBack # None
    PROVE  FullRange = CyclicSlice(journal, PersistentInterval) /\ FullRange \in Seq(Block)
<1> DEFINE start == machine.superblock.journalStart
           len == machine.superblock.journalLen
           p == NumJournalBlocks - start
           q == len - p
<1>1. /\ start \in BlockIndex /\ len \in 0..NumJournalBlocks
      /\ PersistentInterval = Interval(start, len) /\ Disk_HasJournal(journal, Interval(start, len))
      /\ journal \in [BlockIndex -> Block \cup {None}]
  BY LoadingOtherFields DEF IInv, Types, DiskTypes
<1>2. FrontInterval = JournalFrontInterval(start, len) /\ BackInterval = JournalBackInterval(start, len)
  BY DEF FrontInterval, BackInterval
<1>3. /\ FrontInterval # None => machine.journalFront = CyclicSlice(journal, FrontInterval)
      /\ BackInterval # None => machine.journalBack = CyclicSlice(journal, BackInterval)
  BY DEF IInv, ReadInv
<1>4. Disk_HasJournalRange(journal, Interval(start, len))
  BY <1>1 DEF Disk_HasJournal
<1> HIDE DEF start, len
<1>5. CyclicSlice(journal, Interval(start, len)) \in Seq(Block)
  BY <1>1, <1>4, SliceType
<1>6. NumJournalBlocks \in Nat /\ p \in 0..NumJournalBlocks
  BY <1>1, NumJournalBlocksAssumption DEF BlockIndex
<1>7. Interval(start, len) # None
  BY <1>1, IntervalFields, NoneAssumption
<1>8. CASE len = 0
  <2>1. FrontInterval = None /\ BackInterval = None
    BY <1>1, <1>2, <1>8, FrontBack
  <2>2. FullRange = << >>
    BY <2>1 DEF FullRange
  <2>3. CyclicSlice(journal, Interval(start, len)) = << >>
    BY <1>1, <1>8, EmptyJournal
  <2> QED
    BY <1>1, <1>5, <2>2, <2>3
<1>9. CASE len # 0 /\ len <= p
  <2>1. FrontInterval = Interval(start, len) /\ BackInterval = None
    BY <1>1, <1>2, <1>9, FrontBack
  <2>2. FullRange = machine.journalFront
    BY <1>7, <2>1 DEF FullRange
  <2> QED
    BY <1>1, <1>3, <1>5, <1>7, <2>1, <2>2
<1>10. CASE len > p
  <2>1. FrontInterval = Interval(start, p) /\ BackInterval = Interval(0, q)
    BY <1>1, <1>2, <1>10, FrontBack
  <2>2. /\ q \in 0..NumJournalBlocks /\ p + q = len /\ p + q <= NumJournalBlocks /\ 0 + p <= len
        /\ p + q <= len /\ 0 \in BlockIndex /\ 0 \in 0..NumJournalBlocks
    BY <1>1, <1>6, <1>10, NumJournalBlocksAssumption DEF BlockIndex
  <2>3. JournalPosAdd(start, p) = 0 /\ JournalPosAdd(start, 0) = start
    BY <1>1, <1>6, NumJournalBlocksAssumption DEF JournalPosAdd, BlockIndex
  <2> HIDE DEF p, q
  <2>4. Interval(start, p) # None /\ Interval(0, q) # None
    BY <1>1, <1>6, <2>2, IntervalFields, NoneAssumption
  <2>5. FullRange = machine.journalFront \o machine.journalBack
    BY <2>1, <2>4 DEF FullRange
  <2>6. FullRange = CyclicSlice(journal, Interval(start, p)) \o CyclicSlice(journal, Interval(0, q))
    BY <1>3, <2>1, <2>4, <2>5
  <2>7. Disk_HasJournalRange(journal, Interval(start, p))
    <3>1. Disk_HasJournalRange(journal, Interval(JournalPosAdd(start, 0), p))
      BY <1>1, <1>4, <1>6, <2>2, SubRange
    <3> QED
      BY <2>3, <3>1
  <2>8. Disk_HasJournalRange(journal, Interval(JournalPosAdd(start, p), q))
    BY <1>1, <1>4, <1>6, <2>2, SubRange
  <2>9. CyclicSlice(journal, Interval(start, p + q))
           = CyclicSlice(journal, Interval(start, p)) \o CyclicSlice(journal, Interval(JournalPosAdd(start, p), q))
    BY <1>1, <1>6, <2>2, <2>7, <2>8, SliceConcat
  <2> QED
    BY <1>1, <1>5, <2>2, <2>3, <2>6, <2>9
<1>11. len = 0 \/ (len # 0 /\ len <= p) \/ len > p
  BY <1>1, <1>6
<1> QED
  BY <1>8, <1>9, <1>10, <1>11

\* Steps while the superblocks are being loaded.
LEMMA LoadingSuperblockFrame ==
    ASSUME IInv, LoadingSuperblock, machine' \in LoadingSuperblockState,
           UNCHANGED <<reqReadJournals, reqWriteSuperblock, reqWriteJournals, superblock, journal>>,
           reqReadSuperblock' \in [Slot -> SUBSET ReqId],
           \A which \in Slot : machine'.superblockRead[which].type = "SuperblockSuccess"
                                  => machine'.superblockRead[which] = Success(superblock[which])
    PROVE  IInv'
<1>1. LoadingSuperblock' /\ ~LoadingOther' /\ ~Ready' /\ ~Ready /\ ~LoadingOther
  BY DEF LoadingSuperblockState, LoadingSuperblock, LoadingOther, Ready
<1>2. Types'
  BY DEF IInv, Types, DiskTypes, MachineState
<1>3. SuperblockWriteInv' /\ MemoryInv' /\ ReadInv' /\ JournalWriteInv'
  BY <1>1 DEF IInv, SuperblockWriteInv, MemoryInv, ReadInv, JournalWriteInv
<1>4. SuperblockInv'
  BY <1>1 DEF SuperblockInv
<1>5. ContentInv'
  BY <1>1 DEF IInv, ContentInv, PersistentInterval, SuperblockOfDisk
<1> QED
  BY <1>2, <1>3, <1>4, <1>5 DEF IInv

\* Asking for a superblock keeps the invariant.
LEMMA PageInSuperblockReqInv == IInv /\ PageInSuperblockReqStep => IInv'
<1> SUFFICES ASSUME IInv, NEW id \in ReqId, NEW which \in Slot,
                    PageInSuperblockReq(id, which), RecvReadSuperblock(id, which)
             PROVE  IInv'
  BY DEF PageInSuperblockReqStep
<1>1. LoadingSuperblock /\ machine \in LoadingSuperblockState /\ DiskTypes
  BY Phases DEF PageInSuperblockReq, IInv, Types
<1>2. machine' = [machine EXCEPT !.outstandingRead[which] = id]
  BY DEF PageInSuperblockReq
<1>3. machine' \in LoadingSuperblockState /\ machine'.superblockRead = machine.superblockRead
  BY <1>1, <1>2 DEF LoadingSuperblockState
<1>4. reqReadSuperblock' \in [Slot -> SUBSET ReqId]
  BY <1>1 DEF RecvReadSuperblock, DiskTypes
<1> QED
  BY <1>1, <1>3, <1>4, LoadingSuperblockFrame DEF RecvReadSuperblock, IInv, SuperblockInv

\* A superblock that is read is the one on disk.
LEMMA PageInSuperblockRespInv == IInv /\ PageInSuperblockRespStep => IInv'
<1> SUFFICES ASSUME IInv, NEW id \in ReqId, NEW which \in Slot, NEW sb \in {None, superblock[which]},
                    PageInSuperblockResp(id, which, sb), AckReadSuperblock(id, which, sb)
             PROVE  IInv'
  BY DEF PageInSuperblockRespStep
<1>1. LoadingSuperblock /\ machine \in LoadingSuperblockState /\ DiskTypes
  BY Phases DEF PageInSuperblockResp, IInv, Types
<1> DEFINE read == IF sb # None /\ WFSuperblock(sb) THEN Success(sb) ELSE Corruption
<1>2. machine' = [machine EXCEPT !.outstandingRead[which] = None, !.superblockRead[which] = read]
  BY DEF PageInSuperblockResp
<1>3. superblock[which] \in SuperblockSet
  BY <1>1 DEF DiskTypes
<1>4. /\ read \in SuperblockReads
      /\ read.type = "SuperblockSuccess" => read = Success(superblock[which])
  BY <1>3 DEF SuperblockReads, Success, Corruption
<1> HIDE DEF read
<1>5. machine' \in LoadingSuperblockState
  BY <1>1, <1>2, <1>4 DEF LoadingSuperblockState
<1>6. \A w \in Slot : machine'.superblockRead[w] = IF w = which THEN read ELSE machine.superblockRead[w]
  BY <1>1, <1>2 DEF LoadingSuperblockState
<1>7. \A w \in Slot : machine'.superblockRead[w].type = "SuperblockSuccess"
                         => machine'.superblockRead[w] = Success(superblock[w])
  BY <1>1, <1>4, <1>6 DEF IInv, SuperblockInv
<1>8. reqReadSuperblock' \in [Slot -> SUBSET ReqId]
  BY <1>1 DEF AckReadSuperblock, DiskTypes
<1> QED
  BY <1>1, <1>5, <1>7, <1>8, LoadingSuperblockFrame DEF AckReadSuperblock

\* What was read of the superblocks is what the disk holds.
LEMMA SuperblocksRead ==
    ASSUME IInv, LoadingSuperblock,
           \A which \in Slot : machine.superblockRead[which].type = "SuperblockSuccess"
    PROVE  [which \in Slot |-> machine.superblockRead[which].value] = superblock
<1>1. ASSUME NEW which \in Slot PROVE machine.superblockRead[which].value = superblock[which]
  <2>1. machine.superblockRead[which] = Success(superblock[which])
    BY DEF IInv, SuperblockInv
  <2> QED
    BY <2>1 DEF Success
<1>2. superblock \in [Slot -> SuperblockSet]
  BY DEF IInv, Types, DiskTypes
<1> QED
  BY <1>1, <1>2

\* The superblock that is chosen is the one that recovery would choose.
LEMMA FinishLoadingSuperblockInv == IInv /\ FinishLoadingSuperblockPhaseStep => IInv'
<1> SUFFICES ASSUME IInv, NEW loc \in Loc, FinishLoadingSuperblockPhase(loc), UNCHANGED dvars PROVE IInv'
  BY DEF FinishLoadingSuperblockPhaseStep
<1>1. /\ LoadingSuperblock /\ machine \in LoadingSuperblockState /\ ~Ready /\ DiskTypes
      /\ \A which \in Slot : machine.superblockRead[which].type = "SuperblockSuccess"
  BY Phases DEF FinishLoadingSuperblockPhase, IInv, Types
<1> DEFINE sb == SelectSuperblock(superblock)
           index == SelectSuperblockIndex(superblock)
<1>2. machine' = [phase            |-> "LoadingOther",
                  superblock       |-> sb,
                  whichSuperblock  |-> index,
                  journalFrontRead |-> None,
                  journalBackRead  |-> None,
                  journalFront     |-> None,
                  journalBack      |-> None,
                  syncReqs         |-> machine.syncReqs]
  BY <1>1, SuperblocksRead DEF FinishLoadingSuperblockPhase
<1>3. index \in Slot /\ sb = superblock[index] /\ sb \in SuperblockSet
  BY <1>1, SelectType DEF SelectSuperblock, DiskTypes
<1> HIDE DEF sb, index
<1>4. machine' \in LoadingOtherState
  BY <1>1, <1>2, <1>3 DEF LoadingOtherState, LoadingSuperblockState
<1>5. LoadingOther' /\ ~LoadingSuperblock' /\ ~Ready'
  BY <1>2 DEF LoadingSuperblock, LoadingOther, Ready
<1>6. Types'
  BY <1>4 DEF IInv, Types, DiskTypes, MachineState, dvars
<1>7. SuperblockWriteInv' /\ MemoryInv' /\ JournalWriteInv'
  BY <1>1, <1>5 DEF IInv, SuperblockWriteInv, MemoryInv, JournalWriteInv, dvars
<1>8. SuperblockInv'
  BY <1>2, <1>3, <1>5 DEF SuperblockInv, dvars, index
<1>9. ReadInv'
  BY <1>2, NoneAssumption DEF ReadInv
<1>10. ContentInv'
  BY <1>1, <1>5 DEF IInv, ContentInv, PersistentInterval, SuperblockOfDisk, dvars
<1> QED
  BY <1>6, <1>7, <1>8, <1>9, <1>10 DEF IInv

\* Steps while the journal is being loaded.
LEMMA LoadingOtherFrame ==
    ASSUME IInv, LoadingOther, machine' \in LoadingOtherState,
           machine'.superblock = machine.superblock,
           machine'.whichSuperblock = machine.whichSuperblock,
           UNCHANGED <<reqReadSuperblock, reqWriteSuperblock, reqWriteJournals, superblock, journal>>,
           reqReadJournals' \in [ReqId -> IntervalSet \cup {None}],
           ReadInv'
    PROVE  IInv'
<1>1. LoadingOther' /\ ~LoadingSuperblock' /\ ~Ready' /\ ~Ready /\ ~LoadingSuperblock
  BY DEF LoadingOtherState, LoadingSuperblock, LoadingOther, Ready
<1>2. Types'
  BY DEF IInv, Types, DiskTypes, MachineState
<1>3. SuperblockWriteInv' /\ MemoryInv' /\ JournalWriteInv'
  BY <1>1 DEF IInv, SuperblockWriteInv, MemoryInv, JournalWriteInv
<1>4. SuperblockInv'
  BY <1>1 DEF IInv, SuperblockInv, HasUpdateOccurredUnacked
<1>5. ContentInv'
  BY <1>1 DEF IInv, ContentInv, PersistentInterval, SuperblockOfDisk
<1> QED
  BY <1>2, <1>3, <1>4, <1>5 DEF IInv

\* Asking for a part of the journal keeps the invariant.
LEMMA PageInJournalReqInv == IInv /\ PageInJournalReqStep => IInv'
<1> SUFFICES ASSUME IInv, LoadingOther, NEW id \in ReqId,
                    \/ PageInJournalFrontReq(id, FrontInterval) /\ RecvReadJournal(id, FrontInterval)
                    \/ PageInJournalBackReq(id, BackInterval) /\ RecvReadJournal(id, BackInterval)
             PROVE  IInv'
  BY DEF PageInJournalReqStep
<1>1. /\ machine \in LoadingOtherState /\ DiskTypes
      /\ FrontInterval \in IntervalSet \cup {None} /\ BackInterval \in IntervalSet \cup {None}
  BY LoadingOtherFields DEF IInv, Types
<1>2. id # None
  BY NoneAssumption
<1>3. CASE PageInJournalFrontReq(id, FrontInterval) /\ RecvReadJournal(id, FrontInterval)
  <2>1. machine' = [machine EXCEPT !.journalFrontRead = id, !.journalBackRead = IF @ = id THEN None ELSE @]
    BY <1>3 DEF PageInJournalFrontReq
  <2>2. machine' \in LoadingOtherState
    BY <1>1, <2>1 DEF LoadingOtherState
  <2>3. /\ machine'.superblock = machine.superblock /\ machine'.whichSuperblock = machine.whichSuperblock
        /\ machine'.journalFrontRead = id
        /\ machine'.journalBackRead = IF machine.journalBackRead = id THEN None ELSE machine.journalBackRead
        /\ machine'.journalFront = machine.journalFront /\ machine'.journalBack = machine.journalBack
    BY <1>1, <2>1 DEF LoadingOtherState
  <2>4. FrontInterval' = FrontInterval /\ BackInterval' = BackInterval
    BY <2>3 DEF FrontInterval, BackInterval
  <2>5. /\ reqReadJournals' = [reqReadJournals EXCEPT ![id] = FrontInterval]
        /\ UNCHANGED <<reqReadSuperblock, reqWriteSuperblock, reqWriteJournals, superblock, journal>>
    BY <1>3 DEF RecvReadJournal
  <2>6. /\ reqReadJournals' \in [ReqId -> IntervalSet \cup {None}]
        /\ \A i \in ReqId : reqReadJournals'[i] = IF i = id THEN FrontInterval ELSE reqReadJournals[i]
    BY <1>1, <2>5 DEF DiskTypes
  <2>7. ReadInv'
    <3>1. FrontInterval # None
      BY <1>3 DEF PageInJournalFrontReq
    <3> QED
      BY <1>2, <2>3, <2>4, <2>5, <2>6, <3>1, NoneAssumption DEF IInv, ReadInv
  <2> QED
    BY <2>2, <2>3, <2>5, <2>6, <2>7, LoadingOtherFrame
<1>4. CASE PageInJournalBackReq(id, BackInterval) /\ RecvReadJournal(id, BackInterval)
  <2>1. machine' = [machine EXCEPT !.journalBackRead = id, !.journalFrontRead = IF @ = id THEN None ELSE @]
    BY <1>4 DEF PageInJournalBackReq
  <2>2. machine' \in LoadingOtherState
    BY <1>1, <2>1 DEF LoadingOtherState
  <2>3. /\ machine'.superblock = machine.superblock /\ machine'.whichSuperblock = machine.whichSuperblock
        /\ machine'.journalBackRead = id
        /\ machine'.journalFrontRead = IF machine.journalFrontRead = id THEN None ELSE machine.journalFrontRead
        /\ machine'.journalFront = machine.journalFront /\ machine'.journalBack = machine.journalBack
    BY <1>1, <2>1 DEF LoadingOtherState
  <2>4. FrontInterval' = FrontInterval /\ BackInterval' = BackInterval
    BY <2>3 DEF FrontInterval, BackInterval
  <2>5. /\ reqReadJournals' = [reqReadJournals EXCEPT ![id] = BackInterval]
        /\ UNCHANGED <<reqReadSuperblock, reqWriteSuperblock, reqWriteJournals, superblock, journal>>
    BY <1>4 DEF RecvReadJournal
  <2>6. /\ reqReadJournals' \in [ReqId -> IntervalSet \cup {None}]
        /\ \A i \in ReqId : reqReadJournals'[i] = IF i = id THEN BackInterval ELSE reqReadJournals[i]
    BY <1>1, <2>5 DEF DiskTypes
  <2>7. ReadInv'
    <3>1. BackInterval # None
      BY <1>4 DEF PageInJournalBackReq
    <3> QED
      BY <1>2, <2>3, <2>4, <2>5, <2>6, <3>1, NoneAssumption DEF IInv, ReadInv
  <2> QED
    BY <2>2, <2>3, <2>5, <2>6, <2>7, LoadingOtherFrame
<1> QED
  BY <1>3, <1>4

\* A response to a read carries the blocks of the interval that was asked for.
LEMMA RangeRead ==
    ASSUME IInv, NEW i \in IntervalSet, Disk_HasJournalRange(journal, i)
    PROVE  CyclicSlice(journal, i) \in Seq(Block)
<1>1. PICK start \in BlockIndex, len \in 0..NumJournalBlocks : i = Interval(start, len)
  BY DEF IntervalSet, Interval
<1> QED
  BY <1>1, SliceType DEF IInv, Types, DiskTypes

\* The part of the journal that is read is the one on disk.
LEMMA PageInJournalRespInv == IInv /\ PageInJournalRespStep => IInv'
<1> SUFFICES ASSUME IInv, NEW id \in ReqId, NEW jr, AckReadJournal(id, jr),
                    PageInJournalFrontResp(id, jr) \/ PageInJournalBackResp(id, jr)
             PROVE  IInv'
  BY DEF PageInJournalRespStep
<1>1. LoadingOther /\ jr # None
  BY DEF PageInJournalFrontResp, PageInJournalBackResp
<1>2. machine \in LoadingOtherState /\ DiskTypes
  BY <1>1, LoadingOtherFields DEF IInv, Types
<1>3. /\ reqReadJournals[id] # None /\ jr = CyclicSlice(journal, reqReadJournals[id])
      /\ Disk_HasJournalRange(journal, reqReadJournals[id])
      /\ reqReadJournals' = [reqReadJournals EXCEPT ![id] = None]
      /\ UNCHANGED <<reqReadSuperblock, reqWriteSuperblock, reqWriteJournals, superblock, journal>>
  BY <1>1 DEF AckReadJournal
<1>4. /\ reqReadJournals' \in [ReqId -> IntervalSet \cup {None}]
      /\ \A i \in ReqId : reqReadJournals'[i] = IF i = id THEN None ELSE reqReadJournals[i]
  BY <1>2, <1>3 DEF DiskTypes
<1>5. jr \in Seq(Block)
  BY <1>2, <1>3, RangeRead DEF DiskTypes
<1>6. CASE PageInJournalFrontResp(id, jr)
  <2>1. machine' = [machine EXCEPT !.journalFrontRead = None, !.journalFront = jr] /\ machine.journalFrontRead = id
    BY <1>6 DEF PageInJournalFrontResp
  <2>2. machine' \in LoadingOtherState
    BY <1>2, <1>5, <2>1 DEF LoadingOtherState
  <2>3. /\ machine'.superblock = machine.superblock /\ machine'.whichSuperblock = machine.whichSuperblock
        /\ machine'.journalFrontRead = None
        /\ machine'.journalBackRead = machine.journalBackRead
        /\ machine'.journalFront = jr /\ machine'.journalBack = machine.journalBack
    BY <1>2, <2>1 DEF LoadingOtherState
  <2>4. FrontInterval' = FrontInterval /\ BackInterval' = BackInterval
    BY <2>3 DEF FrontInterval, BackInterval
  <2>5. reqReadJournals[id] = FrontInterval
    BY <1>1, <1>3, <2>1 DEF IInv, ReadInv
  <2>6. ReadInv'
    BY <1>1, <1>3, <1>4, <2>3, <2>4, <2>5, NoneAssumption DEF IInv, ReadInv
  <2> QED
    BY <1>1, <1>3, <1>4, <2>2, <2>3, <2>6, LoadingOtherFrame
<1>7. CASE PageInJournalBackResp(id, jr)
  <2>1. machine' = [machine EXCEPT !.journalBackRead = None, !.journalBack = jr] /\ machine.journalBackRead = id
    BY <1>7 DEF PageInJournalBackResp
  <2>2. machine' \in LoadingOtherState
    BY <1>2, <1>5, <2>1 DEF LoadingOtherState
  <2>3. /\ machine'.superblock = machine.superblock /\ machine'.whichSuperblock = machine.whichSuperblock
        /\ machine'.journalBackRead = None
        /\ machine'.journalFrontRead = machine.journalFrontRead
        /\ machine'.journalBack = jr /\ machine'.journalFront = machine.journalFront
    BY <1>2, <2>1 DEF LoadingOtherState
  <2>4. FrontInterval' = FrontInterval /\ BackInterval' = BackInterval
    BY <2>3 DEF FrontInterval, BackInterval
  <2>5. reqReadJournals[id] = BackInterval
    BY <1>1, <1>3, <2>1 DEF IInv, ReadInv
  <2>6. ReadInv'
    BY <1>1, <1>3, <1>4, <2>3, <2>4, <2>5, NoneAssumption DEF IInv, ReadInv
  <2> QED
    BY <1>1, <1>3, <1>4, <2>2, <2>3, <2>6, LoadingOtherFrame
<1> QED
  BY <1>6, <1>7

\* A machine that has parsed the journal it read is in step with the disk.
LEMMA FinishLoadingOtherInv == IInv /\ FinishLoadingOtherPhaseStep => IInv'
<1> SUFFICES ASSUME IInv, FinishLoadingOtherPhase, UNCHANGED dvars PROVE IInv'
  BY DEF FinishLoadingOtherPhaseStep
<1>1. /\ LoadingOther
      /\ FrontInterval # None => machine.journalFront # None
      /\ BackInterval # None => machine.journalBack # None
  BY DEF FinishLoadingOtherPhase
<1> DEFINE replay == ParseJournalRange(FullRange)
           len == machine.superblock.journalLen
<1>2. replay \in Seq(JournalEntry)
  BY <1>1, FullRangeRead, ParseType
<1>3. /\ machine \in LoadingOtherState /\ ~Ready /\ ~LoadingSuperblock
      /\ machine.superblock \in SuperblockSet /\ machine.superblock.journalLen \in 0..NumJournalBlocks
      /\ Disk_HasJournal(journal, Interval(machine.superblock.journalStart, machine.superblock.journalLen))
  BY <1>1, LoadingOtherFields
<1>4. PICK position \in UnsetPositions :
          machine' = [phase                    |-> "Ready",
                      frozenLoc                |-> NoLoc,
                      isFrozen                 |-> FALSE,
                      frozenJournalPosition    |-> position,
                      superblockWrite          |-> None,
                      inMemoryJournalFrozen    |-> << >>,
                      inMemoryJournal          |-> << >>,
                      outstandingJournalWrites |-> {},
                      writtenJournalLen        |-> len,
                      replayJournal            |-> replay,
                      superblock               |-> machine.superblock,
                      whichSuperblock          |-> machine.whichSuperblock,
                      commitStatus             |-> "CommitNone",
                      newSuperblock            |-> None,
                      syncReqs                 |-> machine.syncReqs]
  BY DEF FinishLoadingOtherPhase
<1>5. position \in 0..NumJournalBlocks
  BY BoundsAssumption
<1> HIDE DEF replay
<1>6. machine' \in ReadyState
  BY <1>2, <1>3, <1>4, <1>5 DEF ReadyState, LoadingOtherState
<1>7. Ready' /\ ~LoadingSuperblock' /\ ~LoadingOther'
  BY <1>4 DEF Ready, LoadingSuperblock, LoadingOther
<1>8. Types'
  BY <1>6 DEF IInv, Types, DiskTypes, MachineState, dvars
<1>9. SuperblockWriteInv'
  <2>1. reqWriteSuperblock' = [which \in Slot |-> None]
    BY <1>3 DEF IInv, SuperblockWriteInv, dvars, NoSuperblockWrites
  <2> QED
    BY <1>4, <1>7, <2>1 DEF SuperblockWriteInv, Committing
<1>10. SuperblockInv'
  <2>1. ~HasUpdateOccurredUnacked
    BY <1>3 DEF HasUpdateOccurredUnacked
  <2> QED
    BY <1>3, <1>4, <1>7, <2>1 DEF IInv, SuperblockInv, dvars
<1>11. MemoryInv'
  <2>1. Len(<< >>) + Len(<< >>) <= MaxInMemory
    BY BoundsAssumption
  <2> QED
    BY <1>4, <2>1 DEF MemoryInv
<1>12. ReadInv'
  BY <1>7 DEF ReadInv
<1>13. JournalWriteInv'
  <2>1. \A id \in ReqId : reqWriteJournals'[id] = None
    BY <1>3 DEF IInv, JournalWriteInv, dvars, NoJournalRequests
  <2> QED
    BY <1>4, <1>7, <2>1 DEF JournalWriteInv
<1>14. ContentInv'
  <2>1. len <= len
    BY <1>3
  <2> QED
    BY <1>3, <1>4, <1>7, <2>1 DEF ContentInv, dvars
<1> QED
  BY <1>8, <1>9, <1>10, <1>11, <1>12, <1>13, <1>14 DEF IInv

\* A crash loses no block of the persistent journal.
LEMMA CrashKeeps ==
    ASSUME IInv, DCrash
    PROVE  /\ journal' \in [BlockIndex -> Block \cup {None}]
           /\ \A b \in BlocksOf(PersistentInterval) : journal'[b] = journal[b]
           /\ Disk_HasJournal(journal', PersistentInterval)
           /\ CyclicSlice(journal', PersistentInterval) = CyclicSlice(journal, PersistentInterval)
<1>0. PICK lost \in SUBSET {b \in BlockIndex : ~JournalUntouched(b)} :
         \E havoc \in [lost -> HavocBlock] :
            journal' = [b \in BlockIndex |-> IF b \in lost THEN havoc[b] ELSE journal[b]]
  BY DEF DCrash
<1>1. PICK havoc \in [lost -> HavocBlock] :
         journal' = [b \in BlockIndex |-> IF b \in lost THEN havoc[b] ELSE journal[b]]
  BY <1>0
<1>2. journal \in [BlockIndex -> Block \cup {None}] /\ superblock \in [Slot -> SuperblockSet]
  BY DEF IInv, Types, DiskTypes
<1>3. journal' \in [BlockIndex -> Block \cup {None}]
  BY <1>1, <1>2, HavocAssumption
<1>4. ASSUME NEW b \in BlocksOf(PersistentInterval)
      PROVE  journal'[b] = journal[b]
  <2>1. b \in BlockIndex
    BY DEF BlocksOf
  <2>2. ASSUME NEW id \in ReqId, reqWriteJournals[id] # None PROVE ~InCyclicRange(b, reqWriteJournals[id])
    <3>1. BlocksOf(reqWriteJournals[id]) \cap BlocksOf(PersistentInterval) = {}
      BY <2>2, WritesAvoidFollows DEF WritesAvoidPersistentJournal
    <3> QED
      BY <1>4, <2>1, <3>1 DEF BlocksOf
  <2>3. b \notin lost
    BY <1>0, <2>2 DEF JournalUntouched
  <2> QED
    BY <1>1, <2>1, <2>3
<1> DEFINE start == SuperblockOfDisk.journalStart
           len == SuperblockOfDisk.journalLen
<1>5. SuperblockOfDisk \in SuperblockSet
  BY <1>2, SelectType DEF SuperblockOfDisk, SelectSuperblock
<1>6. start \in BlockIndex /\ len \in 0..NumJournalBlocks /\ PersistentInterval = Interval(start, len)
  BY <1>5, SuperblockFields DEF PersistentInterval
<1> HIDE DEF start, len
<1>7. CyclicSlice(journal', PersistentInterval) = CyclicSlice(journal, PersistentInterval)
  BY <1>4, <1>6, SliceSame
<1>8. Disk_HasJournal(journal, PersistentInterval)
  BY JournalsReadableFollows DEF JournalsReadable
<1> QED
  BY <1>3, <1>4, <1>7, <1>8 DEF Disk_HasJournal, Disk_HasJournalRange

\* After a crash the disk alone satisfies the invariant: requests are gone, nothing is in memory.
LEMMA CrashInv == IInv /\ Crash => IInv'
<1> SUFFICES ASSUME IInv, machine' = StartState, DCrash PROVE IInv'
  BY DEF Crash
<1>1. machine' \in LoadingSuperblockState
  BY DEF StartState, LoadingSuperblockState, SuperblockReads, NoSyncReqs, SyncReqStatus
<1>2. LoadingSuperblock' /\ ~Ready' /\ ~LoadingOther'
  BY DEF StartState, LoadingSuperblock, Ready, LoadingOther
<1>3. /\ reqReadSuperblock' = NoSuperblockReads /\ reqReadJournals' = NoJournalRequests
      /\ reqWriteSuperblock' = NoSuperblockWrites /\ reqWriteJournals' = NoJournalRequests
      /\ superblock' = superblock
  BY DEF DCrash
<1>4. journal' \in [BlockIndex -> Block \cup {None}] /\ Disk_HasJournal(journal', PersistentInterval)
  BY CrashKeeps
<1>5. Types'
  BY <1>1, <1>3, <1>4 DEF IInv, Types, DiskTypes, MachineState, NoSuperblockReads, NoJournalRequests
<1>6. SuperblockWriteInv' /\ MemoryInv' /\ ReadInv' /\ JournalWriteInv'
  BY <1>2, <1>3 DEF SuperblockWriteInv, MemoryInv, ReadInv, JournalWriteInv
<1>7. SuperblockInv'
  BY <1>2 DEF SuperblockInv, StartState, Unfinished
<1>8. ContentInv'
  BY <1>2, <1>3, <1>4 DEF ContentInv, PersistentInterval, SuperblockOfDisk
<1> QED
  BY <1>5, <1>6, <1>7, <1>8 DEF IInv

\* A write behind a range touches none of its blocks.
LEMMA WriteBehind ==
    ASSUME NEW start \in BlockIndex, NEW w \in 0..NumJournalBlocks, NEW n \in Nat,
           w + n <= NumJournalBlocks, NEW b \in BlocksOf(Interval(JournalPosAdd(start, w), n))
    PROVE  /\ b \in BlockIndex
           /\ w <= Offset(b, start) /\ Offset(b, start) < w + n
<1> DEFINE next == JournalPosAdd(start, w)
           o == Offset(b, next)
<1>1. next \in BlockIndex /\ b \in BlockIndex
  BY PositionOfOffset DEF BlocksOf
<1>2. n \in 0..NumJournalBlocks
  BY NumJournalBlocksAssumption
<1> HIDE DEF next
<1>3. o < n /\ o \in BlockIndex
  BY <1>1, <1>2, RangeByOffset, PositionOfOffset DEF next
<1>4. w + o < NumJournalBlocks /\ w <= w + o /\ w + o < w + n
  BY <1>3, NumJournalBlocksAssumption DEF BlockIndex
<1>5. Offset(b, start) = w + o
  BY <1>1, <1>4, OffsetShift DEF next
<1> QED
  BY <1>1, <1>4, <1>5

\* What a write behind a range leaves of it, and of the ranges that it starts.
LEMMA KeptBefore ==
    ASSUME NEW j \in [BlockIndex -> Block \cup {None}], NEW start \in BlockIndex,
           NEW w \in 0..NumJournalBlocks, NEW jr \in Seq(Block), w + Len(jr) <= NumJournalBlocks,
           NEW k \in 0..w, NEW jj, jj = JournalUpdate(j, Interval(JournalPosAdd(start, w), Len(jr)), jr)
    PROVE  /\ CyclicSlice(jj, Interval(start, k)) = CyclicSlice(j, Interval(start, k))
           /\ Disk_HasJournalRange(j, Interval(start, k)) => Disk_HasJournalRange(jj, Interval(start, k))
<1> DEFINE next == JournalPosAdd(start, w)
           n == Len(jr)
<1>1. next \in BlockIndex
  BY PositionOfOffset
<1>2. n \in Nat
  OBVIOUS
<1> HIDE DEF next, n
<1>3. n <= NumJournalBlocks /\ n \in 0..NumJournalBlocks /\ k \in 0..NumJournalBlocks
  BY <1>2, NumJournalBlocksAssumption DEF n
<1>4. ASSUME NEW b \in BlocksOf(Interval(start, k)) PROVE jj[b] = j[b]
  <2>1. b \in BlockIndex
    BY DEF BlocksOf
  <2>2. Offset(b, start) < k /\ Offset(b, start) \in BlockIndex /\ Offset(b, next) \in BlockIndex
    BY <1>1, <1>3, <1>4, <2>1, RangeByOffset, PositionOfOffset
  <2>3. b \notin BlocksOf(Interval(next, n))
    <3>1. ASSUME b \in BlocksOf(Interval(next, n)) PROVE FALSE
      <4>1. w <= Offset(b, start)
        BY <1>2, <3>1, WriteBehind DEF next, n
      <4> QED
        BY <2>2, <4>1, NumJournalBlocksAssumption DEF BlockIndex
    <3> QED
      BY <3>1
  <2>4. ~(Offset(b, next) < n)
    BY <1>1, <1>3, <2>1, <2>3, RangeByOffset
  <2>5. Offset(b, next) >= n
    BY <1>2, <2>2, <2>4, NumJournalBlocksAssumption DEF BlockIndex
  <2>6. Offset(b, next) >= Len(jr) /\ Len(jr) <= NumJournalBlocks /\ jj = JournalUpdate(j, Interval(next, Len(jr)), jr)
    BY <1>3, <2>5 DEF n, next
  <2> QED
    BY <1>1, <2>1, <2>6, UpdateBlocks
<1>5. CyclicSlice(jj, Interval(start, k)) = CyclicSlice(j, Interval(start, k))
  BY <1>3, <1>4, SliceSame
<1> QED
  BY <1>4, <1>5 DEF Disk_HasJournalRange

\* Blocks written right behind a journal extend it by exactly those blocks.
LEMMA Appended ==
    ASSUME NEW j \in [BlockIndex -> Block \cup {None}], NEW start \in BlockIndex,
           NEW w \in 0..NumJournalBlocks, NEW jr \in Seq(Block), w + Len(jr) <= NumJournalBlocks,
           NEW jj, jj = JournalUpdate(j, Interval(JournalPosAdd(start, w), Len(jr)), jr),
           Disk_HasJournalRange(j, Interval(start, w))
    PROVE  /\ CyclicSlice(jj, Interval(start, w + Len(jr))) = CyclicSlice(j, Interval(start, w)) \o jr
           /\ Disk_HasJournalRange(jj, Interval(start, w + Len(jr)))
<1> DEFINE next == JournalPosAdd(start, w)
           n == Len(jr)
<1>1. next \in BlockIndex
  BY PositionOfOffset
<1>2. n \in Nat
  OBVIOUS
<1>3. jj = JournalUpdate(j, Interval(next, Len(jr)), jr)
  OBVIOUS
<1> HIDE DEF next, n
<1>4. n \in 0..NumJournalBlocks /\ w \in 0..w /\ w + n <= NumJournalBlocks
  BY <1>2, NumJournalBlocksAssumption DEF n
<1>5. Len(jr) <= NumJournalBlocks /\ None \notin Block
  BY <1>4, NoneAssumption DEF n
<1>6. jj \in [BlockIndex -> Block \cup {None}]
  BY <1>1, <1>3, <1>5, UpdateBlocks
<1>7. /\ CyclicSlice(jj, Interval(next, n)) = jr
      /\ Disk_HasJournalRange(jj, Interval(next, n))
  BY <1>1, <1>3, <1>5, UpdateSlice DEF n
<1>8. /\ CyclicSlice(jj, Interval(start, w)) = CyclicSlice(j, Interval(start, w))
      /\ Disk_HasJournalRange(jj, Interval(start, w))
  BY <1>4, KeptBefore
<1>9. /\ CyclicSlice(jj, Interval(start, w + n)) = CyclicSlice(jj, Interval(start, w)) \o CyclicSlice(jj, Interval(next, n))
      /\ Disk_HasJournalRange(jj, Interval(start, w + n))
  BY <1>4, <1>6, <1>7, <1>8, SliceConcat DEF next
<1> QED
  BY <1>7, <1>8, <1>9 DEF n

\* A write that wraps is made of two parts, which do not meet.
LEMMA WriteParts ==
    ASSUME NEW next \in BlockIndex, NEW n \in 0..NumJournalBlocks, next + n > NumJournalBlocks
    PROVE  LET front == Interval(next, NumJournalBlocks - next)
               back == Interval(0, n - (NumJournalBlocks - next))
           IN  /\ front \in IntervalSet /\ back \in IntervalSet
               /\ BlocksOf(front) \subseteq BlocksOf(Interval(next, n))
               /\ BlocksOf(back) \subseteq BlocksOf(Interval(next, n))
               /\ BlocksOf(front) \cap BlocksOf(back) = {}
<1> DEFINE p == NumJournalBlocks - next
           q == n - (NumJournalBlocks - next)
<1>1. /\ p \in 0..NumJournalBlocks /\ q \in 0..NumJournalBlocks /\ 0 \in BlockIndex
      /\ next + p = NumJournalBlocks /\ q <= next
  BY NumJournalBlocksAssumption DEF BlockIndex
<1>2. Interval(next, p) \in IntervalSet /\ Interval(0, q) \in IntervalSet
  <2> HIDE DEF p, q
  <2> QED
    BY <1>1, IntervalFields
<1>3. ASSUME NEW b \in BlockIndex
      PROVE  /\ b \in BlocksOf(Interval(next, n)) <=> (next <= b \/ b < q)
             /\ b \in BlocksOf(Interval(next, p)) <=> next <= b
             /\ b \in BlocksOf(Interval(0, q)) <=> b < q
  <2>1. /\ b \in BlocksOf(Interval(next, n)) <=> Offset(b, next) < n
        /\ b \in BlocksOf(Interval(next, p)) <=> Offset(b, next) < p
        /\ b \in BlocksOf(Interval(0, q)) <=> Offset(b, 0) < q
    <3> HIDE DEF p, q
    <3> QED
      BY <1>1, RangeByOffset
  <2>2. /\ Offset(b, next) < n <=> (next <= b \/ b < q)
        /\ Offset(b, next) < p <=> next <= b
        /\ Offset(b, 0) < q <=> b < q
    BY NumJournalBlocksAssumption DEF Offset, BlockIndex
  <2> QED
    BY <2>1, <2>2
<1>4. ASSUME NEW b \in BlockIndex PROVE ~(next <= b /\ b < q)
  BY <1>1, NumJournalBlocksAssumption DEF BlockIndex
<1> HIDE DEF p, q
<1>5. \A i : BlocksOf(i) \subseteq BlockIndex
  BY DEF BlocksOf
<1>6. /\ BlocksOf(Interval(next, p)) \subseteq BlocksOf(Interval(next, n))
      /\ BlocksOf(Interval(0, q)) \subseteq BlocksOf(Interval(next, n))
      /\ BlocksOf(Interval(next, p)) \cap BlocksOf(Interval(0, q)) = {}
  BY <1>3, <1>4, <1>5
<1> QED
  BY <1>2, <1>6 DEF p, q

\* Entries in memory fit in a batch.
LEMMA MarshalType ==
    ASSUME NEW entries \in Seq(JournalEntry), Len(entries) <= MaxInMemory,
           NEW n \in 1..MaxBlocksPerWrite
    PROVE  /\ MarshalBatch(entries, n) \in Seq(Block)
           /\ Len(MarshalBatch(entries, n)) = n
<1> DEFINE m == Len(entries)
<1>1. m \in 0..MaxInMemory /\ entries \in [1..m -> JournalEntry]
  BY BoundsAssumption
<1>2. entries \in Batch
  <2> HIDE DEF m
  <2> QED
    BY <1>1 DEF Batch
<1>3. n \in Nat /\ MaxBlocksPerWrite \in Nat
  BY BoundsAssumption
<1>4. ASSUME NEW k \in 1..n
      PROVE  [entries |-> entries, nblocks |-> n, idx |-> k] \in Block
  <2>1. k \in 1..MaxBlocksPerWrite /\ k <= n
    BY <1>3
  <2> QED
    BY <1>2, <2>1 DEF Block
<1>5. MarshalBatch(entries, n) \in [1..n -> Block]
  BY <1>4 DEF MarshalBatch
<1> QED
  BY <1>3, <1>5

\* What a step that writes to the journal does.
LEMMA JournalWritten ==
    ASSUME IInv, Ready, NEW id1 \in ReqId, NEW id2 \in ReqId \cup {None}, NEW n \in 1..MaxBlocksPerWrite,
           NEW jr, jr = MarshalBatch(JournalToWrite, n),
           WriteBackJournalReq(id1, id2, NextJournalStart, jr),
           RecvWriteJournal(id1, id2, NextJournalStart, jr)
    PROVE  LET start == machine.superblock.journalStart
               written == machine.writtenJournalLen
           IN  /\ machine \in ReadyState /\ ~Committing
               /\ start \in BlockIndex /\ written \in 0..NumJournalBlocks
               /\ jr \in Seq(Block) /\ Parses(jr) /\ ParseJournalRange(jr) = JournalToWrite
               /\ Len(jr) \in Nat /\ Len(jr) > 0 /\ written + Len(jr) <= NumJournalBlocks
               /\ journal' = JournalUpdate(journal, Interval(JournalPosAdd(start, written), Len(jr)), jr)
               /\ journal \in [BlockIndex -> Block \cup {None}]
<1>1. machine \in ReadyState /\ ~Committing
  BY Phases DEF IInv, Types, SuperblockWriteInv, WriteBackJournalReq
<1> DEFINE f == machine.inMemoryJournalFrozen
           m == machine.inMemoryJournal
<1>2. f \in Seq(JournalEntry) /\ m \in Seq(JournalEntry) /\ Len(f) + Len(m) <= MaxInMemory
  BY <1>1, ReadyFields DEF IInv, MemoryInv
<1>3. JournalToWrite \in {f, m}
  BY DEF JournalToWrite
<1> HIDE DEF f, m
<1>4. Len(f) \in Nat /\ Len(m) \in Nat
  BY <1>2
<1>5. Len(f) <= MaxInMemory /\ Len(m) <= MaxInMemory
  <2>1. \A x, y \in Nat : x + y <= MaxInMemory => x <= MaxInMemory /\ y <= MaxInMemory
    BY BoundsAssumption
  <2> QED
    BY <1>2, <1>4, <2>1
<1>6. JournalToWrite \in Seq(JournalEntry) /\ Len(JournalToWrite) <= MaxInMemory
  BY <1>2, <1>3, <1>5
<1>7. jr \in Seq(Block) /\ Len(jr) = n
  BY <1>6, MarshalType
<1>8. /\ Len(jr) \in Nat /\ Len(jr) > 0
      /\ machine.superblock.journalStart \in BlockIndex
      /\ machine.writtenJournalLen \in 0..NumJournalBlocks
  BY <1>1, <1>7, ReadyFields DEF WriteBackJournalReq
<1>9. Len(jr) + machine.writtenJournalLen <= NumJournalBlocks
  BY DEF WriteBackJournalReq
<1>10. machine.writtenJournalLen + Len(jr) <= NumJournalBlocks
  <2>1. \A x, y \in Nat : x + y <= NumJournalBlocks => y + x <= NumJournalBlocks
    BY NumJournalBlocksAssumption
  <2>2. machine.writtenJournalLen \in Nat
    BY <1>8
  <2> QED
    BY <1>8, <1>9, <2>1, <2>2, Zenon
<1>11. Parses(jr) /\ ParseJournalRange(jr) = JournalToWrite
  BY DEF WriteBackJournalReq
<1>12. journal' = JournalUpdate(journal,
           Interval(JournalPosAdd(machine.superblock.journalStart, machine.writtenJournalLen), Len(jr)), jr)
  BY DEF RecvWriteJournal, NextJournalStart
<1> QED
  BY <1>1, <1>7, <1>8, <1>10, <1>11, <1>12 DEF IInv, Types, DiskTypes

\* The requests that a write makes: one, or two that do not meet, and all of
\* them where the write is.
LEMMA WriteRequests ==
    ASSUME NEW next \in BlockIndex, NEW jr, Len(jr) \in 0..NumJournalBlocks,
           NEW id1 \in ReqId, NEW id2 \in ReqId \cup {None}, RecvWriteJournal(id1, id2, next, jr),
           reqWriteJournals \in [ReqId -> IntervalSet \cup {None}]
    PROVE  /\ reqWriteJournals' \in [ReqId -> IntervalSet \cup {None}]
           /\ id1 # id2
           /\ \A i \in ReqId \ {id1, id2} : reqWriteJournals'[i] = reqWriteJournals[i]
           /\ \A i \in ReqId \cap {id1, id2} :
                 /\ reqWriteJournals'[i] # None
                 /\ BlocksOf(reqWriteJournals'[i]) \subseteq BlocksOf(Interval(next, Len(jr)))
           /\ id2 # None => BlocksOf(reqWriteJournals'[id1]) \cap BlocksOf(reqWriteJournals'[id2]) = {}
<1> DEFINE n == Len(jr)
           whole == Interval(next, n)
           front == Interval(next, NumJournalBlocks - next)
           back == Interval(0, n - (NumJournalBlocks - next))
<1>1. id1 # None /\ None \notin IntervalSet /\ None \notin ReqId
  BY NoneAssumption
<1>2. whole \in IntervalSet
  BY IntervalFields
<1>3. CASE next + n <= NumJournalBlocks
  <2>1. id2 = None /\ reqWriteJournals' = [reqWriteJournals EXCEPT ![id1] = whole]
    BY <1>3 DEF RecvWriteJournal
  <2> HIDE DEF whole
  <2>2. BlocksOf(whole) \subseteq BlocksOf(Interval(next, Len(jr)))
    BY DEF whole
  <2> HIDE DEF n
  <2> QED
    BY <1>1, <1>2, <2>1, <2>2
<1>4. CASE ~(next + n <= NumJournalBlocks)
  <2>1. /\ id2 # None /\ id2 # id1 /\ id2 \in ReqId
        /\ reqWriteJournals' = [reqWriteJournals EXCEPT ![id1] = front, ![id2] = back]
    BY <1>4 DEF RecvWriteJournal
  <2>2. next + n > NumJournalBlocks /\ n \in 0..NumJournalBlocks
    BY <1>4, NumJournalBlocksAssumption DEF BlockIndex
  <2>3. /\ front \in IntervalSet /\ back \in IntervalSet
        /\ BlocksOf(front) \subseteq BlocksOf(Interval(next, Len(jr)))
        /\ BlocksOf(back) \subseteq BlocksOf(Interval(next, Len(jr)))
        /\ BlocksOf(front) \cap BlocksOf(back) = {}
    <3> HIDE DEF n
    <3> QED
      BY <2>2, WriteParts DEF n
  <2> HIDE DEF front, back, n
  <2>4. reqWriteJournals'[id1] = front /\ reqWriteJournals'[id2] = back
    BY <2>1
  <2> QED
    BY <1>1, <2>1, <2>3, <2>4
<1> QED
  BY <1>3, <1>4

\* Writing the entries in memory, in one request or in two around the end of the disk, keeps the invariant.
LEMMA WriteBackJournalReqInv == IInv /\ WriteBackJournalReqStep => IInv'
<1> SUFFICES ASSUME IInv, Ready, NEW id1 \in ReqId, NEW id2 \in ReqId \cup {None},
                    NEW n0 \in 1..MaxBlocksPerWrite,
                    NEW jr, jr = MarshalBatch(JournalToWrite, n0),
                    WriteBackJournalReq(id1, id2, NextJournalStart, jr),
                    RecvWriteJournal(id1, id2, NextJournalStart, jr)
             PROVE  IInv'
  BY DEF WriteBackJournalReqStep
<1> DEFINE start == machine.superblock.journalStart
           len == machine.superblock.journalLen
           position == machine.frozenJournalPosition
           written == machine.writtenJournalLen
           f == machine.inMemoryJournalFrozen
           m == machine.inMemoryJournal
           n == Len(jr)
           next == JournalPosAdd(start, written)
           O == machine.outstandingJournalWrites \cup ({id1, id2} \ {None})
           W == written + n
           P == IF f = << >> THEN position ELSE W
           M == IF f = << >> THEN << >> ELSE m
           R == SyncReqsAfterWrite
<1>1. /\ machine \in ReadyState /\ ~Committing
      /\ start \in BlockIndex /\ written \in 0..NumJournalBlocks
      /\ jr \in Seq(Block) /\ Parses(jr)
      /\ n \in Nat /\ n > 0 /\ written + Len(jr) <= NumJournalBlocks
      /\ journal' = JournalUpdate(journal, Interval(next, Len(jr)), jr)
      /\ journal \in [BlockIndex -> Block \cup {None}]
  BY JournalWritten
<1>2. /\ f \in Seq(JournalEntry) /\ m \in Seq(JournalEntry) /\ Len(f) + Len(m) <= MaxInMemory
      /\ len \in 0..NumJournalBlocks /\ position \in 0..NumJournalBlocks
      /\ machine.outstandingJournalWrites \subseteq ReqId
      /\ len <= written
      /\ machine.isFrozen => position <= written
      /\ f # << >> => machine.isFrozen
  BY <1>1, ReadyFields DEF IInv, MemoryInv, ContentInv
<1>3. W \in 0..NumJournalBlocks /\ n \in 0..NumJournalBlocks /\ len <= W /\ written <= W
  <2> HIDE DEF n, written, len
  <2> QED
    BY <1>1, <1>2, NumJournalBlocksAssumption DEF n
<1>4. machine' = [machine EXCEPT !.outstandingJournalWrites = O, !.writtenJournalLen = W,
                     !.frozenJournalPosition = P, !.inMemoryJournal = M,
                     !.inMemoryJournalFrozen = << >>, !.syncReqs = R]
  BY DEF WriteBackJournalReq
<1>5. /\ O \subseteq ReqId /\ P \in 0..NumJournalBlocks /\ M \in Seq(JournalEntry)
      /\ R \in [SyncId -> SyncReqStatus] /\ << >> \in Seq(JournalEntry)
  <2>1. R \in [SyncId -> SyncReqStatus]
    BY <1>1, ReadyFields, SyncReqsTypes DEF SyncReqsAfterWrite
  <2> HIDE DEF R
  <2> QED
    BY <1>2, <1>3, <2>1
<1> HIDE DEF O, W, P, M, R, n, next
<1>6. machine' \in ReadyState
  BY <1>1, <1>3, <1>4, <1>5 DEF ReadyState
<1>7. /\ machine'.outstandingJournalWrites = O /\ machine'.writtenJournalLen = W
      /\ machine'.frozenJournalPosition = P /\ machine'.inMemoryJournal = M
      /\ machine'.inMemoryJournalFrozen = << >>
      /\ machine'.superblockWrite = machine.superblockWrite
      /\ machine'.frozenLoc = machine.frozenLoc
      /\ machine'.isFrozen = machine.isFrozen
      /\ machine'.superblock = machine.superblock
      /\ machine'.whichSuperblock = machine.whichSuperblock
      /\ machine'.commitStatus = machine.commitStatus
      /\ machine'.newSuperblock = machine.newSuperblock
  BY <1>1, <1>4 DEF ReadyState
<1>8. Ready' /\ ~LoadingSuperblock' /\ ~LoadingOther' /\ ~LoadingSuperblock /\ ~LoadingOther
  BY <1>1, <1>6 DEF ReadyState, Ready, LoadingSuperblock, LoadingOther
<1>9. UNCHANGED <<reqReadSuperblock, reqReadJournals, reqWriteSuperblock, superblock>>
  BY DEF RecvWriteJournal
<1>10. next \in BlockIndex /\ next = NextJournalStart
  BY <1>1, PositionOfOffset DEF next, NextJournalStart
<1>11. reqWriteJournals \in [ReqId -> IntervalSet \cup {None}]
  BY DEF IInv, Types, DiskTypes
<1>12. /\ reqWriteJournals' \in [ReqId -> IntervalSet \cup {None}]
       /\ id1 # id2
       /\ \A i \in ReqId \ {id1, id2} : reqWriteJournals'[i] = reqWriteJournals[i]
       /\ \A i \in ReqId \cap {id1, id2} :
             /\ reqWriteJournals'[i] # None
             /\ BlocksOf(reqWriteJournals'[i]) \subseteq BlocksOf(Interval(next, n))
       /\ id2 # None => BlocksOf(reqWriteJournals'[id1]) \cap BlocksOf(reqWriteJournals'[id2]) = {}
  <2>1. RecvWriteJournal(id1, id2, next, jr) /\ Len(jr) \in 0..NumJournalBlocks
    BY <1>3, <1>10 DEF n
  <2>2. next \in BlockIndex
    BY <1>10
  <2> QED
    BY <1>11, <2>1, <2>2, WriteRequests DEF n
<1>13. journal' \in [BlockIndex -> Block \cup {None}]
  <2>1. Len(jr) <= NumJournalBlocks
    BY <1>3, NumJournalBlocksAssumption DEF n
  <2> QED
    BY <1>1, <1>10, <2>1, UpdateBlocks
<1>14. Types'
  BY <1>6, <1>9, <1>12, <1>13 DEF IInv, Types, DiskTypes, MachineState
<1>15. SuperblockWriteInv'
  <2>1. ~Committing' /\ machine'.commitStatus = "CommitNone"
    BY <1>1, <1>7 DEF Committing
  <2> QED
    BY <1>1, <1>7, <1>8, <1>9, <2>1 DEF IInv, SuperblockWriteInv
<1>16. SuperblockInv'
  BY <1>7, <1>8, <1>9 DEF IInv, SuperblockInv, HasUpdateOccurredUnacked
<1>17. MemoryInv'
  <2>1. Len(<< >>) + Len(M) <= MaxInMemory
    <3>1. CASE f = << >>
      <4>1. M = << >>
        BY <3>1 DEF M
      <4> QED
        BY <4>1, BoundsAssumption
    <3>2. CASE f # << >>
      <4>1. M = m
        BY <3>2 DEF M
      <4>2. \A x, y \in Nat : x + y <= MaxInMemory => 0 + y <= MaxInMemory
        BY BoundsAssumption
      <4>3. Len(<< >>) = 0
        OBVIOUS
      <4> HIDE DEF f, m
      <4>4. Len(f) \in Nat /\ Len(m) \in Nat
        BY <1>2
      <4> QED
        BY <1>2, <4>1, <4>2, <4>3, <4>4, Zenon
    <3> QED
      BY <3>1, <3>2
  <2>2. machine.isFrozen => P <= W
    <3>1. CASE f = << >>
      <4>1. P = position
        BY <3>1 DEF P
      <4> HIDE DEF position, written
      <4> QED
        BY <1>1, <1>2, <1>3, <4>1
    <3>2. CASE f # << >>
      BY <1>3, <3>2 DEF P
    <3> QED
      BY <3>1, <3>2
  <2>3. machine.frozenLoc # NoLoc => machine.isFrozen
    BY DEF IInv, MemoryInv
  <2> QED
    BY <1>7, <2>1, <2>2, <2>3 DEF MemoryInv
<1>18. ReadInv'
  BY <1>8 DEF ReadInv
<1>19. JournalWriteInv'
  <2>1. ASSUME NEW b \in BlocksOf(Interval(next, n))
        PROVE  written <= Offset(b, start) /\ Offset(b, start) < W /\ len <= Offset(b, start)
    <3>1. b \in BlockIndex /\ written <= Offset(b, start) /\ Offset(b, start) < written + n
      <4> HIDE DEF written, start
      <4>1. written + n <= NumJournalBlocks
        BY <1>1 DEF n
      <4> QED
        BY <1>1, <2>1, <4>1, WriteBehind DEF next
    <3>2. Offset(b, start) \in BlockIndex
      BY <1>1, <3>1, PositionOfOffset
    <3> DEFINE o == Offset(b, start)
    <3> HIDE DEF o, written, len
    <3>3. o \in Nat /\ written <= o
      BY <3>1, <3>2, NumJournalBlocksAssumption DEF o, BlockIndex
    <3>4. len <= o
      BY <1>1, <1>2, <3>3
    <3> QED
      BY <3>1, <3>4 DEF o, W
  <2>2. ASSUME NEW i \in ReqId, reqWriteJournals[i] # None, NEW b \in BlocksOf(reqWriteJournals[i])
        PROVE  len <= Offset(b, start) /\ Offset(b, start) < written /\ Offset(b, start) < W
    <3>1. b \in BlockIndex /\ len <= Offset(b, start) /\ Offset(b, start) < written
      BY <2>2 DEF IInv, JournalWriteInv, BlocksOf
    <3>2. Offset(b, start) \in BlockIndex
      BY <1>1, <3>1, PositionOfOffset
    <3> DEFINE o == Offset(b, start)
    <3> HIDE DEF o, written, len
    <3>3. o \in Nat /\ o < written
      BY <3>1, <3>2, NumJournalBlocksAssumption DEF o, BlockIndex
    <3>4. o < W
      BY <1>1, <1>3, <3>3
    <3> QED
      BY <3>1, <3>4 DEF o
  <2>3. ASSUME NEW i \in ReqId \ {id1, id2}, reqWriteJournals[i] # None
        PROVE  BlocksOf(reqWriteJournals[i]) \cap BlocksOf(Interval(next, n)) = {}
    <3> SUFFICES ASSUME NEW b \in BlocksOf(reqWriteJournals[i]), b \in BlocksOf(Interval(next, n)) PROVE FALSE
      OBVIOUS
    <3>1. written <= Offset(b, start) /\ Offset(b, start) < written
      BY <2>1, <2>2, <2>3
    <3>2. b \in BlockIndex
      BY DEF BlocksOf
    <3>3. Offset(b, start) \in BlockIndex
      BY <1>1, <3>2, PositionOfOffset
    <3> QED
      BY <1>1, <3>1, <3>3, NumJournalBlocksAssumption DEF BlockIndex
  <2>4. O = {i \in ReqId : reqWriteJournals'[i] # None}
    <3>1. machine.outstandingJournalWrites = {i \in ReqId : reqWriteJournals[i] # None}
      BY DEF IInv, JournalWriteInv
    <3>2. None \notin ReqId
      BY NoneAssumption
    <3> QED
      BY <1>12, <3>1, <3>2 DEF O
  <2>5. ASSUME NEW i \in ReqId, reqWriteJournals'[i] # None, NEW b \in BlocksOf(reqWriteJournals'[i])
        PROVE  len <= Offset(b, start) /\ Offset(b, start) < W
    BY <1>12, <2>1, <2>2, <2>5
  <2>6. ASSUME NEW i \in ReqId, NEW other \in ReqId, i # other,
               reqWriteJournals'[i] # None, reqWriteJournals'[other] # None
        PROVE  BlocksOf(reqWriteJournals'[i]) \cap BlocksOf(reqWriteJournals'[other]) = {}
    <3>1. CASE i \in {id1, id2} /\ other \in {id1, id2}
      BY <1>12, <2>6, <3>1, NoneAssumption
    <3>2. CASE i \in {id1, id2} /\ other \notin {id1, id2}
      BY <1>12, <2>3, <2>6, <3>2
    <3>3. CASE i \notin {id1, id2} /\ other \in {id1, id2}
      BY <1>12, <2>3, <2>6, <3>3
    <3>4. CASE i \notin {id1, id2} /\ other \notin {id1, id2}
      BY <1>12, <2>6, <3>4 DEF IInv, JournalWriteInv
    <3> QED
      BY <3>1, <3>2, <3>3, <3>4
  <2> QED
    BY <1>7, <1>8, <2>4, <2>5, <2>6 DEF JournalWriteInv
<1>20. ContentInv'
  <2>1. /\ Disk_HasJournal(journal, Interval(start, len))
        /\ Disk_HasJournal(journal, Interval(start, written))
        /\ machine.isFrozen => Disk_HasJournal(journal, Interval(JournalPosAdd(start, position), written - position))
    BY DEF IInv, ContentInv
  <2>2. Disk_HasJournal(journal', Interval(start, len))
    <3>1. len \in 0..written
      BY <1>2
    <3> HIDE DEF start, len, written
    <3>2. /\ CyclicSlice(journal', Interval(start, len)) = CyclicSlice(journal, Interval(start, len))
          /\ Disk_HasJournalRange(journal, Interval(start, len)) => Disk_HasJournalRange(journal', Interval(start, len))
      BY <1>1, <3>1, KeptBefore DEF next
    <3> QED
      BY <2>1, <3>2 DEF Disk_HasJournal
  <2>3. Disk_HasJournal(journal', Interval(start, W))
    <3> HIDE DEF start, len, written
    <3>1. Disk_HasJournalRange(journal, Interval(start, written)) /\ Parses(CyclicSlice(journal, Interval(start, written)))
      BY <2>1 DEF Disk_HasJournal
    <3>2. /\ CyclicSlice(journal', Interval(start, W)) = CyclicSlice(journal, Interval(start, written)) \o jr
          /\ Disk_HasJournalRange(journal', Interval(start, W))
      BY <1>1, <3>1, Appended, ZenonT(30) DEF next, n, W
    <3>3. CyclicSlice(journal, Interval(start, written)) \in Seq(Block)
      BY <1>1, <3>1, SliceType
    <3> QED
      BY <1>1, <3>1, <3>2, <3>3, ParsesConcat DEF Disk_HasJournal
  <2>4. ASSUME machine.isFrozen
        PROVE  Disk_HasJournal(journal', Interval(JournalPosAdd(start, P), W - P))
    <3>1. CASE f = << >>
      <4> DEFINE base == JournalPosAdd(start, position)
                 k == written - position
      <4>1. P = position
        BY <3>1 DEF P
      <4>2. base \in BlockIndex
        BY <1>1, <1>2, PositionOfOffset
      <4>3. k \in 0..NumJournalBlocks /\ k + n <= NumJournalBlocks /\ k + n = W - P /\ position + k = written
        <5>1. position <= written
          BY <1>2, <2>4
        <5>2. written + n <= NumJournalBlocks
          BY <1>1 DEF n
        <5> HIDE DEF written, position
        <5> QED
          BY <1>1, <1>2, <4>1, <5>1, <5>2, NumJournalBlocksAssumption DEF W
      <4>4. JournalPosAdd(base, k) = next
        <5>1. position + k <= NumJournalBlocks
          BY <1>1, <4>3
        <5>2. JournalPosAdd(base, k) = JournalPosAdd(start, position + k)
          <6> HIDE DEF k, start, position
          <6> QED
            BY <1>1, <1>2, <4>3, <5>1, PositionTwice
        <5> QED
          BY <4>3, <5>2 DEF next
      <4>5. Disk_HasJournal(journal, Interval(base, k))
        BY <2>1, <2>4
      <4> HIDE DEF base, k
      <4>6. Disk_HasJournalRange(journal, Interval(base, k)) /\ Parses(CyclicSlice(journal, Interval(base, k)))
        BY <4>5 DEF Disk_HasJournal
      <4>7. k + Len(jr) <= NumJournalBlocks /\ journal' = JournalUpdate(journal, Interval(JournalPosAdd(base, k), Len(jr)), jr)
        BY <1>1, <4>3, <4>4 DEF n
      <4>8. /\ CyclicSlice(journal', Interval(base, k + Len(jr))) = CyclicSlice(journal, Interval(base, k)) \o jr
            /\ Disk_HasJournalRange(journal', Interval(base, k + Len(jr)))
        <5>1. k \in 0..NumJournalBlocks /\ jr \in Seq(Block) /\ journal \in [BlockIndex -> Block \cup {None}]
          BY <1>1, <4>3
        <5>2. Disk_HasJournalRange(journal, Interval(base, k))
          BY <4>6
        <5> QED
          BY <4>2, <4>7, <5>1, <5>2, Appended, ZenonT(30)
      <4>9. CyclicSlice(journal, Interval(base, k)) \in Seq(Block)
        BY <1>1, <4>2, <4>3, <4>6, SliceType
      <4>10. Disk_HasJournal(journal', Interval(base, k + n))
        BY <1>1, <4>6, <4>8, <4>9, ParsesConcat DEF Disk_HasJournal, n
      <4> QED
        BY <4>1, <4>3, <4>10 DEF base
    <3>2. CASE f # << >>
      <4>1. P = W /\ W - P = 0
        BY <1>3, <3>2 DEF P
      <4>2. JournalPosAdd(start, P) \in BlockIndex
        BY <1>1, <1>3, <4>1, PositionOfOffset
      <4> QED
        BY <4>1, <4>2, EmptyJournal
    <3> QED
      BY <3>1, <3>2
  <2> QED
    BY <1>3, <1>7, <1>8, <2>2, <2>3, <2>4 DEF ContentInv
<1> QED
  BY <1>14, <1>15, <1>16, <1>17, <1>18, <1>19, <1>20 DEF IInv

\* The invariant is inductive.
LEMMA NextInv == IInv /\ [Next]_vars => IInv'
<1> SUFFICES ASSUME IInv, [Next]_vars PROVE IInv'
  OBVIOUS
<1>1. CASE Next
  BY <1>1, WriteBackJournalReqInv, WriteBackJournalRespInv, AdvanceLogReqInv, AdvanceLocationReqInv,
     WriteBackSuperblockRespInv, PageInJournalReqInv, PageInJournalRespInv, PageInSuperblockReqInv,
     PageInSuperblockRespInv, FinishLoadingSuperblockInv, FinishLoadingOtherInv, FreezeInv,
     ReceiveFrozenLocInv, AdvanceInv, ReplayInv, SyncInv, NoOpInv, DiskInternalInv, CrashInv
     DEF Next
<1>2. CASE UNCHANGED vars
  <2>1. UNCHANGED machine /\ UNCHANGED dvars
    BY <1>2 DEF vars
  <2>2. DiskTypes
    BY DEF IInv, Types
  <2> QED
    BY <2>1, <2>2, ReadsFrame DEF dvars, DiskTypes
<1> QED
  BY <1>1, <1>2

\* The invariant holds in every reachable state.
LEMMA AlwaysIInv == Spec => []IInv
<1>1. Init => IInv
  BY InitInv
<1>2. IInv /\ [Next]_vars => IInv'
  BY NextInv
<1> QED
  BY <1>1, <1>2, PTL DEF Spec

\* Over any number of commits, crashes and counter wrap-arounds the machine has a record of every
\* write under way, and the superblock that recovery would choose is never the one being overwritten.
THEOREM RecoveryAlwaysSafe == Spec => []RecoverySafe
<1>1. IInv => RecoverySafe
  BY RecoverySafeFollows
<1> QED
  BY <1>1, AlwaysIInv, PTL

\* No journal write under way touches a block that the persistent journal uses, whatever reaches
\* the disk first.
THEOREM WritesAlwaysAvoid == Spec => []WritesAvoidPersistentJournal
<1>1. IInv => WritesAvoidPersistentJournal
  BY WritesAvoidFollows
<1> QED
  BY <1>1, AlwaysIInv, PTL

\* The journals that the view speaks of can be parsed from the disk at any moment, a crash
\* in the middle of any write included.
THEOREM JournalsAlwaysReadable == Spec => []JournalsReadable
<1>1. IInv => JournalsReadable
  BY JournalsReadableFollows
<1> QED
  BY <1>1, AlwaysIInv, PTL

\* The copies of the operators inside the instance.
LEMMA SameOperators ==
    /\ \A x : JV!SyncReqs2to1(x) = SyncReqs2to1(x)
    /\ \A x : JV!SyncReqs3to2(x) = SyncReqs3to2(x)
    /\ JV!NoSyncReqs = NoSyncReqs
    /\ \A x : JV!JournalEntriesForUIOp(x) = JournalEntriesForUIOp(x)
    /\ JV!Write = Write /\ JV!NoOp = NoOp
    /\ JV!JournalInternalOp = JournalInternalOp /\ JV!StatesInternalOp = StatesInternalOp
    /\ JV!FreezeOp = FreezeOp /\ JV!CleanUpOp = CleanUpOp /\ JV!CrashVOp = CrashVOp
    /\ \A x, y : JV!AdvanceOp(x, y) = AdvanceOp(x, y)
    /\ \A x : JV!SendPersistentLocOp(x) = SendPersistentLocOp(x)
    /\ \A x : JV!SendFrozenLocOp(x) = SendFrozenLocOp(x)
    /\ \A x : JV!PushSyncVOp(x) = PushSyncVOp(x) /\ JV!PopSyncVOp(x) = PopSyncVOp(x)
<1>1. /\ \A x : JV!SyncReqs2to1(x) = SyncReqs2to1(x)
      /\ \A x : JV!SyncReqs3to2(x) = SyncReqs3to2(x)
      /\ JV!NoSyncReqs = NoSyncReqs
  BY DEF JV!SyncReqs2to1, SyncReqs2to1, JV!SyncReqs3to2, SyncReqs3to2, JV!NoSyncReqs, NoSyncReqs
<1>2. \A x : JV!JournalEntriesForUIOp(x) = JournalEntriesForUIOp(x)
  BY DEF JV!JournalEntriesForUIOp, JournalEntriesForUIOp, JV!JournalInsert, JournalInsert
<1>3. JV!Write = Write /\ JV!NoOp = NoOp
  BY DEF JV!Write, Write, JV!PutOp, PutOp, JV!NoOp, NoOp
<1>4. /\ JV!JournalInternalOp = JournalInternalOp /\ JV!StatesInternalOp = StatesInternalOp
      /\ JV!FreezeOp = FreezeOp /\ JV!CleanUpOp = CleanUpOp /\ JV!CrashVOp = CrashVOp
  BY DEF JV!JournalInternalOp, JournalInternalOp, JV!StatesInternalOp, StatesInternalOp,
     JV!FreezeOp, FreezeOp, JV!CleanUpOp, CleanUpOp, JV!CrashVOp, CrashVOp
<1>5. \A x, y : JV!AdvanceOp(x, y) = AdvanceOp(x, y)
  BY DEF JV!AdvanceOp, AdvanceOp
<1>6. /\ \A x : JV!SendPersistentLocOp(x) = SendPersistentLocOp(x)
      /\ \A x : JV!SendFrozenLocOp(x) = SendFrozenLocOp(x)
      /\ \A x : JV!PushSyncVOp(x) = PushSyncVOp(x) /\ JV!PopSyncVOp(x) = PopSyncVOp(x)
  BY DEF JV!SendPersistentLocOp, SendPersistentLocOp, JV!SendFrozenLocOp, SendFrozenLocOp,
     JV!PushSyncVOp, PushSyncVOp, JV!PopSyncVOp, PopSyncVOp
<1> QED
  BY <1>1, <1>2, <1>3, <1>4, <1>5, <1>6

\* The journals of the view are sequences of entries.
LEMMA ViewTypes ==
    ASSUME IInv
    PROVE  /\ PersistentJournal \in Seq(JournalEntry)
           /\ Disk_Journal(journal, GammaInterval) \in Seq(JournalEntry)
           /\ DeltaJournal \in Seq(JournalEntry)
           /\ machine.syncReqs \in [SyncId -> SyncReqStatus]
<1>1. SuperblockOfDisk \in SuperblockSet
  BY SelectType DEF SuperblockOfDisk, SelectSuperblock, IInv, Types, DiskTypes
<1> DEFINE start == SuperblockOfDisk.journalStart
           len == SuperblockOfDisk.journalLen
<1>2. start \in BlockIndex /\ len \in 0..NumJournalBlocks
  BY <1>1, SuperblockFields
<1>3. PersistentInterval = Interval(start, len) /\ GammaInterval = Interval(start, GammaLen)
  BY DEF PersistentInterval, GammaInterval
<1>4. GammaLen \in 0..NumJournalBlocks
  <2>1. CASE ~Ready
    BY <1>2, <2>1 DEF GammaLen
  <2>2. CASE Ready
    <3>1. machine \in ReadyState /\ machine.writtenJournalLen \in 0..NumJournalBlocks
      BY <2>2, Phases, ReadyFields DEF IInv, Types
    <3>2. CASE ~HasLocationUpdateOccurredUnacked
      BY <2>2, <3>1, <3>2 DEF GammaLen
    <3>3. CASE HasLocationUpdateOccurredUnacked
      <4>1. machine.frozenJournalPosition <= machine.writtenJournalLen /\ machine.frozenJournalPosition \in 0..NumJournalBlocks
        BY <2>2, <3>1, <3>3, CommitFields, ReadyFields DEF HasLocationUpdateOccurredUnacked, IInv
      <4>2. GammaLen = machine.writtenJournalLen - machine.frozenJournalPosition
        BY <2>2, <3>3 DEF GammaLen
      <4> QED
        BY <3>1, <4>1, <4>2, NumJournalBlocksAssumption
    <3> QED
      BY <3>2, <3>3
  <2> QED
    BY <2>1, <2>2
<1>5. Disk_HasJournalRange(journal, PersistentInterval) /\ Disk_HasJournalRange(journal, GammaInterval)
  BY JournalsReadableFollows DEF JournalsReadable, Disk_HasJournal
<1>6. journal \in [BlockIndex -> Block \cup {None}]
  BY DEF IInv, Types, DiskTypes
<1> HIDE DEF start, len
<1>7. CyclicSlice(journal, PersistentInterval) \in Seq(Block) /\ CyclicSlice(journal, GammaInterval) \in Seq(Block)
  BY <1>2, <1>3, <1>4, <1>5, <1>6, SliceType
<1>8. PersistentJournal \in Seq(JournalEntry) /\ Disk_Journal(journal, GammaInterval) \in Seq(JournalEntry)
  BY <1>7, ParseType DEF PersistentJournal, Disk_Journal
<1>9. DeltaJournal \in Seq(JournalEntry)
  BY Phases, ReadyFields DEF DeltaJournal, IInv, Types
<1>10. machine.syncReqs \in [SyncId -> SyncReqStatus]
  BY DEF IInv, Types, MachineState, LoadingSuperblockState, LoadingOtherState, ReadyState
<1> QED
  BY <1>8, <1>9, <1>10

\* A new machine on a new disk.
LEMMA InitView ==
    ASSUME NEW loc \in Loc, InitWithLoc(loc)
    PROVE  JV!JInit(loc)
<1>1. DInit(loc)
  BY DEF InitWithLoc
<1> DEFINE sb == Superblock(0, 0, 0, loc)
<1>2. sb.journalStart = 0 /\ sb.journalLen = 0 /\ sb.indirectionTableLoc = loc
  BY DEF Superblock
<1> HIDE DEF sb
<1>3. machine = StartState /\ superblock = [which \in Slot |-> sb]
  BY <1>1 DEF Init, InitWithLoc, MInit, DInit, sb
<1>4. ~Ready /\ machine.syncReqs = NoSyncReqs
  BY <1>3 DEF StartState, Ready
<1>5. SuperblockOfDisk = sb
  BY <1>3, SelectType DEF SuperblockOfDisk, SelectSuperblock
<1>6. PersistentInterval = Interval(0, 0) /\ FrozenInterval = Interval(0, 0) /\ GammaInterval = Interval(0, 0)
  BY <1>2, <1>4, <1>5 DEF PersistentInterval, FrozenInterval, GammaInterval, GammaLen
<1>7. 0 \in BlockIndex
  BY NumJournalBlocksAssumption DEF BlockIndex
<1>8. Disk_Journal(journal, Interval(0, 0)) = << >>
  BY <1>7, EmptyJournal, ParseEmpty DEF Disk_Journal
<1>9. << >> \o << >> = << >>
  OBVIOUS
<1>10. /\ PersistentJournal = << >> /\ FrozenJournal = << >> /\ EphemeralJournal = << >>
       /\ GammaJournal = << >> /\ DeltaJournal = << >>
  BY <1>4, <1>6, <1>8, <1>9 DEF PersistentJournal, FrozenJournal, EphemeralJournal, GammaJournal, DeltaJournal
<1>11. PersistentLoc = loc /\ FrozenLoc = NoLoc /\ SyncReqs = NoSyncReqs
  BY <1>2, <1>4, <1>5 DEF PersistentLoc, FrozenLoc, SyncReqs, HasUpdateOccurredUnacked
<1>12. vop = JournalInternalOp
  BY DEF InitWithLoc
<1> QED
  BY <1>10, <1>11, <1>12, SameOperators DEF JV!JInit

\* Steps after which the view is the same.
LEMMA StutterView ==
    ASSUME PersistentJournal' = PersistentJournal, FrozenJournal' = FrozenJournal,
           EphemeralJournal' = EphemeralJournal, GammaJournal' = GammaJournal,
           DeltaJournal' = DeltaJournal, PersistentLoc' = PersistentLoc,
           FrozenLoc' = FrozenLoc, SyncReqs' = SyncReqs,
           vop' \in {JournalInternalOp, StatesInternalOp}
    PROVE  JV!JStutter
  BY SameOperators DEF JV!JStutter, JV!jvars

\* Steps that change neither the disk nor what the machine knows of it.
LEMMA DiskViewSame ==
    ASSUME superblock' = superblock, journal' = journal, machine'.phase = machine.phase,
           Ready => /\ machine'.superblock = machine.superblock
                    /\ machine'.writtenJournalLen = machine.writtenJournalLen
                    /\ machine'.frozenJournalPosition = machine.frozenJournalPosition
                    /\ machine'.isFrozen = machine.isFrozen
                    /\ machine'.inMemoryJournalFrozen = machine.inMemoryJournalFrozen
                    /\ machine'.whichSuperblock = machine.whichSuperblock
                    /\ \/ /\ machine'.newSuperblock = machine.newSuperblock
                          /\ machine'.commitStatus = machine.commitStatus
                       \/ ~HasUpdateOccurredUnacked /\ ~HasUpdateOccurredUnacked'
    PROVE  /\ PersistentJournal' = PersistentJournal /\ FrozenJournal' = FrozenJournal
           /\ GammaJournal' = GammaJournal /\ PersistentLoc' = PersistentLoc
           /\ HasUpdateOccurredUnacked' <=> HasUpdateOccurredUnacked
           /\ Ready' <=> Ready
<1>1. Ready' <=> Ready
  BY DEF Ready
<1>2. SuperblockOfDisk' = SuperblockOfDisk /\ PersistentInterval' = PersistentInterval
  BY DEF SuperblockOfDisk, PersistentInterval
<1>3. FrozenInterval' = FrozenInterval
  <2>1. CASE Ready
    BY <1>1, <1>2, <2>1 DEF FrozenInterval
  <2>2. CASE ~Ready
    BY <1>1, <1>2, <2>2 DEF FrozenInterval
  <2> QED
    BY <2>1, <2>2
<1>4. HasUpdateOccurredUnacked' <=> HasUpdateOccurredUnacked
  BY <1>1 DEF HasUpdateOccurredUnacked
<1>5. HasLocationUpdateOccurredUnacked' <=> HasLocationUpdateOccurredUnacked
  BY <1>1, <1>4 DEF HasLocationUpdateOccurredUnacked, HasUpdateOccurredUnacked
<1>6. GammaLen' = GammaLen
  <2>1. CASE Ready /\ HasLocationUpdateOccurredUnacked
    BY <1>1, <1>5, <2>1 DEF GammaLen
  <2>2. CASE Ready /\ ~HasLocationUpdateOccurredUnacked
    BY <1>1, <1>5, <2>2 DEF GammaLen
  <2>3. CASE ~Ready
    BY <1>1, <1>2, <2>3 DEF GammaLen
  <2> QED
    BY <2>1, <2>2, <2>3
<1>7. GammaInterval' = GammaInterval
  BY <1>2, <1>6 DEF GammaInterval
<1>8. PersistentJournal' = PersistentJournal /\ FrozenJournal' = FrozenJournal /\ PersistentLoc' = PersistentLoc
  BY <1>2, <1>3 DEF PersistentJournal, FrozenJournal, PersistentLoc
<1>9. GammaJournal' = GammaJournal
  BY <1>1, <1>7 DEF GammaJournal
<1> QED
  BY <1>1, <1>4, <1>8, <1>9

\* Steps while loading that read the disk.
LEMMA LoadingView ==
    ASSUME IInv, ~Ready, ~Ready', UNCHANGED <<superblock, journal>>, machine'.syncReqs = machine.syncReqs
    PROVE  /\ PersistentJournal' = PersistentJournal /\ FrozenJournal' = FrozenJournal
           /\ EphemeralJournal' = EphemeralJournal /\ GammaJournal' = GammaJournal
           /\ DeltaJournal' = DeltaJournal /\ PersistentLoc' = PersistentLoc
           /\ FrozenLoc' = FrozenLoc /\ SyncReqs' = SyncReqs
<1>1. SuperblockOfDisk' = SuperblockOfDisk /\ PersistentInterval' = PersistentInterval
  BY DEF SuperblockOfDisk, PersistentInterval
<1>2. FrozenInterval' = FrozenInterval /\ GammaInterval' = GammaInterval
  BY <1>1 DEF FrozenInterval, GammaInterval, GammaLen
<1>3. PersistentJournal' = PersistentJournal
  BY <1>1 DEF PersistentJournal
<1>4. ~HasUpdateOccurredUnacked /\ ~HasUpdateOccurredUnacked'
  BY DEF HasUpdateOccurredUnacked
<1> QED
  BY <1>1, <1>2, <1>3, <1>4 DEF FrozenJournal, EphemeralJournal, GammaJournal,
     DeltaJournal, PersistentLoc, FrozenLoc, SyncReqs

\* Reading the superblocks is invisible in the view.
LEMMA PageInSuperblockView == IInv /\ (PageInSuperblockReqStep \/ PageInSuperblockRespStep) => JV!JStutter
<1> SUFFICES ASSUME IInv, PageInSuperblockReqStep \/ PageInSuperblockRespStep PROVE JV!JStutter
  OBVIOUS
<1>1. LoadingSuperblock /\ vop' = JournalInternalOp /\ UNCHANGED <<superblock, journal>>
  BY DEF PageInSuperblockReqStep, PageInSuperblockRespStep, PageInSuperblockReq, PageInSuperblockResp,
     RecvReadSuperblock, AckReadSuperblock
<1>2. machine \in LoadingSuperblockState /\ ~Ready
  BY <1>1, Phases DEF IInv, Types
<1>3. machine'.phase = machine.phase /\ machine'.syncReqs = machine.syncReqs
  <2>1. CASE PageInSuperblockReqStep
    BY <1>2, <2>1 DEF PageInSuperblockReqStep, PageInSuperblockReq, LoadingSuperblockState
  <2>2. CASE PageInSuperblockRespStep
    BY <1>2, <2>2 DEF PageInSuperblockRespStep, PageInSuperblockResp, LoadingSuperblockState
  <2> QED
    BY <2>1, <2>2
<1>4. ~Ready'
  BY <1>2, <1>3 DEF Ready
<1> QED
  BY <1>1, <1>2, <1>3, <1>4, LoadingView, StutterView

\* Reading the journal is invisible in the view.
LEMMA PageInJournalView == IInv /\ (PageInJournalReqStep \/ PageInJournalRespStep) => JV!JStutter
<1> SUFFICES ASSUME IInv, PageInJournalReqStep \/ PageInJournalRespStep PROVE JV!JStutter
  OBVIOUS
<1>1. LoadingOther /\ vop' = JournalInternalOp /\ UNCHANGED <<superblock, journal>>
  BY DEF PageInJournalReqStep, PageInJournalRespStep, PageInJournalFrontReq, PageInJournalBackReq,
     PageInJournalFrontResp, PageInJournalBackResp, RecvReadJournal, AckReadJournal
<1>2. machine \in LoadingOtherState /\ ~Ready
  BY <1>1, Phases DEF IInv, Types
<1>3. machine'.phase = machine.phase /\ machine'.syncReqs = machine.syncReqs
  <2>1. CASE PageInJournalReqStep
    BY <1>2, <2>1 DEF PageInJournalReqStep, PageInJournalFrontReq, PageInJournalBackReq, LoadingOtherState
  <2>2. CASE PageInJournalRespStep
    BY <1>2, <2>2 DEF PageInJournalRespStep, PageInJournalFrontResp, PageInJournalBackResp, LoadingOtherState
  <2> QED
    BY <2>1, <2>2
<1>4. ~Ready'
  BY <1>2, <1>3 DEF Ready
<1> QED
  BY <1>1, <1>2, <1>3, <1>4, LoadingView, StutterView

\* Choosing a superblock presents the persistent location.
LEMMA FinishLoadingSuperblockView == IInv /\ FinishLoadingSuperblockPhaseStep => JV!PresentPersistentLoc
<1> SUFFICES ASSUME IInv, UNCHANGED dvars, NEW loc \in Loc,
                    FinishLoadingSuperblockPhase(loc), vop' = SendPersistentLocOp(loc)
             PROVE  JV!PresentPersistentLoc
  BY DEF FinishLoadingSuperblockPhaseStep
<1>1. /\ LoadingSuperblock /\ \A which \in Slot : machine.superblockRead[which].type = "SuperblockSuccess"
      /\ machine'.phase = "LoadingOther" /\ machine'.syncReqs = machine.syncReqs
  BY DEF FinishLoadingSuperblockPhase
<1>2. loc = PersistentLoc
  BY <1>1, SuperblocksRead DEF FinishLoadingSuperblockPhase, PersistentLoc, SuperblockOfDisk
<1>3. ~Ready /\ ~Ready'
  BY <1>1 DEF LoadingSuperblock, Ready
<1>4. UNCHANGED <<superblock, journal>>
  BY DEF dvars
<1> QED
  BY <1>1, <1>2, <1>3, <1>4, LoadingView, SameOperators DEF JV!PresentPersistentLoc, JV!jvars

\* What a machine that is ready makes of the disk, when no commit waits for its answer.
ViewOfReady ==
    LET start == machine.superblock.journalStart
        written == machine.writtenJournalLen
        position == machine.frozenJournalPosition
    IN  /\ PersistentJournal = Disk_Journal(journal, Interval(start, machine.superblock.journalLen))
        /\ PersistentLoc = machine.superblock.indirectionTableLoc
        /\ machine.isFrozen =>
              FrozenJournal = Disk_Journal(journal, Interval(JournalPosAdd(start, position), written - position))
        /\ ~machine.isFrozen => FrozenJournal = Disk_Journal(journal, Interval(start, written))
        /\ GammaJournal = Disk_Journal(journal, Interval(start, written)) \o machine.inMemoryJournalFrozen
        /\ EphemeralJournal = machine.replayJournal /\ DeltaJournal = machine.inMemoryJournal
        /\ FrozenLoc = machine.frozenLoc /\ SyncReqs = machine.syncReqs

\* The view is read off the machine while no commit waits for its answer.
LEMMA ReadyView == IInv /\ Ready /\ ~HasUpdateOccurredUnacked => ViewOfReady
<1> SUFFICES ASSUME IInv, Ready, ~HasUpdateOccurredUnacked PROVE ViewOfReady
  OBVIOUS
<1>1. SuperblockOfDisk = machine.superblock
  BY PersistentSeen
<1>2. PersistentInterval = Interval(machine.superblock.journalStart, machine.superblock.journalLen)
  BY <1>1 DEF PersistentInterval
<1>3. GammaInterval = Interval(machine.superblock.journalStart, machine.writtenJournalLen)
  BY <1>1 DEF GammaInterval, GammaLen, HasLocationUpdateOccurredUnacked
<1>4. /\ machine.isFrozen => FrozenInterval = Interval(JournalPosAdd(machine.superblock.journalStart, machine.frozenJournalPosition),
                                                       machine.writtenJournalLen - machine.frozenJournalPosition)
      /\ ~machine.isFrozen => FrozenInterval = Interval(machine.superblock.journalStart, machine.writtenJournalLen)
  BY DEF FrozenInterval
<1> QED
  BY <1>1, <1>2, <1>3, <1>4 DEF PersistentJournal, PersistentLoc, FrozenJournal, GammaJournal, EphemeralJournal,
     DeltaJournal, FrozenLoc, SyncReqs, ViewOfReady

\* The journal that was read is what is replayed.
LEMMA FinishLoadingOtherView == IInv /\ IInv' /\ FinishLoadingOtherPhaseStep => JV!JStutter
<1> SUFFICES ASSUME IInv, IInv', FinishLoadingOtherPhase, vop' = JournalInternalOp, UNCHANGED dvars
             PROVE  JV!JStutter
  BY DEF FinishLoadingOtherPhaseStep
<1> DEFINE start == machine.superblock.journalStart
           len == machine.superblock.journalLen
<1>1. /\ LoadingOther
      /\ FrontInterval # None => machine.journalFront # None
      /\ BackInterval # None => machine.journalBack # None
  BY DEF FinishLoadingOtherPhase
<1>2. ~Ready /\ PersistentInterval = Interval(start, len) /\ machine.superblock = SuperblockOfDisk
  BY <1>1, LoadingOtherFields
<1>3. ParseJournalRange(FullRange) = PersistentJournal
  BY <1>1, FullRangeRead DEF PersistentJournal, Disk_Journal
<1>4. /\ machine'.phase = "Ready" /\ machine'.frozenLoc = NoLoc /\ machine'.isFrozen = FALSE
      /\ machine'.inMemoryJournalFrozen = << >> /\ machine'.inMemoryJournal = << >>
      /\ machine'.writtenJournalLen = len /\ machine'.replayJournal = PersistentJournal
      /\ machine'.superblock = machine.superblock /\ machine'.newSuperblock = None
      /\ machine'.syncReqs = machine.syncReqs
  BY <1>3 DEF FinishLoadingOtherPhase
<1>5. Ready' /\ ~HasUpdateOccurredUnacked' /\ ~HasUpdateOccurredUnacked
  BY <1>2, <1>4 DEF Ready, HasUpdateOccurredUnacked
<1>6. /\ PersistentJournal' = Disk_Journal(journal', Interval(start, len))
      /\ PersistentLoc' = machine.superblock.indirectionTableLoc
      /\ FrozenJournal' = Disk_Journal(journal', Interval(start, len))
      /\ GammaJournal' = Disk_Journal(journal', Interval(start, len)) \o << >>
      /\ EphemeralJournal' = PersistentJournal /\ DeltaJournal' = << >>
      /\ FrozenLoc' = NoLoc /\ SyncReqs' = machine.syncReqs
  <2>1. (IInv /\ Ready /\ ~HasUpdateOccurredUnacked => ViewOfReady)'
    BY ReadyView, PTL
  <2> QED
    BY <1>4, <1>5, <2>1 DEF ViewOfReady
<1>7. journal' = journal
  BY DEF dvars
<1>8. /\ PersistentJournal = Disk_Journal(journal, Interval(start, len))
      /\ FrozenJournal = Disk_Journal(journal, Interval(start, len))
      /\ GammaJournal = Disk_Journal(journal, Interval(start, len)) \o << >>
  BY <1>2 DEF PersistentJournal, FrozenJournal, FrozenInterval, GammaJournal, GammaInterval, GammaLen, PersistentInterval
<1>9. /\ EphemeralJournal = PersistentJournal /\ DeltaJournal = << >>
      /\ FrozenLoc = NoLoc /\ SyncReqs = machine.syncReqs
      /\ PersistentLoc = machine.superblock.indirectionTableLoc
  BY <1>2, <1>5 DEF EphemeralJournal, DeltaJournal, FrozenLoc, SyncReqs, PersistentLoc
<1> QED
  BY <1>6, <1>7, <1>8, <1>9, StutterView

\* A crash leaves the persistent journal and nothing else.
LEMMA CrashView == IInv /\ Crash => JV!JCrash
<1> SUFFICES ASSUME IInv, machine' = StartState, DCrash, vop' = CrashVOp PROVE JV!JCrash
  BY DEF Crash
<1>1. ~Ready' /\ machine'.syncReqs = NoSyncReqs
  BY DEF StartState, Ready
<1>2. superblock' = superblock
  BY DEF DCrash
<1>3. SuperblockOfDisk' = SuperblockOfDisk /\ PersistentInterval' = PersistentInterval /\ PersistentLoc' = PersistentLoc
  BY <1>2 DEF SuperblockOfDisk, PersistentInterval, PersistentLoc
<1>4. FrozenInterval' = PersistentInterval /\ GammaInterval' = PersistentInterval
  BY <1>1, <1>3 DEF FrozenInterval, GammaInterval, GammaLen, PersistentInterval
<1>5. Disk_Journal(journal', PersistentInterval) = Disk_Journal(journal, PersistentInterval)
  BY CrashKeeps DEF Disk_Journal
<1>6. PersistentJournal' = PersistentJournal /\ FrozenJournal' = PersistentJournal
  BY <1>3, <1>4, <1>5 DEF PersistentJournal, FrozenJournal
<1>7. EphemeralJournal' = PersistentJournal /\ DeltaJournal' = << >> /\ FrozenLoc' = NoLoc
  BY <1>1, <1>6 DEF EphemeralJournal, DeltaJournal, FrozenLoc
<1>8. GammaJournal' = PersistentJournal
  <2>1. GammaJournal' = PersistentJournal \o << >>
    BY <1>1, <1>4, <1>5 DEF GammaJournal, PersistentJournal
  <2>2. PersistentJournal \in Seq(JournalEntry)
    BY ViewTypes
  <2> HIDE DEF PersistentJournal
  <2> QED
    BY <2>1, <2>2
<1>9. SyncReqs' = NoSyncReqs
  BY <1>1 DEF SyncReqs, HasUpdateOccurredUnacked
<1> QED
  BY <1>3, <1>6, <1>7, <1>8, <1>9, SameOperators DEF JV!JCrash

\* Steps of a ready machine that only change what it waits for.
LEMMA WriteBackJournalRespView == IInv /\ WriteBackJournalRespStep => JV!JStutter
<1> SUFFICES ASSUME IInv, NEW id \in ReqId, WriteBackJournalResp(id), AckWriteJournal(id),
                    vop' = JournalInternalOp
             PROVE  JV!JStutter
  BY DEF WriteBackJournalRespStep
<1>1. machine \in ReadyState /\ Ready
  BY Phases DEF WriteBackJournalResp, IInv, Types
<1>2. machine' = [machine EXCEPT !.outstandingJournalWrites = @ \ {id}] /\ UNCHANGED <<superblock, journal>>
  BY DEF WriteBackJournalResp, AckWriteJournal
<1>3. /\ machine'.phase = machine.phase
      /\ machine'.superblock = machine.superblock
      /\ machine'.writtenJournalLen = machine.writtenJournalLen
      /\ machine'.frozenJournalPosition = machine.frozenJournalPosition
      /\ machine'.isFrozen = machine.isFrozen
      /\ machine'.inMemoryJournalFrozen = machine.inMemoryJournalFrozen
      /\ machine'.whichSuperblock = machine.whichSuperblock
      /\ machine'.newSuperblock = machine.newSuperblock
      /\ machine'.commitStatus = machine.commitStatus
      /\ machine'.inMemoryJournal = machine.inMemoryJournal
      /\ machine'.replayJournal = machine.replayJournal
      /\ machine'.frozenLoc = machine.frozenLoc /\ machine'.syncReqs = machine.syncReqs
  BY <1>1, <1>2 DEF ReadyState
<1>4. /\ PersistentJournal' = PersistentJournal /\ FrozenJournal' = FrozenJournal
      /\ GammaJournal' = GammaJournal /\ PersistentLoc' = PersistentLoc
      /\ HasUpdateOccurredUnacked' <=> HasUpdateOccurredUnacked
      /\ Ready' <=> Ready
  BY <1>2, <1>3, DiskViewSame
<1>5. EphemeralJournal' = EphemeralJournal /\ DeltaJournal' = DeltaJournal /\ FrozenLoc' = FrozenLoc /\ SyncReqs' = SyncReqs
  BY <1>1, <1>3, <1>4 DEF EphemeralJournal, DeltaJournal, FrozenLoc, SyncReqs
<1> QED
  BY <1>4, <1>5, StutterView

\* The superblock of a new commit is on no slot yet.
LEMMA CommitStartsView ==
    ASSUME IInv, CommitEnabled, NEW sb, NEW id, NEW status,
           sb.counter = IncrementSuperblockCounter(machine.superblock.counter),
           machine' = [machine EXCEPT !.newSuperblock = sb, !.superblockWrite = id, !.commitStatus = status],
           UNCHANGED <<superblock, journal>>, vop' = JournalInternalOp
    PROVE  JV!JStutter
<1>1. machine \in ReadyState /\ Ready /\ ~Committing /\ machine.newSuperblock = None
  BY Phases DEF CommitEnabled, IInv, Types, Committing, SuperblockWriteInv
<1>2. /\ machine'.phase = machine.phase
      /\ machine'.superblock = machine.superblock
      /\ machine'.writtenJournalLen = machine.writtenJournalLen
      /\ machine'.frozenJournalPosition = machine.frozenJournalPosition
      /\ machine'.isFrozen = machine.isFrozen
      /\ machine'.inMemoryJournalFrozen = machine.inMemoryJournalFrozen
      /\ machine'.whichSuperblock = machine.whichSuperblock
      /\ machine'.newSuperblock = sb
      /\ machine'.inMemoryJournal = machine.inMemoryJournal
      /\ machine'.replayJournal = machine.replayJournal
      /\ machine'.frozenLoc = machine.frozenLoc /\ machine'.syncReqs = machine.syncReqs
  BY <1>1 DEF ReadyState
<1>3. ~HasUpdateOccurredUnacked
  BY <1>1 DEF HasUpdateOccurredUnacked
<1>4. ~HasUpdateOccurredUnacked'
  <2> DEFINE which == machine.whichSuperblock
  <2>1. which \in Slot /\ superblock[which] = machine.superblock /\ SelectSuperblockIndex(superblock) = which
    BY <1>1, <1>3, ReadyFields DEF IInv, SuperblockInv
  <2>2. superblock \in [Slot -> SuperblockSet]
    BY DEF IInv, Types, DiskTypes
  <2>3. ASSUME superblock[OtherSlot(which)] = sb PROVE FALSE
    <3> HIDE DEF which
    <3>1. SelectSuperblockIndex(superblock) = OtherSlot(which)
      BY <2>1, <2>2, <2>3, SelectNewer
    <3> QED
      BY <2>1, <3>1, OtherSlots
  <2> QED
    BY <1>2, <2>3 DEF HasUpdateOccurredUnacked
<1>5. /\ PersistentJournal' = PersistentJournal /\ FrozenJournal' = FrozenJournal
      /\ GammaJournal' = GammaJournal /\ PersistentLoc' = PersistentLoc
      /\ Ready' <=> Ready
  BY <1>2, <1>3, <1>4, DiskViewSame
<1>6. EphemeralJournal' = EphemeralJournal /\ DeltaJournal' = DeltaJournal /\ FrozenLoc' = FrozenLoc /\ SyncReqs' = SyncReqs
  BY <1>1, <1>2, <1>3, <1>4, <1>5 DEF EphemeralJournal, DeltaJournal, FrozenLoc, SyncReqs
<1> QED
  BY <1>5, <1>6, StutterView

\* Starting a commit is invisible in the view.
LEMMA CommitReqView ==
    IInv /\ (WriteBackSuperblockReq_AdvanceLog_Step \/ WriteBackSuperblockReq_AdvanceLocation_Step) => JV!JStutter
<1>1. ASSUME IInv, NEW id \in ReqId, NEW which \in Slot, vop' = JournalInternalOp,
             WriteBackSuperblockReq_AdvanceLog(id, which, AdvanceLogSuperblock),
             RecvWriteSuperblock(id, which, AdvanceLogSuperblock)
      PROVE  JV!JStutter
  <2> DEFINE sb == AdvanceLogSuperblock
             status == "CommitAdvanceLog"
  <2>1. sb.counter = IncrementSuperblockCounter(machine.superblock.counter)
    BY DEF AdvanceLogSuperblock, Superblock
  <2>2. /\ machine' = [machine EXCEPT !.newSuperblock = sb, !.superblockWrite = id, !.commitStatus = status]
        /\ CommitEnabled
    BY <1>1 DEF WriteBackSuperblockReq_AdvanceLog
  <2>3. UNCHANGED <<superblock, journal>>
    BY <1>1 DEF RecvWriteSuperblock
  <2> HIDE DEF sb, status
  <2> QED
    BY <1>1, <2>1, <2>2, <2>3, CommitStartsView
<1>2. ASSUME IInv, NEW id \in ReqId, NEW which \in Slot, vop' = JournalInternalOp,
             WriteBackSuperblockReq_AdvanceLocation(id, which, AdvanceLocationSuperblock),
             RecvWriteSuperblock(id, which, AdvanceLocationSuperblock)
      PROVE  JV!JStutter
  <2> DEFINE sb == AdvanceLocationSuperblock
             status == "CommitAdvanceLocation"
  <2>1. sb.counter = IncrementSuperblockCounter(machine.superblock.counter)
    BY DEF AdvanceLocationSuperblock, Superblock
  <2>2. /\ machine' = [machine EXCEPT !.newSuperblock = sb, !.superblockWrite = id, !.commitStatus = status]
        /\ CommitEnabled
    BY <1>2 DEF WriteBackSuperblockReq_AdvanceLocation
  <2>3. UNCHANGED <<superblock, journal>>
    BY <1>2 DEF RecvWriteSuperblock
  <2> HIDE DEF sb, status
  <2> QED
    BY <1>2, <2>1, <2>2, <2>3, CommitStartsView
<1> QED
  BY <1>1, <1>2 DEF WriteBackSuperblockReq_AdvanceLog_Step, WriteBackSuperblockReq_AdvanceLocation_Step

\* Sync requests are seen in the same order of states, however far the commit has come.
LEMMA SyncView ==
    ASSUME IInv, UNCHANGED dvars, NEW id \in SyncId, NEW st \in {"NoReq", "State3"},
           machine' = [machine EXCEPT !.syncReqs[id] = st]
    PROVE  /\ PersistentJournal' = PersistentJournal /\ FrozenJournal' = FrozenJournal
           /\ EphemeralJournal' = EphemeralJournal /\ GammaJournal' = GammaJournal
           /\ DeltaJournal' = DeltaJournal /\ PersistentLoc' = PersistentLoc
           /\ FrozenLoc' = FrozenLoc
           /\ SyncReqs' = [SyncReqs EXCEPT ![id] = st]
           /\ machine.syncReqs[id] \in {"NoReq", "State1"} => SyncReqs[id] = machine.syncReqs[id]
<1>1. machine \in MachineState
  BY DEF IInv, Types
<1>2. machine'.phase = machine.phase /\ machine'.syncReqs = [machine.syncReqs EXCEPT ![id] = st]
  BY <1>1 DEF MachineState, LoadingSuperblockState, LoadingOtherState, ReadyState
<1>3. Ready => machine \in ReadyState
  BY <1>1, Phases
<1>4. Ready => /\ machine'.superblock = machine.superblock
               /\ machine'.writtenJournalLen = machine.writtenJournalLen
               /\ machine'.frozenJournalPosition = machine.frozenJournalPosition
               /\ machine'.isFrozen = machine.isFrozen
               /\ machine'.inMemoryJournalFrozen = machine.inMemoryJournalFrozen
               /\ machine'.whichSuperblock = machine.whichSuperblock
               /\ machine'.newSuperblock = machine.newSuperblock
               /\ machine'.commitStatus = machine.commitStatus
               /\ machine'.inMemoryJournal = machine.inMemoryJournal
               /\ machine'.replayJournal = machine.replayJournal
               /\ machine'.frozenLoc = machine.frozenLoc
  BY <1>3 DEF ReadyState
<1>5. UNCHANGED <<superblock, journal>>
  BY DEF dvars
<1>6. /\ PersistentJournal' = PersistentJournal /\ FrozenJournal' = FrozenJournal
      /\ GammaJournal' = GammaJournal /\ PersistentLoc' = PersistentLoc
      /\ HasUpdateOccurredUnacked' <=> HasUpdateOccurredUnacked
      /\ Ready' <=> Ready
  BY <1>2, <1>4, <1>5, DiskViewSame
<1>7. EphemeralJournal' = EphemeralJournal /\ DeltaJournal' = DeltaJournal /\ FrozenLoc' = FrozenLoc
  <2>1. CASE Ready
    BY <1>4, <1>6, <2>1 DEF EphemeralJournal, DeltaJournal, FrozenLoc
  <2>2. CASE ~Ready
    BY <1>6, <2>2 DEF EphemeralJournal, DeltaJournal, FrozenLoc
  <2> QED
    BY <2>1, <2>2
<1>8. machine.syncReqs \in [SyncId -> SyncReqStatus]
  BY ViewTypes
<1>9. CASE HasUpdateOccurredUnacked
  <2>1. SyncReqs' = SyncReqs2to1([machine.syncReqs EXCEPT ![id] = st]) /\ SyncReqs = SyncReqs2to1(machine.syncReqs)
    BY <1>2, <1>6, <1>9 DEF SyncReqs
  <2> DEFINE r == machine.syncReqs
  <2> HIDE DEF r
  <2>2. SyncReqs2to1([r EXCEPT ![id] = st]) = [SyncReqs2to1(r) EXCEPT ![id] = st]
    BY <1>8 DEF SyncReqs2to1, r
  <2>3. r[id] \in {"NoReq", "State1"} => SyncReqs2to1(r)[id] = r[id]
    BY DEF SyncReqs2to1
  <2> QED
    BY <1>6, <1>7, <2>1, <2>2, <2>3 DEF r
<1>10. CASE ~HasUpdateOccurredUnacked
  BY <1>2, <1>6, <1>7, <1>10 DEF SyncReqs
<1> QED
  BY <1>9, <1>10

\* A sync request enters the view.
LEMMA PushSyncView == IInv /\ PushSyncReqStep => JV!PushSync
<1> SUFFICES ASSUME IInv, UNCHANGED dvars, NEW id \in SyncId, PushSyncReq(id), vop' = PushSyncVOp(id)
             PROVE  JV!PushSync
  BY DEF PushSyncReqStep
<1>1. machine.syncReqs[id] = "NoReq" /\ machine' = [machine EXCEPT !.syncReqs[id] = "State3"]
  BY DEF PushSyncReq
<1> QED
  BY <1>1, SyncView, SameOperators DEF JV!PushSync, JV!journals

\* A sync request that is done leaves the view.
LEMMA PopSyncView == IInv /\ PopSyncReqStep => JV!PopSync
<1> SUFFICES ASSUME IInv, UNCHANGED dvars, NEW id \in SyncId, PopSyncReq(id), vop' = PopSyncVOp(id)
             PROVE  JV!PopSync
  BY DEF PopSyncReqStep
<1>1. machine.syncReqs[id] = "State1" /\ machine' = [machine EXCEPT !.syncReqs[id] = "NoReq"]
  BY DEF PopSyncReq
<1> QED
  BY <1>1, SyncView, SameOperators DEF JV!PopSync, JV!journals

\* A read the machine does not wait for is invisible in the view.
LEMMA NoOpView == IInv /\ NoOpStep => JV!JStutter
<1> SUFFICES ASSUME IInv, NoOpStep PROVE JV!JStutter
  OBVIOUS
<1>1. UNCHANGED <<machine, superblock, journal>> /\ vop' \in {JournalInternalOp, StatesInternalOp}
  BY DEF NoOpStep, dvars, AckReadSuperblock, AckReadJournal
<1>2. /\ PersistentJournal' = PersistentJournal /\ FrozenJournal' = FrozenJournal
      /\ GammaJournal' = GammaJournal /\ PersistentLoc' = PersistentLoc
      /\ HasUpdateOccurredUnacked' <=> HasUpdateOccurredUnacked
      /\ Ready' <=> Ready
  BY <1>1, DiskViewSame
<1>3. EphemeralJournal' = EphemeralJournal /\ DeltaJournal' = DeltaJournal /\ FrozenLoc' = FrozenLoc /\ SyncReqs' = SyncReqs
  <2>1. CASE Ready
    BY <1>1, <1>2, <2>1 DEF EphemeralJournal, DeltaJournal, FrozenLoc, SyncReqs
  <2>2. CASE ~Ready
    BY <1>1, <1>2, <2>2 DEF EphemeralJournal, DeltaJournal, FrozenLoc, SyncReqs
  <2> QED
    BY <2>1, <2>2
<1> QED
  BY <1>1, <1>2, <1>3, StutterView

\* The view when the commit that is under way has reached the disk.
ViewOfCommitted ==
    LET start == machine.superblock.journalStart
        written == machine.writtenJournalLen
        position == machine.frozenJournalPosition
    IN  /\ EphemeralJournal = machine.replayJournal /\ DeltaJournal = machine.inMemoryJournal
        /\ FrozenLoc = machine.frozenLoc /\ SyncReqs = SyncReqs2to1(machine.syncReqs)
        /\ machine.isFrozen =>
              FrozenJournal = Disk_Journal(journal, Interval(JournalPosAdd(start, position), written - position))
        /\ ~machine.isFrozen => FrozenJournal = Disk_Journal(journal, Interval(start, written))
        /\ machine.commitStatus = "CommitAdvanceLog" =>
              /\ PersistentJournal = Disk_Journal(journal, Interval(start, written))
              /\ PersistentLoc = machine.superblock.indirectionTableLoc
        /\ machine.commitStatus = "CommitAdvanceLocation" =>
              /\ machine.isFrozen
              /\ PersistentJournal = Disk_Journal(journal, Interval(JournalPosAdd(start, position), written - position))
              /\ PersistentLoc = machine.frozenLoc
        /\ GammaJournal = PersistentJournal

\* The view is read off the machine when its commit has reached the disk unanswered.
LEMMA CommittedView == IInv /\ Ready /\ HasUpdateOccurredUnacked => ViewOfCommitted
<1> SUFFICES ASSUME IInv, Ready, HasUpdateOccurredUnacked PROVE ViewOfCommitted
  OBVIOUS
<1> DEFINE start == machine.superblock.journalStart
           written == machine.writtenJournalLen
           position == machine.frozenJournalPosition
<1>1. /\ SuperblockOfDisk = machine.newSuperblock /\ Committing
  BY ChosenSuperblock DEF IInv
<1>2. machine.inMemoryJournalFrozen = << >>
  BY <1>1 DEF IInv, SuperblockWriteInv
<1>3. machine.commitStatus \in {"CommitAdvanceLog", "CommitAdvanceLocation"}
  BY <1>1, Phases, ReadyFields DEF Committing, IInv, Types
<1>4. /\ EphemeralJournal = machine.replayJournal /\ DeltaJournal = machine.inMemoryJournal
      /\ FrozenLoc = machine.frozenLoc /\ SyncReqs = SyncReqs2to1(machine.syncReqs)
  BY DEF EphemeralJournal, DeltaJournal, FrozenLoc, SyncReqs
<1>5. /\ machine.isFrozen =>
            FrozenJournal = Disk_Journal(journal, Interval(JournalPosAdd(start, position), written - position))
      /\ ~machine.isFrozen => FrozenJournal = Disk_Journal(journal, Interval(start, written))
  BY DEF FrozenJournal, FrozenInterval
<1>6. PersistentJournal \in Seq(JournalEntry)
  BY ViewTypes
<1>7. ASSUME GammaInterval = PersistentInterval PROVE GammaJournal = PersistentJournal
  <2>1. GammaJournal = PersistentJournal \o << >>
    BY <1>2, <1>7 DEF GammaJournal, PersistentJournal
  <2> QED
    BY <1>6, <2>1
<1>8. CASE machine.commitStatus = "CommitAdvanceLog"
  <2>1. /\ SuperblockOfDisk.journalStart = start /\ SuperblockOfDisk.journalLen = written
        /\ SuperblockOfDisk.indirectionTableLoc = machine.superblock.indirectionTableLoc
    BY <1>1, <1>8, CommitFields DEF IInv
  <2>2. PersistentInterval = Interval(start, written) /\ GammaInterval = PersistentInterval
    BY <1>8, <2>1 DEF PersistentInterval, GammaInterval, GammaLen, HasLocationUpdateOccurredUnacked
  <2>3. PersistentLoc = machine.superblock.indirectionTableLoc
    BY <2>1 DEF PersistentLoc
  <2>4. PersistentJournal = Disk_Journal(journal, Interval(start, written))
    BY <2>2 DEF PersistentJournal
  <2> QED
    BY <1>4, <1>5, <1>7, <1>8, <2>2, <2>3, <2>4 DEF ViewOfCommitted
<1>9. CASE machine.commitStatus = "CommitAdvanceLocation"
  <2>1. /\ SuperblockOfDisk.journalStart = JournalPosAdd(start, position)
        /\ SuperblockOfDisk.journalLen = written - position
        /\ SuperblockOfDisk.indirectionTableLoc = machine.frozenLoc /\ machine.isFrozen
    BY <1>1, <1>9, CommitFields DEF IInv
  <2>2. /\ PersistentInterval = Interval(JournalPosAdd(start, position), written - position)
        /\ GammaInterval = PersistentInterval
    BY <1>9, <2>1 DEF PersistentInterval, GammaInterval, GammaLen, HasLocationUpdateOccurredUnacked
  <2>3. PersistentLoc = machine.frozenLoc
    BY <2>1 DEF PersistentLoc
  <2>4. PersistentJournal = Disk_Journal(journal, Interval(JournalPosAdd(start, position), written - position))
    BY <2>2 DEF PersistentJournal
  <2> QED
    BY <1>4, <1>5, <1>7, <1>9, <2>1, <2>2, <2>3, <2>4 DEF ViewOfCommitted
<1> QED
  BY <1>3, <1>8, <1>9

\* A commit becomes persistent when the disk writes the superblock.
LEMMA DiskInternalView == IInv /\ IInv' /\ DiskInternal => JV!ExtendLog1 \/ JV!Move1to2 \/ JV!JStutter
<1> SUFFICES ASSUME IInv, IInv', NEW which \in Slot, ProcessWriteSuperblock(which),
                    UNCHANGED machine, vop' = JournalInternalOp
             PROVE  JV!ExtendLog1 \/ JV!Move1to2 \/ JV!JStutter
  BY DEF DiskInternal
<1>1. /\ Ready /\ Committing /\ machine \in ReadyState /\ which = OtherSlot(machine.whichSuperblock)
      /\ superblock' = [superblock EXCEPT ![which] = machine.newSuperblock]
      /\ machine.newSuperblock # None
  BY ProcessedWrite
<1>2. journal' = journal
  BY DEF ProcessWriteSuperblock
<1>3. superblock \in [Slot -> SuperblockSet]
  BY DEF IInv, Types, DiskTypes
<1>4. Ready' /\ HasUpdateOccurredUnacked'
  <2>1. superblock'[which] = machine.newSuperblock
    BY <1>1, <1>3
  <2> QED
    BY <1>1, <2>1 DEF Ready, HasUpdateOccurredUnacked
<1>5. CASE HasUpdateOccurredUnacked
  <2>1. superblock' = superblock
    BY <1>1, <1>3, <1>5 DEF HasUpdateOccurredUnacked
  <2>2. /\ PersistentJournal' = PersistentJournal /\ FrozenJournal' = FrozenJournal
        /\ GammaJournal' = GammaJournal /\ PersistentLoc' = PersistentLoc
    BY <1>2, <2>1, DiskViewSame
  <2>3. EphemeralJournal' = EphemeralJournal /\ DeltaJournal' = DeltaJournal /\ FrozenLoc' = FrozenLoc /\ SyncReqs' = SyncReqs
    BY <1>1, <1>4, <1>5 DEF EphemeralJournal, DeltaJournal, FrozenLoc, SyncReqs
  <2> QED
    BY <2>2, <2>3, StutterView
<1>6. CASE ~HasUpdateOccurredUnacked
  <2>1. ViewOfReady
    BY <1>1, <1>6, ReadyView
  <2>2. (IInv /\ Ready /\ HasUpdateOccurredUnacked => ViewOfCommitted)'
    BY CommittedView, PTL
  <2>3. ViewOfCommitted'
    BY <1>4, <2>2
  <2>4. machine.inMemoryJournalFrozen = << >>
    BY <1>1 DEF IInv, SuperblockWriteInv
  <2>5. machine.commitStatus \in {"CommitAdvanceLog", "CommitAdvanceLocation"}
    BY <1>1, ReadyFields DEF Committing
  <2>6. FrozenJournal' = FrozenJournal
    BY <1>1, <1>2, <2>1, <2>3 DEF ViewOfReady, ViewOfCommitted
  <2>7. /\ EphemeralJournal' = EphemeralJournal /\ DeltaJournal' = DeltaJournal /\ FrozenLoc' = FrozenLoc
        /\ SyncReqs' = SyncReqs2to1(SyncReqs)
    BY <2>1, <2>3 DEF ViewOfReady, ViewOfCommitted
  <2>8. CASE machine.commitStatus = "CommitAdvanceLog"
    <3>1. PersistentJournal' = GammaJournal
      <4>1. GammaJournal = Disk_Journal(journal, Interval(machine.superblock.journalStart, machine.writtenJournalLen)) \o << >>
        BY <2>1, <2>4 DEF ViewOfReady
      <4>2. PersistentJournal' = Disk_Journal(journal, Interval(machine.superblock.journalStart, machine.writtenJournalLen))
        BY <1>2, <2>3, <2>8 DEF ViewOfCommitted
      <4>3. Disk_Journal(journal, GammaInterval) \in Seq(JournalEntry)
        BY ViewTypes
      <4>4. GammaInterval = Interval(machine.superblock.journalStart, machine.writtenJournalLen)
        BY <1>1, <1>6, PersistentSeen DEF GammaInterval, GammaLen, HasLocationUpdateOccurredUnacked
      <4> DEFINE d == Disk_Journal(journal, Interval(machine.superblock.journalStart, machine.writtenJournalLen))
      <4> HIDE DEF d
      <4>5. d \in Seq(JournalEntry) /\ GammaJournal = d \o << >> /\ PersistentJournal' = d
        BY <4>1, <4>2, <4>3, <4>4 DEF d
      <4> QED
        BY <4>5
    <3>2. GammaJournal' = GammaJournal /\ PersistentLoc' = PersistentLoc
      BY <2>1, <2>3, <2>8, <3>1 DEF ViewOfReady, ViewOfCommitted
    <3> QED
      BY <2>6, <2>7, <3>1, <3>2, SameOperators DEF JV!ExtendLog1
  <2>9. CASE machine.commitStatus = "CommitAdvanceLocation"
    <3>1. PersistentJournal' = FrozenJournal /\ GammaJournal' = FrozenJournal /\ PersistentLoc' = FrozenLoc
      BY <1>2, <2>1, <2>3, <2>9 DEF ViewOfReady, ViewOfCommitted
    <3>2. FrozenLoc # NoLoc
      BY <1>1, <2>1, <2>9, CommitFields DEF ViewOfReady, IInv
    <3> QED
      BY <2>6, <2>7, <3>1, <3>2, SameOperators DEF JV!Move1to2
  <2> QED
    BY <2>5, <2>8, <2>9
<1> QED
  BY <1>5, <1>6

\* The machine learns of it.
LEMMA WriteBackSuperblockRespView == IInv /\ IInv' /\ WriteBackSuperblockRespStep => JV!CleanUp \/ JV!JStutter
<1> SUFFICES ASSUME IInv, IInv', NEW id \in ReqId, NEW which \in Slot, AckWriteSuperblock(id, which),
                    \/ WriteBackSuperblockResp_AdvanceLog(id) /\ vop' = JournalInternalOp
                    \/ WriteBackSuperblockResp_AdvanceLocation(id) /\ vop' = CleanUpOp
             PROVE  JV!CleanUp \/ JV!JStutter
  BY DEF WriteBackSuperblockRespStep
<1>1. Ready /\ machine \in ReadyState
  BY Phases DEF WriteBackSuperblockResp_AdvanceLog, WriteBackSuperblockResp_AdvanceLocation, IInv, Types
<1>2. HasUpdateOccurredUnacked /\ Committing /\ machine.inMemoryJournalFrozen = << >>
  BY <1>1, AckedWrite
<1>3. ViewOfCommitted
  BY <1>1, <1>2, CommittedView
<1>4. superblock' = superblock /\ journal' = journal
  BY DEF AckWriteSuperblock
<1>5. (IInv /\ Ready /\ ~HasUpdateOccurredUnacked => ViewOfReady)'
  BY ReadyView, PTL
<1> DEFINE start == machine.superblock.journalStart
           written == machine.writtenJournalLen
           position == machine.frozenJournalPosition
<1>6. PersistentJournal \in Seq(JournalEntry)
  BY ViewTypes
<1>7. CASE WriteBackSuperblockResp_AdvanceLog(id) /\ vop' = JournalInternalOp
  <2>1. machine.commitStatus = "CommitAdvanceLog"
    BY <1>7 DEF WriteBackSuperblockResp_AdvanceLog
  <2>2. /\ machine'.phase = machine.phase /\ machine'.newSuperblock = None
        /\ machine'.superblock = machine.newSuperblock
        /\ machine'.inMemoryJournalFrozen = machine.inMemoryJournalFrozen
        /\ machine'.inMemoryJournal = machine.inMemoryJournal
        /\ machine'.writtenJournalLen = machine.writtenJournalLen
        /\ machine'.frozenJournalPosition = machine.frozenJournalPosition
        /\ machine'.frozenLoc = machine.frozenLoc
        /\ machine'.isFrozen = machine.isFrozen
        /\ machine'.replayJournal = machine.replayJournal
        /\ machine'.syncReqs = SyncReqs2to1(machine.syncReqs)
    BY <1>1, <1>7 DEF ReadyState, WriteBackSuperblockResp_AdvanceLog
  <2>3. Ready' /\ ~HasUpdateOccurredUnacked'
    BY <1>1, <2>2 DEF Ready, HasUpdateOccurredUnacked
  <2>4. ViewOfReady'
    BY <1>5, <2>3
  <2>5. /\ machine.newSuperblock.journalStart = start /\ machine.newSuperblock.journalLen = written
        /\ machine.newSuperblock.indirectionTableLoc = machine.superblock.indirectionTableLoc
    BY <1>1, <2>1, CommitFields DEF IInv
  <2>6. /\ PersistentJournal' = PersistentJournal /\ PersistentLoc' = PersistentLoc
        /\ EphemeralJournal' = EphemeralJournal /\ DeltaJournal' = DeltaJournal
        /\ FrozenLoc' = FrozenLoc /\ SyncReqs' = SyncReqs
    BY <1>3, <1>4, <2>1, <2>2, <2>4, <2>5 DEF ViewOfReady, ViewOfCommitted
  <2>7. FrozenJournal' = FrozenJournal
    BY <1>1, <1>3, <1>4, <2>2, <2>4, <2>5 DEF ViewOfReady, ViewOfCommitted
  <2>8. GammaJournal' = GammaJournal
    <3>1. GammaJournal' = PersistentJournal \o << >> /\ GammaJournal = PersistentJournal
      BY <1>2, <1>3, <1>4, <2>1, <2>2, <2>4, <2>5 DEF ViewOfReady, ViewOfCommitted
    <3> QED
      BY <1>6, <3>1
  <2> QED
    BY <1>7, <2>6, <2>7, <2>8, StutterView
<1>8. CASE WriteBackSuperblockResp_AdvanceLocation(id) /\ vop' = CleanUpOp
  <2>1. machine.commitStatus = "CommitAdvanceLocation"
    BY <1>8 DEF WriteBackSuperblockResp_AdvanceLocation
  <2>2. /\ machine'.phase = machine.phase /\ machine'.newSuperblock = None
        /\ machine'.superblock = machine.newSuperblock
        /\ machine'.inMemoryJournalFrozen = machine.inMemoryJournalFrozen
        /\ machine'.inMemoryJournal = machine.inMemoryJournal
        /\ machine'.writtenJournalLen = written - position
        /\ machine'.frozenLoc = NoLoc
        /\ machine'.isFrozen = FALSE
        /\ machine'.replayJournal = machine.replayJournal
        /\ machine'.syncReqs = SyncReqs2to1(machine.syncReqs)
    BY <1>1, <1>8 DEF ReadyState, WriteBackSuperblockResp_AdvanceLocation
  <2>3. Ready' /\ ~HasUpdateOccurredUnacked'
    BY <1>1, <2>2 DEF Ready, HasUpdateOccurredUnacked
  <2>4. ViewOfReady'
    BY <1>5, <2>3
  <2>5. /\ machine.newSuperblock.journalStart = JournalPosAdd(start, position)
        /\ machine.newSuperblock.journalLen = written - position
        /\ machine.newSuperblock.indirectionTableLoc = machine.frozenLoc
    BY <1>1, <2>1, CommitFields DEF IInv
  <2>6. /\ PersistentJournal' = PersistentJournal /\ PersistentLoc' = PersistentLoc
        /\ EphemeralJournal' = EphemeralJournal /\ DeltaJournal' = DeltaJournal
        /\ FrozenLoc' = NoLoc /\ FrozenLoc = PersistentLoc /\ SyncReqs' = SyncReqs
    BY <1>3, <1>4, <2>1, <2>2, <2>4, <2>5 DEF ViewOfReady, ViewOfCommitted
  <2>7. FrozenJournal' = FrozenJournal
    BY <1>3, <1>4, <2>1, <2>2, <2>4, <2>5 DEF ViewOfReady, ViewOfCommitted
  <2>8. GammaJournal' = GammaJournal
    <3>1. GammaJournal' = PersistentJournal \o << >> /\ GammaJournal = PersistentJournal
      BY <1>2, <1>3, <1>4, <2>1, <2>2, <2>4, <2>5 DEF ViewOfReady, ViewOfCommitted
    <3> QED
      BY <1>6, <3>1
  <2> QED
    BY <1>8, <2>6, <2>7, <2>8, SameOperators DEF JV!CleanUp, JV!journals
<1> QED
  BY <1>7, <1>8

\* The frozen table has been written somewhere.
LEMMA ReceiveFrozenLocView == IInv /\ ReceiveFrozenLocStep => JV!ObtainFrozenLoc
<1> SUFFICES ASSUME IInv, NEW loc \in Loc, ReceiveFrozenLoc(loc), UNCHANGED dvars, vop' = SendFrozenLocOp(loc)
             PROVE  JV!ObtainFrozenLoc
  BY DEF ReceiveFrozenLocStep
<1>1. machine \in ReadyState /\ Ready /\ UNCHANGED <<superblock, journal>>
  BY Phases DEF ReceiveFrozenLoc, IInv, Types, dvars
<1>2. /\ machine'.phase = machine.phase
      /\ machine'.superblock = machine.superblock
      /\ machine'.writtenJournalLen = machine.writtenJournalLen
      /\ machine'.frozenJournalPosition = machine.frozenJournalPosition
      /\ machine'.isFrozen = machine.isFrozen
      /\ machine'.inMemoryJournalFrozen = machine.inMemoryJournalFrozen
      /\ machine'.whichSuperblock = machine.whichSuperblock
      /\ machine'.newSuperblock = machine.newSuperblock
      /\ machine'.commitStatus = machine.commitStatus
      /\ machine'.inMemoryJournal = machine.inMemoryJournal
      /\ machine'.replayJournal = machine.replayJournal
      /\ machine'.frozenLoc = loc /\ machine'.syncReqs = machine.syncReqs
  BY <1>1 DEF ReceiveFrozenLoc, ReadyState
<1>3. /\ PersistentJournal' = PersistentJournal /\ FrozenJournal' = FrozenJournal
      /\ GammaJournal' = GammaJournal /\ PersistentLoc' = PersistentLoc
      /\ HasUpdateOccurredUnacked' <=> HasUpdateOccurredUnacked
      /\ Ready' <=> Ready
  BY <1>1, <1>2, DiskViewSame
<1>4. EphemeralJournal' = EphemeralJournal /\ DeltaJournal' = DeltaJournal /\ FrozenLoc' = loc /\ SyncReqs' = SyncReqs
  BY <1>1, <1>2, <1>3 DEF EphemeralJournal, DeltaJournal, FrozenLoc, SyncReqs
<1> QED
  BY <1>3, <1>4, SameOperators DEF JV!ObtainFrozenLoc, JV!journals

\* A new operation leaves its entries in memory.
LEMMA AdvanceView ==
    ASSUME IInv, NEW op \in Write \cup {NoOp}, Advance(op), vop' = AdvanceOp(op, FALSE),
           Len(GammaJournal) + Len(DeltaJournal') <= MaxJournal, UNCHANGED dvars
    PROVE  JV!Move3(op)
<1>1. machine \in ReadyState /\ Ready /\ UNCHANGED <<superblock, journal>> /\ machine.replayJournal = << >>
  BY Phases DEF Advance, IInv, Types, dvars
<1>2. machine' = [machine EXCEPT !.inMemoryJournal = @ \o JournalEntriesForUIOp(op)]
  BY DEF Advance
<1>3. /\ machine'.phase = machine.phase
      /\ machine'.superblock = machine.superblock
      /\ machine'.writtenJournalLen = machine.writtenJournalLen
      /\ machine'.frozenJournalPosition = machine.frozenJournalPosition
      /\ machine'.isFrozen = machine.isFrozen
      /\ machine'.inMemoryJournalFrozen = machine.inMemoryJournalFrozen
      /\ machine'.whichSuperblock = machine.whichSuperblock
      /\ machine'.newSuperblock = machine.newSuperblock
      /\ machine'.commitStatus = machine.commitStatus
      /\ machine'.inMemoryJournal = machine.inMemoryJournal \o JournalEntriesForUIOp(op)
      /\ machine'.replayJournal = machine.replayJournal
      /\ machine'.frozenLoc = machine.frozenLoc /\ machine'.syncReqs = machine.syncReqs
  BY <1>1, <1>2 DEF ReadyState
<1>4. /\ PersistentJournal' = PersistentJournal /\ FrozenJournal' = FrozenJournal
      /\ GammaJournal' = GammaJournal /\ PersistentLoc' = PersistentLoc
      /\ HasUpdateOccurredUnacked' <=> HasUpdateOccurredUnacked
      /\ Ready' <=> Ready
  BY <1>1, <1>3, DiskViewSame
<1>5. /\ EphemeralJournal' = EphemeralJournal /\ EphemeralJournal = << >>
      /\ DeltaJournal' = DeltaJournal \o JournalEntriesForUIOp(op)
      /\ FrozenLoc' = FrozenLoc /\ SyncReqs' = SyncReqs
  BY <1>1, <1>3, <1>4 DEF EphemeralJournal, DeltaJournal, FrozenLoc, SyncReqs
<1> QED
  BY <1>4, <1>5, SameOperators DEF JV!Move3

\* A sequence is its beginning and the rest.
LEMMA CutSeq ==
    ASSUME NEW r \in Seq(JournalEntry), NEW e \in Seq(JournalEntry), Len(e) <= Len(r),
           SubSeq(r, 1, Len(e)) = e
    PROVE  r = e \o SubSeq(r, Len(e) + 1, Len(r))
<1>1. Len(e) \in Nat /\ Len(r) \in Nat
  OBVIOUS
<1> DEFINE k == Len(e)
           n == Len(r)
<1>2. 1 \in 1..n + 1 /\ k \in 1 - 1..n /\ n \in k..n
  BY <1>1
<1>3. SubSeq(r, 1, k) \o SubSeq(r, k + 1, n) = SubSeq(r, 1, n)
  BY <1>2, ConcatAdjacentSubSeq
<1>4. SubSeq(r, 1, n) = r
  BY SubSeqFull
<1> QED
  BY <1>3, <1>4

\* A replayed operation takes its entries from the front of the journal.
LEMMA ReplayView ==
    ASSUME IInv, NEW op \in Write \cup {NoOp}, Replay(op), vop' = AdvanceOp(op, TRUE), UNCHANGED dvars
    PROVE  JV!Replay(op)
<1>1. machine \in ReadyState /\ Ready /\ UNCHANGED <<superblock, journal>>
  BY Phases DEF Replay, IInv, Types, dvars
<1> DEFINE e == JournalEntriesForUIOp(op)
           r == machine.replayJournal
           rest == SubSeq(r, Len(e) + 1, Len(r))
<1>2. Len(e) <= Len(r) /\ SubSeq(r, 1, Len(e)) = e /\ machine' = [machine EXCEPT !.replayJournal = rest]
  BY DEF Replay
<1>3. e \in Seq(JournalEntry) /\ r \in Seq(JournalEntry)
  BY <1>1, ReadyFields, EntriesType
<1>4. r = e \o rest
  <2> HIDE DEF e, r
  <2> QED
    BY <1>2, <1>3, CutSeq
<1> HIDE DEF rest, e
<1>5. /\ machine'.phase = machine.phase
      /\ machine'.superblock = machine.superblock
      /\ machine'.writtenJournalLen = machine.writtenJournalLen
      /\ machine'.frozenJournalPosition = machine.frozenJournalPosition
      /\ machine'.isFrozen = machine.isFrozen
      /\ machine'.inMemoryJournalFrozen = machine.inMemoryJournalFrozen
      /\ machine'.whichSuperblock = machine.whichSuperblock
      /\ machine'.newSuperblock = machine.newSuperblock
      /\ machine'.commitStatus = machine.commitStatus
      /\ machine'.inMemoryJournal = machine.inMemoryJournal
      /\ machine'.replayJournal = rest
      /\ machine'.frozenLoc = machine.frozenLoc /\ machine'.syncReqs = machine.syncReqs
  BY <1>1, <1>2 DEF ReadyState
<1>6. /\ PersistentJournal' = PersistentJournal /\ FrozenJournal' = FrozenJournal
      /\ GammaJournal' = GammaJournal /\ PersistentLoc' = PersistentLoc
      /\ HasUpdateOccurredUnacked' <=> HasUpdateOccurredUnacked
      /\ Ready' <=> Ready
  BY <1>1, <1>5, DiskViewSame
<1>7. /\ EphemeralJournal' = rest /\ EphemeralJournal = r /\ DeltaJournal' = DeltaJournal
      /\ FrozenLoc' = FrozenLoc /\ SyncReqs' = SyncReqs
  BY <1>1, <1>5, <1>6 DEF EphemeralJournal, DeltaJournal, FrozenLoc, SyncReqs
<1>8. JV!JournalEntriesForUIOp(op) = e /\ vop' = JV!AdvanceOp(op, TRUE)
  BY SameOperators DEF e
<1> QED
  BY <1>2, <1>4, <1>6, <1>7, <1>8 DEF JV!Replay, rest

\* The frozen version is the ephemeral one: nothing is left to replay on it.
LEMMA FreezeView == IInv /\ IInv' /\ FreezeStep => JV!Move2to3
<1> SUFFICES ASSUME IInv, IInv', Freeze, vop' = FreezeOp, UNCHANGED dvars PROVE JV!Move2to3
  BY DEF FreezeStep
<1>1. machine \in ReadyState /\ Ready /\ machine.superblockWrite = None /\ machine.replayJournal = << >>
  BY Phases DEF Freeze, IInv, Types
<1>2. machine.newSuperblock = None
  BY <1>1 DEF IInv, SuperblockWriteInv
<1> DEFINE f == machine.inMemoryJournalFrozen
           m == machine.inMemoryJournal
           start == machine.superblock.journalStart
           written == machine.writtenJournalLen
           d == Disk_Journal(journal, Interval(start, written))
<1>3. /\ machine'.phase = machine.phase
      /\ machine'.superblock = machine.superblock
      /\ machine'.writtenJournalLen = written
      /\ machine'.frozenJournalPosition = written
      /\ machine'.isFrozen = TRUE
      /\ machine'.inMemoryJournalFrozen = f \o m
      /\ machine'.newSuperblock = machine.newSuperblock
      /\ machine'.inMemoryJournal = << >>
      /\ machine'.replayJournal = machine.replayJournal
      /\ machine'.frozenLoc = NoLoc /\ machine'.syncReqs = SyncReqs3to2(machine.syncReqs)
  BY <1>1 DEF Freeze, EntriesFrozen, ReadyState
<1>4. ~HasUpdateOccurredUnacked /\ Ready' /\ ~HasUpdateOccurredUnacked'
  BY <1>1, <1>2, <1>3 DEF HasUpdateOccurredUnacked, Ready
<1>5. ViewOfReady
  BY <1>1, <1>4, ReadyView
<1>6. (IInv /\ Ready /\ ~HasUpdateOccurredUnacked => ViewOfReady)'
  BY ReadyView, PTL
<1>7. ViewOfReady' /\ journal' = journal
  BY <1>4, <1>6 DEF dvars
<1>8. f \in Seq(JournalEntry) /\ m \in Seq(JournalEntry) /\ start \in BlockIndex /\ written \in 0..NumJournalBlocks
  BY <1>1, ReadyFields
<1>9. d \in Seq(JournalEntry)
  <2>1. GammaInterval = Interval(start, written)
    BY <1>1, <1>4, PersistentSeen DEF GammaInterval, GammaLen, HasLocationUpdateOccurredUnacked
  <2> QED
    BY <2>1, ViewTypes
<1>10. FrozenJournal' = EphemeralJournal
  <2>1. JournalPosAdd(start, written) \in BlockIndex /\ written - written = 0
    BY <1>8, PositionOfOffset
  <2>2. FrozenJournal' = Disk_Journal(journal, Interval(JournalPosAdd(start, written), written - written))
    BY <1>3, <1>7 DEF ViewOfReady
  <2>3. FrozenJournal' = << >>
    BY <2>1, <2>2, EmptyJournal, ParseEmpty DEF Disk_Journal
  <2> QED
    BY <1>1, <1>5, <2>3 DEF ViewOfReady
<1>11. GammaJournal' = GammaJournal \o DeltaJournal
  <2>1. GammaJournal' = d \o (f \o m) /\ GammaJournal = d \o f /\ DeltaJournal = m
    BY <1>3, <1>5, <1>7 DEF ViewOfReady
  <2> HIDE DEF d, f, m
  <2> QED
    BY <1>8, <1>9, <2>1, JournalConcatAssociative
<1>12. /\ PersistentJournal' = PersistentJournal /\ PersistentLoc' = PersistentLoc
       /\ EphemeralJournal' = EphemeralJournal /\ DeltaJournal' = << >>
       /\ FrozenLoc' = NoLoc /\ SyncReqs' = SyncReqs3to2(SyncReqs)
       /\ FrozenLoc # PersistentLoc
  BY <1>3, <1>5, <1>7 DEF ViewOfReady, Freeze
<1> QED
  BY <1>10, <1>11, <1>12, SameOperators DEF JV!Move2to3

\* Entries move from memory to the disk: frozen ones stay where they were in
\* the view, others join the frozen journal.
LEMMA WriteBackJournalReqView == IInv /\ IInv' /\ WriteBackJournalReqStep => JV!ExtendLog2 \/ JV!JStutter
<1> SUFFICES ASSUME IInv, IInv', Ready, NEW id1 \in ReqId, NEW id2 \in ReqId \cup {None},
                    NEW n0 \in 1..MaxBlocksPerWrite,
                    NEW jr, jr = MarshalBatch(JournalToWrite, n0),
                    WriteBackJournalReq(id1, id2, NextJournalStart, jr),
                    RecvWriteJournal(id1, id2, NextJournalStart, jr),
                    vop' = JournalInternalOp
             PROVE  JV!ExtendLog2 \/ JV!JStutter
  BY DEF WriteBackJournalReqStep
<1> DEFINE start == machine.superblock.journalStart
           len == machine.superblock.journalLen
           position == machine.frozenJournalPosition
           written == machine.writtenJournalLen
           f == machine.inMemoryJournalFrozen
           m == machine.inMemoryJournal
           n == Len(jr)
           W == written + n
           P == IF f = << >> THEN position ELSE W
           M == IF f = << >> THEN << >> ELSE m
           d == Disk_Journal(journal, Interval(start, written))
<1>1. /\ machine \in ReadyState /\ ~Committing
      /\ start \in BlockIndex /\ written \in 0..NumJournalBlocks
      /\ jr \in Seq(Block) /\ Parses(jr) /\ ParseJournalRange(jr) = JournalToWrite
      /\ n \in Nat /\ n > 0 /\ written + Len(jr) <= NumJournalBlocks
      /\ journal' = JournalUpdate(journal, Interval(JournalPosAdd(start, written), Len(jr)), jr)
      /\ journal \in [BlockIndex -> Block \cup {None}]
  BY JournalWritten
<1>2. machine.newSuperblock = None
  BY <1>1 DEF IInv, SuperblockWriteInv
<1>3. /\ machine'.phase = machine.phase
      /\ machine'.superblock = machine.superblock
      /\ machine'.writtenJournalLen = W
      /\ machine'.frozenJournalPosition = P
      /\ machine'.isFrozen = machine.isFrozen
      /\ machine'.inMemoryJournalFrozen = << >>
      /\ machine'.newSuperblock = machine.newSuperblock
      /\ machine'.inMemoryJournal = M
      /\ machine'.replayJournal = machine.replayJournal
      /\ machine'.frozenLoc = machine.frozenLoc /\ machine'.syncReqs = SyncReqsAfterWrite
  BY <1>1 DEF WriteBackJournalReq, ReadyState
<1>4. ~HasUpdateOccurredUnacked /\ Ready' /\ ~HasUpdateOccurredUnacked'
  BY <1>2, <1>3 DEF HasUpdateOccurredUnacked, Ready
<1>5. ViewOfReady
  BY <1>4, ReadyView
<1>6. (IInv /\ Ready /\ ~HasUpdateOccurredUnacked => ViewOfReady)'
  BY ReadyView, PTL
<1>7. ViewOfReady'
  BY <1>4, <1>6
<1>8. /\ f \in Seq(JournalEntry) /\ m \in Seq(JournalEntry)
      /\ len \in 0..NumJournalBlocks /\ position \in 0..NumJournalBlocks /\ len <= written
      /\ machine.isFrozen \in BOOLEAN /\ machine.isFrozen => position <= written
      /\ f # << >> => machine.isFrozen /\ position = written
  BY <1>1, ReadyFields DEF IInv, MemoryInv, ContentInv
<1>9. /\ Disk_HasJournalRange(journal, Interval(start, len))
      /\ Disk_HasJournalRange(journal, Interval(start, written))
      /\ machine.isFrozen => Disk_HasJournalRange(journal, Interval(JournalPosAdd(start, position), written - position))
  BY DEF IInv, ContentInv, Disk_HasJournal
<1>10. d \in Seq(JournalEntry) /\ CyclicSlice(journal, Interval(start, written)) \in Seq(Block)
  <2>1. CyclicSlice(journal, Interval(start, written)) \in Seq(Block)
    <3> HIDE DEF start, written
    <3> QED
      BY <1>1, <1>9, SliceType
  <2> QED
    BY <2>1, ParseType DEF Disk_Journal
<1>11. Disk_Journal(journal', Interval(start, len)) = Disk_Journal(journal, Interval(start, len))
  <2>1. len \in 0..written
    BY <1>8
  <2> HIDE DEF start, len, written
  <2>2. CyclicSlice(journal', Interval(start, len)) = CyclicSlice(journal, Interval(start, len))
    BY <1>1, <2>1, KeptBefore
  <2> QED
    BY <2>2 DEF Disk_Journal
<1>12. Disk_Journal(journal', Interval(start, W)) = d \o JournalToWrite
  <2> HIDE DEF start, written
  <2>1. CyclicSlice(journal', Interval(start, written + Len(jr))) = CyclicSlice(journal, Interval(start, written)) \o jr
    BY <1>1, <1>9, Appended
  <2> DEFINE s == CyclicSlice(journal, Interval(start, written))
  <2> HIDE DEF s
  <2>2. s \in Seq(Block) /\ jr \in Seq(Block) /\ ParseJournalRange(jr) = JournalToWrite
    BY <1>1, <1>10 DEF s
  <2>3. ParseJournalRange(s \o jr) = ParseJournalRange(s) \o JournalToWrite
    BY <2>2, ParseConcat
  <2> QED
    BY <2>1, <2>3 DEF Disk_Journal, s
<1>13. PersistentJournal' = PersistentJournal /\ PersistentLoc' = PersistentLoc
  BY <1>3, <1>5, <1>7, <1>11 DEF ViewOfReady
<1>14. /\ EphemeralJournal' = EphemeralJournal /\ FrozenLoc' = FrozenLoc
       /\ SyncReqs' = SyncReqsAfterWrite /\ SyncReqs = machine.syncReqs
  BY <1>3, <1>5, <1>7 DEF ViewOfReady
<1>15. GammaJournal' = d \o JournalToWrite /\ GammaJournal = d \o f
  <2>1. GammaJournal' = Disk_Journal(journal', Interval(start, W)) \o << >> /\ GammaJournal = d \o f
    BY <1>3, <1>5, <1>7 DEF ViewOfReady
  <2>2. JournalToWrite \in Seq(JournalEntry)
    BY <1>8 DEF JournalToWrite
  <2> HIDE DEF d, W
  <2>3. d \o JournalToWrite \in Seq(JournalEntry)
    BY <1>10, <2>2
  <2> DEFINE x == d \o JournalToWrite
  <2> HIDE DEF x
  <2>4. x \o << >> = x
    BY <2>3 DEF x
  <2> QED
    BY <1>12, <2>1, <2>4 DEF x
<1>16. CASE f # << >>
  <2>1. JournalToWrite = f /\ SyncReqsAfterWrite = machine.syncReqs /\ M = m /\ P = W
    BY <1>16 DEF JournalToWrite, SyncReqsAfterWrite
  <2>2. GammaJournal' = GammaJournal
    BY <1>15, <2>1
  <2>3. DeltaJournal' = DeltaJournal /\ SyncReqs' = SyncReqs
    BY <1>3, <1>5, <1>7, <1>14, <2>1 DEF ViewOfReady
  <2>4. FrozenJournal' = FrozenJournal
    <3>1. written - position = 0 /\ position \in 0..NumJournalBlocks /\ machine.isFrozen
      BY <1>1, <1>8, <1>16
    <3>2. W - P = 0 /\ P \in 0..NumJournalBlocks
      <4> HIDE DEF written
      <4>1. W \in 0..NumJournalBlocks
        BY <1>1, NumJournalBlocksAssumption
      <4> QED
        BY <2>1, <4>1
    <3>3. JournalPosAdd(start, position) \in BlockIndex /\ JournalPosAdd(start, P) \in BlockIndex
      <4> HIDE DEF P
      <4> QED
        BY <1>1, <3>1, <3>2, PositionOfOffset
    <3>4. FrozenJournal = Disk_Journal(journal, Interval(JournalPosAdd(start, position), written - position))
      BY <1>5, <3>1 DEF ViewOfReady
    <3>5. FrozenJournal' = Disk_Journal(journal', Interval(JournalPosAdd(start, P), W - P))
      BY <1>3, <1>7, <3>1 DEF ViewOfReady
    <3>6. FrozenJournal = << >>
      BY <3>1, <3>3, <3>4, EmptyJournal, ParseEmpty DEF Disk_Journal
    <3>7. FrozenJournal' = << >>
      <4> HIDE DEF P, W
      <4> QED
        BY <3>2, <3>3, <3>5, EmptyJournal, ParseEmpty DEF Disk_Journal
    <3> QED
      BY <3>6, <3>7
  <2> QED
    BY <1>13, <1>14, <2>2, <2>3, <2>4, StutterView
<1>17. CASE f = << >>
  <2>1. JournalToWrite = m /\ SyncReqsAfterWrite = SyncReqs3to2(machine.syncReqs) /\ M = << >> /\ P = position
    BY <1>17 DEF JournalToWrite, SyncReqsAfterWrite
  <2>2. DeltaJournal' = << >> /\ DeltaJournal = m /\ SyncReqs' = SyncReqs3to2(SyncReqs)
    BY <1>3, <1>5, <1>7, <1>14, <2>1 DEF ViewOfReady
  <2>3. GammaJournal' = GammaJournal \o DeltaJournal
    <3>1. GammaJournal = d \o << >>
      BY <1>15, <1>17
    <3> HIDE DEF d
    <3>2. GammaJournal = d
      BY <1>10, <3>1
    <3> QED
      BY <1>15, <2>1, <2>2, <3>2
  <2>4. FrozenJournal' = FrozenJournal \o DeltaJournal
    <3>1. CASE ~machine.isFrozen
      <4>1. FrozenJournal = d /\ FrozenJournal' = Disk_Journal(journal', Interval(start, W))
        BY <1>3, <1>5, <1>7, <3>1 DEF ViewOfReady
      <4> QED
        BY <1>12, <2>1, <2>2, <4>1
    <3>2. CASE machine.isFrozen
      <4> DEFINE base == JournalPosAdd(start, position)
                 k == written - position
      <4>1. base \in BlockIndex
        BY <1>1, <1>8, PositionOfOffset
      <4>2. k \in 0..NumJournalBlocks /\ k + n <= NumJournalBlocks /\ k + n = W - position /\ position + k = written
        <5>1. position <= written
          BY <1>8, <3>2
        <5>2. written + n <= NumJournalBlocks
          BY <1>1
        <5> HIDE DEF written, position, n
        <5> QED
          BY <1>1, <1>8, <5>1, <5>2, NumJournalBlocksAssumption
      <4>3. JournalPosAdd(base, k) = JournalPosAdd(start, written)
        <5>1. position + k <= NumJournalBlocks
          BY <1>1, <4>2
        <5>2. JournalPosAdd(base, k) = JournalPosAdd(start, position + k)
          <6> HIDE DEF k, start, position
          <6> QED
            BY <1>1, <1>8, <4>2, <5>1, PositionTwice
        <5> QED
          BY <4>2, <5>2
      <4>4. Disk_HasJournalRange(journal, Interval(base, k))
        BY <1>9, <3>2
      <4>5. FrozenJournal = Disk_Journal(journal, Interval(base, k))
        BY <1>5, <3>2 DEF ViewOfReady
      <4>6. FrozenJournal' = Disk_Journal(journal', Interval(base, k + Len(jr)))
        BY <1>3, <1>7, <2>1, <3>2, <4>2 DEF ViewOfReady
      <4> HIDE DEF base, k
      <4>7. /\ k \in 0..NumJournalBlocks /\ jr \in Seq(Block) /\ journal \in [BlockIndex -> Block \cup {None}]
            /\ k + Len(jr) <= NumJournalBlocks
            /\ journal' = JournalUpdate(journal, Interval(JournalPosAdd(base, k), Len(jr)), jr)
        BY <1>1, <4>2, <4>3
      <4>8. CyclicSlice(journal', Interval(base, k + Len(jr))) = CyclicSlice(journal, Interval(base, k)) \o jr
        BY <4>1, <4>4, <4>7, Appended
      <4> DEFINE s == CyclicSlice(journal, Interval(base, k))
      <4>9. s \in Seq(Block)
        BY <4>1, <4>4, <4>7, SliceType
      <4> HIDE DEF s
      <4>10. ParseJournalRange(jr) = m
        BY <1>1, <2>1
      <4>11. ParseJournalRange(s \o jr) = ParseJournalRange(s) \o m
        BY <4>7, <4>9, <4>10, ParseConcat
      <4> QED
        BY <2>2, <4>5, <4>6, <4>8, <4>11 DEF Disk_Journal, s
    <3> QED
      BY <3>1, <3>2
  <2> QED
    BY <1>13, <1>14, <2>2, <2>3, <2>4, SameOperators DEF JV!ExtendLog2
<1> QED
  BY <1>16, <1>17

\* Every step of the journal system is a step of its view.
LEMMA NextView == IInv /\ IInv' /\ Next => JV!JNext
<1> SUFFICES ASSUME IInv, IInv', Next PROVE JV!JNext
  OBVIOUS
<1>1. CASE WriteBackJournalReqStep \/ WriteBackJournalRespStep
  BY <1>1, WriteBackJournalReqView, WriteBackJournalRespView DEF JV!JNext
<1>2. CASE WriteBackSuperblockReq_AdvanceLog_Step \/ WriteBackSuperblockReq_AdvanceLocation_Step
           \/ WriteBackSuperblockRespStep
  BY <1>2, CommitReqView, WriteBackSuperblockRespView DEF JV!JNext
<1>3. CASE PageInJournalReqStep \/ PageInJournalRespStep \/ PageInSuperblockReqStep \/ PageInSuperblockRespStep
  BY <1>3, PageInJournalView, PageInSuperblockView DEF JV!JNext
<1>4. CASE FinishLoadingSuperblockPhaseStep \/ FinishLoadingOtherPhaseStep
  BY <1>4, FinishLoadingSuperblockView, FinishLoadingOtherView DEF JV!JNext
<1>5. CASE FreezeStep \/ ReceiveFrozenLocStep
  BY <1>5, FreezeView, ReceiveFrozenLocView DEF JV!JNext
<1>6. CASE AdvanceStep
  <2>1. PICK op \in Write \cup {NoOp} : Advance(op) /\ vop' = AdvanceOp(op, FALSE)
    BY <1>6 DEF AdvanceStep
  <2>2. JV!Move3(op)
    BY <1>6, <2>1, AdvanceView DEF AdvanceStep
  <2> QED
    BY <2>2, SameOperators DEF JV!JNext
<1>7. CASE ReplayStep
  <2>1. PICK op \in Write \cup {NoOp} : Replay(op) /\ vop' = AdvanceOp(op, TRUE)
    BY <1>7 DEF ReplayStep
  <2>2. JV!Replay(op)
    BY <1>7, <2>1, ReplayView DEF ReplayStep
  <2> QED
    BY <2>2, SameOperators DEF JV!JNext
<1>8. CASE PushSyncReqStep \/ PopSyncReqStep \/ NoOpStep
  BY <1>8, PushSyncView, PopSyncView, NoOpView DEF JV!JNext
<1>9. CASE DiskInternal \/ Crash
  BY <1>9, DiskInternalView, CrashView DEF JV!JNext
<1> QED
  BY <1>1, <1>2, <1>3, <1>4, <1>5, <1>6, <1>7, <1>8, <1>9 DEF Next

\* Nothing happens.
LEMMA SameView == UNCHANGED vars => UNCHANGED <<JV!jvars, vop>>
<1> SUFFICES ASSUME UNCHANGED vars PROVE UNCHANGED <<JV!jvars, vop>>
  OBVIOUS
<1>1. UNCHANGED <<machine, superblock, journal, vop>>
  BY DEF vars, dvars
<1> QED
  BY <1>1 DEF JV!jvars, PersistentJournal, FrozenJournal, EphemeralJournal, GammaJournal, DeltaJournal,
     PersistentLoc, FrozenLoc, SyncReqs, PersistentInterval, FrozenInterval, GammaInterval, GammaLen,
     SuperblockOfDisk, HasUpdateOccurredUnacked, HasLocationUpdateOccurredUnacked, Ready

\* The journal system implements JournalView: journal cache and disk together, over crashes and
\* commits, do only what the abstract persistent, frozen and ephemeral journals may do.
THEOREM JournalSystemRefinesView == Spec => RefinesJournalView
<1>1. Init => \E loc \in Loc : JV!JInit(loc)
  BY InitView DEF Init
<1>2. IInv /\ IInv' /\ [Next]_vars => [JV!JNext]_<<JV!jvars, vop>>
  BY NextView, SameView
<1> QED
  BY <1>1, <1>2, AlwaysIInv, PTL DEF Spec, RefinesJournalView, JV!JSpec

-----------------------------------------------------------------------------
(***************************************************************************)
(* What the other half of the machine can see of a step.                   *)
(***************************************************************************)
\* What is frozen stays as it is.
SameFrozen == machine'.isFrozen = machine.isFrozen /\ machine'.frozenLoc = machine.frozenLoc

\* How each label goes with the phase of the machine and with what is frozen.
FrozenByLabel ==
    \/ vop' = CrashVOp /\ LoadingSuperblock'
    \/ \E loc \in Loc : vop' = SendPersistentLocOp(loc) /\ LoadingSuperblock /\ LoadingOther'
    \/ vop' = FreezeOp /\ Ready /\ Ready' /\ machine'.isFrozen = TRUE /\ machine'.frozenLoc = NoLoc
    \/ \E loc \in Loc : /\ vop' = SendFrozenLocOp(loc)
                        /\ Ready /\ machine.isFrozen
                        /\ Ready' /\ machine'.isFrozen = machine.isFrozen /\ machine'.frozenLoc = loc
    \/ vop' = CleanUpOp /\ Ready /\ Ready' /\ machine'.isFrozen = FALSE /\ machine'.frozenLoc = NoLoc
    \/ vop' = JournalInternalOp /\ LoadingOther /\ Ready' /\ machine'.isFrozen = FALSE /\ machine'.frozenLoc = NoLoc
    \/ /\ vop'.type \in {"JournalInternalOp", "StatesInternalOp", "AdvanceOp", "PushSyncOp", "PopSyncOp"}
       /\ machine'.phase = machine.phase
       /\ Ready => SameFrozen

\* Reading the journal and the superblocks keeps the phase.
LEMMA LoadingByLabel ==
    ASSUME IInv, PageInJournalReqStep \/ PageInJournalRespStep \/ PageInSuperblockReqStep \/ PageInSuperblockRespStep
    PROVE  FrozenByLabel
<1>1. machine \in MachineState /\ vop' = JournalInternalOp
  BY DEF IInv, Types, PageInJournalReqStep, PageInJournalRespStep, PageInSuperblockReqStep, PageInSuperblockRespStep
<1>2. CASE PageInJournalReqStep \/ PageInJournalRespStep
  <2>1. PICK id, x : \/ PageInJournalFrontReq(id, x) \/ PageInJournalBackReq(id, x)
                     \/ PageInJournalFrontResp(id, x) \/ PageInJournalBackResp(id, x)
    <3>1. CASE PageInJournalReqStep
      BY <3>1 DEF PageInJournalReqStep
    <3>2. CASE PageInJournalRespStep
      BY <3>2 DEF PageInJournalRespStep
    <3> QED
      BY <1>2, <3>1, <3>2
  <2>2. machine \in LoadingOtherState /\ ~Ready
    BY <1>1, <2>1, Phases DEF PageInJournalFrontReq, PageInJournalBackReq, PageInJournalFrontResp, PageInJournalBackResp
  <2>3. machine'.phase = machine.phase
    <3>1. CASE PageInJournalFrontReq(id, x) \/ PageInJournalBackReq(id, x)
      BY <2>2, <3>1 DEF PageInJournalFrontReq, PageInJournalBackReq, LoadingOtherState
    <3>2. CASE PageInJournalFrontResp(id, x) \/ PageInJournalBackResp(id, x)
      BY <2>2, <3>2 DEF PageInJournalFrontResp, PageInJournalBackResp, LoadingOtherState
    <3> QED
      BY <2>1, <3>1, <3>2
  <2> QED
    BY <1>1, <2>2, <2>3 DEF FrozenByLabel, JournalInternalOp
<1>3. CASE PageInSuperblockReqStep \/ PageInSuperblockRespStep
  <2>1. PICK id, which, sb : PageInSuperblockReq(id, which) \/ PageInSuperblockResp(id, which, sb)
    <3>1. CASE PageInSuperblockReqStep
      BY <3>1 DEF PageInSuperblockReqStep
    <3>2. CASE PageInSuperblockRespStep
      BY <3>2 DEF PageInSuperblockRespStep
    <3> QED
      BY <1>3, <3>1, <3>2
  <2>2. machine \in LoadingSuperblockState /\ ~Ready
    BY <1>1, <2>1, Phases DEF PageInSuperblockReq, PageInSuperblockResp
  <2>3. machine'.phase = machine.phase
    BY <2>1, <2>2 DEF PageInSuperblockReq, PageInSuperblockResp, LoadingSuperblockState
  <2> QED
    BY <1>1, <2>2, <2>3 DEF FrozenByLabel, JournalInternalOp
<1> QED
  BY <1>2, <1>3

\* The ends of the loading phases, and a crash.
LEMMA FinishByLabel ==
    ASSUME FinishLoadingSuperblockPhaseStep \/ FinishLoadingOtherPhaseStep \/ Crash
    PROVE  FrozenByLabel
<1>1. CASE FinishLoadingSuperblockPhaseStep
  BY <1>1 DEF FinishLoadingSuperblockPhaseStep, FinishLoadingSuperblockPhase, FrozenByLabel, LoadingOther
<1>2. CASE FinishLoadingOtherPhaseStep
  BY <1>2 DEF FinishLoadingOtherPhaseStep, FinishLoadingOtherPhase, FrozenByLabel, Ready
<1>3. CASE Crash
  BY <1>3 DEF Crash, StartState, FrozenByLabel, LoadingSuperblock
<1> QED
  BY <1>1, <1>2, <1>3

\* Writing back keeps what is frozen until the superblock with the frozen location is on disk.
LEMMA WritingByLabel ==
    ASSUME IInv, \/ WriteBackJournalReqStep \/ WriteBackJournalRespStep
                 \/ WriteBackSuperblockReq_AdvanceLog_Step \/ WriteBackSuperblockReq_AdvanceLocation_Step
                 \/ WriteBackSuperblockRespStep
    PROVE  FrozenByLabel
<1>1. Ready
  BY DEF WriteBackJournalReqStep, WriteBackJournalRespStep, WriteBackSuperblockReq_AdvanceLog_Step,
     WriteBackSuperblockReq_AdvanceLocation_Step, WriteBackSuperblockRespStep, CommitEnabled, WriteBackJournalResp,
     WriteBackSuperblockResp_AdvanceLog, WriteBackSuperblockResp_AdvanceLocation
<1>2. machine \in ReadyState
  BY <1>1, Phases DEF IInv, Types
<1>3. CASE WriteBackJournalReqStep
  <2>1. PICK id1, id2, start, jr : WriteBackJournalReq(id1, id2, start, jr)
    BY <1>3 DEF WriteBackJournalReqStep
  <2>2. machine'.phase = machine.phase /\ SameFrozen
    BY <1>2, <2>1 DEF WriteBackJournalReq, SameFrozen, ReadyState
  <2> QED
    BY <1>3, <2>2 DEF WriteBackJournalReqStep, FrozenByLabel, JournalInternalOp
<1>4. CASE WriteBackJournalRespStep
  <2>1. machine'.phase = machine.phase /\ SameFrozen
    BY <1>2, <1>4 DEF WriteBackJournalRespStep, WriteBackJournalResp, SameFrozen, ReadyState
  <2> QED
    BY <1>4, <2>1 DEF WriteBackJournalRespStep, FrozenByLabel, JournalInternalOp
<1>5. CASE WriteBackSuperblockReq_AdvanceLog_Step \/ WriteBackSuperblockReq_AdvanceLocation_Step
  <2>1. PICK id, which, sb : \/ WriteBackSuperblockReq_AdvanceLog(id, which, sb)
                             \/ WriteBackSuperblockReq_AdvanceLocation(id, which, sb)
    <3>1. CASE WriteBackSuperblockReq_AdvanceLog_Step
      BY <3>1 DEF WriteBackSuperblockReq_AdvanceLog_Step
    <3>2. CASE WriteBackSuperblockReq_AdvanceLocation_Step
      BY <3>2 DEF WriteBackSuperblockReq_AdvanceLocation_Step
    <3> QED
      BY <1>5, <3>1, <3>2
  <2>2. machine'.phase = machine.phase /\ SameFrozen
    BY <1>2, <2>1 DEF WriteBackSuperblockReq_AdvanceLog, WriteBackSuperblockReq_AdvanceLocation, SameFrozen, ReadyState
  <2> QED
    BY <1>5, <2>2 DEF WriteBackSuperblockReq_AdvanceLog_Step, WriteBackSuperblockReq_AdvanceLocation_Step, FrozenByLabel,
       JournalInternalOp
<1>6. CASE WriteBackSuperblockRespStep
  <2>1. PICK id \in ReqId : \/ WriteBackSuperblockResp_AdvanceLog(id) /\ vop' = JournalInternalOp
                            \/ WriteBackSuperblockResp_AdvanceLocation(id) /\ vop' = CleanUpOp
    BY <1>6 DEF WriteBackSuperblockRespStep
  <2>2. CASE WriteBackSuperblockResp_AdvanceLog(id) /\ vop' = JournalInternalOp
    <3>1. machine'.phase = machine.phase /\ SameFrozen
      BY <1>2, <2>2 DEF WriteBackSuperblockResp_AdvanceLog, SameFrozen, ReadyState
    <3> QED
      BY <2>2, <3>1 DEF FrozenByLabel, JournalInternalOp
  <2>3. CASE WriteBackSuperblockResp_AdvanceLocation(id) /\ vop' = CleanUpOp
    <3>1. machine'.phase = machine.phase /\ machine'.isFrozen = FALSE /\ machine'.frozenLoc = NoLoc
      BY <1>2, <2>3 DEF WriteBackSuperblockResp_AdvanceLocation, ReadyState
    <3> QED
      BY <1>1, <2>3, <3>1 DEF FrozenByLabel, Ready
  <2> QED
    BY <2>1, <2>2, <2>3
<1> QED
  BY <1>3, <1>4, <1>5, <1>6

\* Freezing, and receiving the location of the frozen table.
LEMMA FreezingByLabel ==
    ASSUME IInv, FreezeStep \/ ReceiveFrozenLocStep
    PROVE  FrozenByLabel
<1>1. Ready
  BY DEF FreezeStep, Freeze, ReceiveFrozenLocStep, ReceiveFrozenLoc
<1>2. machine \in ReadyState
  BY <1>1, Phases DEF IInv, Types
<1>3. CASE FreezeStep
  <2>1. machine'.phase = machine.phase /\ machine'.isFrozen = TRUE /\ machine'.frozenLoc = NoLoc
    BY <1>2, <1>3 DEF FreezeStep, Freeze, ReadyState
  <2> QED
    BY <1>1, <1>3, <2>1 DEF FreezeStep, FrozenByLabel, Ready
<1>4. CASE ReceiveFrozenLocStep
  <2>1. PICK loc \in Loc : ReceiveFrozenLoc(loc) /\ vop' = SendFrozenLocOp(loc)
    BY <1>4 DEF ReceiveFrozenLocStep
  <2>2. machine'.phase = machine.phase /\ machine'.isFrozen = machine.isFrozen /\ machine'.frozenLoc = loc
    BY <1>2, <2>1 DEF ReceiveFrozenLoc, ReadyState
  <2> QED
    BY <1>1, <2>1, <2>2 DEF ReceiveFrozenLoc, FrozenByLabel, Ready
<1> QED
  BY <1>3, <1>4

\* A user operation keeps what is frozen.
LEMMA UserByLabel ==
    ASSUME IInv, AdvanceStep \/ ReplayStep
    PROVE  FrozenByLabel
<1>1. Ready
  BY DEF AdvanceStep, Advance, ReplayStep, Replay
<1>2. machine \in ReadyState
  BY <1>1, Phases DEF IInv, Types
<1>3. machine'.phase = machine.phase /\ SameFrozen
  BY <1>2 DEF AdvanceStep, Advance, ReplayStep, Replay, SameFrozen, ReadyState
<1>4. vop'.type = "AdvanceOp"
  BY DEF AdvanceStep, ReplayStep, AdvanceOp
<1> QED
  BY <1>3, <1>4 DEF FrozenByLabel

\* So do the sync requests.
LEMMA SyncByLabel ==
    ASSUME IInv, PushSyncReqStep \/ PopSyncReqStep
    PROVE  FrozenByLabel
<1>1. vop'.type \in {"PushSyncOp", "PopSyncOp"}
  BY DEF PushSyncReqStep, PopSyncReqStep, PushSyncVOp, PopSyncVOp
<1>2. PICK reqs : machine' = [machine EXCEPT !.syncReqs = reqs]
  <2>1. PICK id, to : machine' = [machine EXCEPT !.syncReqs[id] = to]
    BY DEF PushSyncReqStep, PopSyncReqStep, PushSyncReq, PopSyncReq
  <2>2. machine' = [machine EXCEPT !.syncReqs = [machine.syncReqs EXCEPT ![id] = to]]
    BY <2>1
  <2> QED
    BY <2>2
<1>3. machine'.phase = machine.phase /\ (Ready => SameFrozen)
  <2>1. machine \in MachineState
    BY DEF IInv, Types
  <2>2. CASE LoadingSuperblock
    BY <1>2, <2>1, <2>2, Phases DEF LoadingSuperblockState
  <2>3. CASE LoadingOther
    BY <1>2, <2>1, <2>3, Phases DEF LoadingOtherState
  <2>4. CASE Ready
    BY <1>2, <2>1, <2>4, Phases DEF ReadyState, SameFrozen
  <2> QED
    BY <2>1, <2>2, <2>3, <2>4, Phases
<1> QED
  BY <1>1, <1>3 DEF FrozenByLabel

\* Every step goes with its label.
LEMMA NextByLabel == IInv /\ Next => FrozenByLabel
<1>1. NoOpStep \/ DiskInternal => FrozenByLabel
  BY DEF NoOpStep, DiskInternal, FrozenByLabel, SameFrozen, JournalInternalOp, StatesInternalOp
<1> QED
  BY <1>1, LoadingByLabel, FinishByLabel, WritingByLabel, FreezingByLabel, UserByLabel, SyncByLabel DEF Next
=============================================================================
