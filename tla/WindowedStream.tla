---------------------------- MODULE WindowedStream ----------------------------
(***************************************************************************)
(* The window function stream of src/jrd/recsrc/WindowedStream.cpp: one   *)
(* WindowStream evaluating an aggregate and LAG over a window              *)
(*   OVER ([PARTITION BY part] [ORDER BY ord] {ROWS | RANGE} BETWEEN ...)  *)
(* on top of the buffered, sorted input (BufferedStream over SortedStream, *)
(* built by the constructor).                                              *)
(*                                                                         *)
(* Each call of internalGetRecord returns the next buffered row.  At a    *)
(* partition's first row it finds the partition's last position; for a    *)
(* row that is not a peer of the previous one it computes the frame's      *)
(* start and end positions (scanning the buffer for RANGE bounds), then    *)
(* either starts the aggregate over (aggInit and one aggPass per frame     *)
(* row) or reuses the previous frame's accumulated aggregate and passes    *)
(* only the rows it lacks.  Peers of that row (rangePending) return the   *)
(* same frame and aggregate without recomputing them.  A call runs on the  *)
(* request's thread without waiting, so it is one step; its buffer scans   *)
(* are recursive operators that follow the code's loops.                  *)
(*                                                                         *)
(* A row is its position in the buffer, tagged with the open it was read  *)
(* in (modulo 2): a reopened buffer re-reads its input, which may differ,  *)
(* as for the inner stream of a join.  The aggregate is the bag of the     *)
(* rows aggPass was called for since the last aggInit, so a frame row      *)
(* passed twice or missed, or a row of the last open, is visible.  The     *)
(* ORDER BY key is ascending,                                              *)
(* NULLs first (the default of ASC), frame offsets are invariant and       *)
(* non-negative.                                                           *)
(***************************************************************************)
EXTENDS Integers, Sequences, FiniteSets, Bags

CONSTANTS
    MaxRows,    \* rows the buffered input delivers
    PartVal,    \* values of the PARTITION BY key (integers)
    OrdVal,     \* non-NULL values of the single ORDER BY key (integers)
    Offsets,    \* values <n> of <n> PRECEDING / <n> FOLLOWING
    NULL,       \* model value: the ORDER BY key is NULL; LAG found no row
    NoValue     \* model value: frame->value is absent (UNBOUNDED, CURRENT ROW)

ASSUME MaxRows \in Nat /\ PartVal \subseteq Int /\ PartVal # {}
ASSUME OrdVal \subseteq Int /\ Offsets \subseteq Nat
ASSUME NULL \notin OrdVal \cup Offsets /\ NoValue \notin Offsets

Row == [part : PartVal, ord : OrdVal \cup {NULL}]
Value == Offsets \cup {NoValue}
Frame == [unit : {"ROWS", "RANGE"},
          b1 : {"PRECEDING", "CURRENT_ROW", "FOLLOWING"}, v1 : Value,
          b2 : {"PRECEDING", "CURRENT_ROW", "FOLLOWING"}, v2 : Value]

\* Stands for MIN_SINT64, the positions of an invalidated Block: below any
\* position the model computes.
MinSInt64 == -(MaxRows + 10)
NoBlock == [s |-> MinSInt64, e |-> MinSInt64]

-----------------------------------------------------------------------------
(* The plan: the frame clause and the buffered input.                     *)

\* Position of a bound in the order UNBOUNDED PRECEDING, <n> PRECEDING,
\* CURRENT ROW, <n> FOLLOWING, UNBOUNDED FOLLOWING.
BoundRank(b, v) ==
    IF b = "CURRENT_ROW" THEN 2
    ELSE IF b = "PRECEDING" THEN (IF v = NoValue THEN 0 ELSE 1)
    ELSE IF v = NoValue THEN 4 ELSE 3

\* The frame clauses the SQL parser accepts (it is not under src/): no
\* value with CURRENT ROW, the start not UNBOUNDED FOLLOWING, the end not
\* UNBOUNDED PRECEDING, the start's kind of bound not after the end's, and
\* a RANGE offset only with an ORDER BY.
WellFormed(f, ordered) ==
    /\ f.b1 = "CURRENT_ROW" => f.v1 = NoValue
    /\ f.b2 = "CURRENT_ROW" => f.v2 = NoValue
    /\ BoundRank(f.b1, f.v1) # 4 /\ BoundRank(f.b2, f.v2) # 0
    /\ BoundRank(f.b1, f.v1) <= BoundRank(f.b2, f.v2)
    /\ f.unit = "RANGE" /\ {f.v1, f.v2} # {NoValue} => ordered

\* The sort order of the ORDER BY key: NULL first, then ascending.
SortLE(a, b) == a = NULL \/ (b # NULL /\ a <= b)

\* The SortedStream's order: partition key, then order key.
RowLE(r1, r2) ==
    \/ r1.part < r2.part
    \/ r1.part = r2.part /\ SortLE(r1.ord, r2.ord)

MinPart == CHOOSE v \in PartVal : \A w \in PartVal : v <= w

\* What the sorted input can deliver; without PARTITION BY or ORDER BY the
\* missing key is a constant.
Inputs(grouped, ordered) ==
    {s \in UNION {[1..n -> Row] : n \in 0..MaxRows} :
        /\ \A i \in 1..(Len(s) - 1) : RowLE(s[i], s[i + 1])
        /\ ~grouped => \A i \in 1..Len(s) : s[i].part = MinPart
        /\ ~ordered => \A i \in 1..Len(s) : s[i].ord = NULL}

\* The same, computed once for each kind of window.
InputsOf == [k \in BOOLEAN \X BOOLEAN |-> Inputs(k[1], k[2])]

-----------------------------------------------------------------------------
VARIABLES
    grouped,           \* m_group: the window has a PARTITION BY
    ordered,           \* m_order: the window has an ORDER BY
    frame,             \* m_frameExtent
    rows,              \* the buffered rows, positions 0 .. Len(rows) - 1
    open,              \* irsb_flags & irsb_open
    pos,               \* m_next->getPosition(): the next row to read
    partition,         \* impure->partitionBlock
    partitionPending,  \* impure->partitionPending
    rangePending,      \* impure->rangePending
    window,            \* impure->windowBlock
    acc,               \* the aggregate: rows aggPass'ed since aggInit
    gen,               \* which open (modulo 2) the buffered rows belong to
    out,               \* the rows returned since open, with their results
    eof                \* the last internalGetRecord returned false

plan == <<grouped, ordered, frame>>
vars == <<grouped, ordered, frame, rows, open, pos, partition,
          partitionPending, rangePending, window, acc, gen, out, eof>>

Ord(q) == rows[q + 1].ord
Part(q) == rows[q + 1].part
Max2(a, b) == IF a >= b THEN a ELSE b
Min2(a, b) == IF a <= b THEN a ELSE b

\* aggPass for each of the rows lo .. hi of this open.
Passed(lo, hi) == SetToBag({gen} \X (lo..hi))

\* Block::isValid (RecordSource.h, not under src/).
IsValid(b) == b.s # MinSInt64 /\ b.e # MinSInt64

-----------------------------------------------------------------------------
(* Frame bounds.                                                           *)

\* getFrameValue for ROWS: the offset, negated for PRECEDING.
GetFrameValue(b, v) == IF b = "PRECEDING" THEN -v ELSE v

\* The ArithmeticNode built for a RANGE bound (blr_add for FOLLOWING,
\* blr_subtract for PRECEDING on an ascending key) applied by cacheValues
\* to the current row's key; NULL stays NULL.
AdjustOrder(b, v, key) ==
    IF key = NULL THEN NULL ELSE IF b = "FOLLOWING" THEN key + v ELSE key - v

\* lookForChange (AggregatedStream.cpp, not under src/): the row at q
\* against the cached key, in the sort order.
LookForChange(q, key) ==
    IF Ord(q) = key THEN 0 ELSE IF SortLE(Ord(q), key) THEN -1 ELSE 1

\* while (++rangePos <= endPosition) { getRecord; if (lookForChange) break; }
\* The position the loop stops at.
RECURSIVE PeerScan(_, _, _)
PeerScan(r, pe, key) ==
    IF r + 1 > pe \/ LookForChange(r + 1, key) # 0 THEN r + 1
    ELSE PeerScan(r + 1, pe, key)

\* locateFrameRange's forward loop: stop at the first row comparing >= bound
\* or past the partition.
RECURSIVE FollowScan(_, _, _, _)
FollowScan(r, pe, key, bound) ==
    IF LookForChange(r, key) >= bound THEN r
    ELSE IF r + 1 > pe THEN r + 1
    ELSE FollowScan(r + 1, pe, key, bound)

\* locateFrameRange's backward loop: stop at the first row comparing
\* <= bound or before the partition.
RECURSIVE PrecScan(_, _, _, _)
PrecScan(r, ps, key, bound) ==
    IF LookForChange(r, key) <= bound THEN r
    ELSE IF r - 1 < ps THEN r - 1
    ELSE PrecScan(r - 1, ps, key, bound)

\* locateFrameRange for frame 1 (the start) or 2 (the end) of a RANGE
\* frame with an offset.
LocateFrameRange(which, p, ps, pe) ==
    LET b == IF which = 1 THEN frame.b1 ELSE frame.b2
        key == AdjustOrder(b, IF which = 1 THEN frame.v1 ELSE frame.v2, Ord(p))
    IN IF key = NULL
       THEN IF which = 2 THEN PeerScan(p, pe, key) - 1 ELSE p
       ELSE IF b = "FOLLOWING"
       THEN LET r == FollowScan(p, pe, key, IF which = 1 THEN 0 ELSE 1)
            IN IF which = 2 THEN r - 1 ELSE r
       ELSE LET r == PrecScan(p, ps, key, IF which = 1 THEN -1 ELSE 0)
            IN IF which = 1 THEN r + 1
               ELSE IF r >= ps THEN PeerScan(r, pe, key) - 1
               ELSE r

\* "Find the window start."
FrameStart(p, ps, pe) ==
    IF \/ frame.b1 = "PRECEDING" /\ frame.v1 = NoValue
       \/ ~ordered /\ frame.unit = "RANGE"
    THEN ps
    ELSE IF frame.unit = "ROWS" /\ frame.b1 = "CURRENT_ROW" THEN p
    ELSE IF frame.unit = "ROWS" THEN p + GetFrameValue(frame.b1, frame.v1)
    ELSE IF frame.b1 = "CURRENT_ROW" THEN p
    ELSE LocateFrameRange(1, p, ps, pe)

\* "Find the window end."
FrameEnd(p, ps, pe) ==
    IF \/ frame.b2 = "FOLLOWING" /\ frame.v2 = NoValue
       \/ ~ordered /\ frame.unit = "RANGE"
    THEN pe
    ELSE IF frame.unit = "ROWS" /\ frame.b2 = "CURRENT_ROW" THEN p
    ELSE IF frame.unit = "ROWS" THEN p + GetFrameValue(frame.b2, frame.v2)
    ELSE IF frame.b2 = "CURRENT_ROW" THEN PeerScan(p, pe, Ord(p)) - 1
    ELSE LocateFrameRange(2, p, ps, pe)

\* Mutant: RANGE peers are not skipped; each recomputes its frame.
RangePendingAfterNoPeers(p, pe, en) ==
    IF \/ frame.b1 = "PRECEDING" /\ frame.v1 = NoValue
          /\ frame.b2 = "FOLLOWING" /\ frame.v2 = NoValue
       \/ frame.unit = "RANGE" /\ ~ordered
    THEN Max2(0, en - p)
    ELSE rangePending

\* The rows after p that will return p's frame unchanged: the whole rest
\* of the partition for an unbounded or unordered frame, p's peers for
\* RANGE, none (rangePending stays 0) for ROWS.
RangePendingAfter(p, pe, en) ==
    IF \/ frame.b1 = "PRECEDING" /\ frame.v1 = NoValue
          /\ frame.b2 = "FOLLOWING" /\ frame.v2 = NoValue
       \/ frame.unit = "RANGE" /\ ~ordered
    THEN Max2(0, en - p)
    ELSE IF frame.unit = "RANGE" THEN PeerScan(p, pe, Ord(p)) - p - 1
    ELSE rangePending

\* Mutant: moveWithinPartition checks only the partition's end.
MoveWithinPartitionNoStart(saved, delta, ps, pe) ==
    IF saved + delta > pe THEN NULL ELSE saved + delta

\* SlidingWindow::moveWithinPartition from the current row, as LAG(x, 1)
\* calls it: the row delta positions away, or NULL outside the partition.
MoveWithinPartition(saved, delta, ps, pe) ==
    IF saved + delta < ps \/ saved + delta > pe THEN NULL ELSE saved + delta

-----------------------------------------------------------------------------
(* Operations.                                                             *)

Init ==
    /\ grouped \in BOOLEAN
    /\ ordered \in BOOLEAN
    /\ frame \in {f \in Frame : WellFormed(f, ordered)}
    /\ rows \in InputsOf[<<grouped, ordered>>]
    /\ gen = 0
    /\ open = FALSE
    /\ pos = 0
    /\ partition = [s |-> 0, e |-> 0]
    /\ partitionPending = 0
    /\ rangePending = 0
    /\ window = NoBlock
    /\ acc = EmptyBag
    /\ out = << >>
    /\ eof = FALSE

\* Mutant: internalOpen does not invalidate the window block.
OpenKeepsWindow ==
    /\ open' = TRUE
    /\ gen' = 1 - gen
    /\ pos' = 0
    /\ partition' = [s |-> 0, e |-> 0]
    /\ partitionPending' = 0
    /\ rangePending' = 0
    /\ out' = << >>
    /\ eof' = FALSE
    /\ UNCHANGED <<plan, rows, acc, window>>

\* WindowedStream::internalOpen: the buffer is opened (it re-reads its
\* input: rows of a new open) and WindowStream::internalOpen clears the
\* partition and range counters and invalidates the window block.  The
\* aggregate is left as it was.
Open ==
    /\ open' = TRUE
    /\ gen' = 1 - gen
    /\ pos' = 0
    /\ partition' = [s |-> 0, e |-> 0]
    /\ partitionPending' = 0
    /\ rangePending' = 0
    /\ window' = NoBlock
    /\ out' = << >>
    /\ eof' = FALSE
    /\ UNCHANGED <<plan, rows, acc>>

\* WindowedStream::close: only an open stream is closed (aggFinish).
Close ==
    /\ open
    /\ open' = FALSE
    /\ UNCHANGED <<plan, rows, pos, partition, partitionPending, rangePending,
                   window, acc, gen, out, eof>>

\* The partition's last position: evaluateGroup reads up to the first row
\* of another partition; without PARTITION BY, locate(getCount()).
PartitionEnd(p) ==
    IF grouped
    THEN CHOOSE q \in p..(Len(rows) - 1) :
            /\ Part(q) = Part(p)
            /\ (q + 1 = Len(rows) \/ Part(q + 1) # Part(p))
    ELSE Len(rows) - 1

\* No partition starts at pos: evaluateGroup found no row, or, without
\* PARTITION BY, the only partition was returned or the input is empty.
AtEnd == IF grouped THEN pos >= Len(rows) ELSE pos # 0 \/ Len(rows) = 0

\* internalGetRecord returning false at the end of the input.
GetRecordEOF ==
    /\ open
    /\ partitionPending = 0
    /\ AtEnd
    /\ eof' = TRUE
    /\ UNCHANGED <<plan, rows, open, pos, partition, partitionPending,
                   rangePending, window, acc, gen, out>>

\* The aggregate for the new frame [st, en] of the current row: an empty frame
\* restarts it empty; otherwise the block is clipped to the partition and
\* the last aggregate is extended when the last block lies inside the new
\* one, else restarted, with one aggPass per row added.  The code's tests
\* of windowBlock.isValid() before the clipping read the block just
\* assigned, which is always valid: an empty frame always restarts.
WindowAggregate(ps, pe, st, en) ==
    LET last == window
        w2 == [s |-> Max2(st, ps), e |-> Min2(en, pe)]
    IN IF en < st \/ st > pe \/ en < ps
       THEN window' = NoBlock /\ acc' = EmptyBag
       ELSE /\ window' = w2
            /\ acc' = IF ~IsValid(last) \/ w2.s > last.s \/ w2.e < last.e
                      THEN Passed(w2.s, w2.e)
                      ELSE acc (+) Passed(w2.s, last.s - 1)
                               (+) Passed(last.e + 1, w2.e)

\* internalGetRecord returning the row at pos: a new partition when none
\* is pending, the frame and aggregate unless p is a pending peer, then
\* the winPass functions (LAG) over a SlidingWindow.
GetRecordRow ==
    /\ open
    /\ ~(partitionPending = 0 /\ AtEnd)
    /\ LET p == pos
           new == partitionPending = 0
           ps == IF new THEN p ELSE partition.s
           pe == IF new THEN PartitionEnd(p) ELSE partition.e
       IN /\ partition' = [s |-> ps, e |-> pe]
          /\ partitionPending' = (IF new THEN pe - ps + 1 ELSE partitionPending) - 1
          /\ pos' = p + 1
          /\ IF rangePending > 0
             THEN /\ rangePending' = rangePending - 1
                  /\ UNCHANGED <<window, acc>>
             ELSE LET st == FrameStart(p, ps, pe)
                      en == FrameEnd(p, ps, pe)
                  IN /\ rangePending' = RangePendingAfter(p, pe, en)
                     /\ WindowAggregate(ps, pe, st, en)
          /\ out' = Append(out, [pos |-> p, agg |-> acc',
                                 lag |-> MoveWithinPartition(p, -1, ps, pe)])
          /\ UNCHANGED <<plan, rows, open, gen, eof>>

Next == Open \/ Close \/ GetRecordEOF \/ GetRecordRow

Spec == Init /\ [][Next]_vars

-----------------------------------------------------------------------------
(* Properties.                                                             *)

\* The reference: the rows of p's partition within the frame, as SQL
\* defines ROWS (by position) and RANGE (by the ORDER BY key: from the
\* first row whose key is at least the start value to the last whose key
\* is at most the end value, NULL keys being peers of each other and
\* before every value).
RefPartition(p) == {q \in 0..(Len(rows) - 1) : ~grouped \/ Part(q) = Part(p)}

RefAfterStart(p, q) ==
    \/ frame.b1 = "PRECEDING" /\ frame.v1 = NoValue
    \/ frame.unit = "RANGE" /\ ~ordered
    \/ frame.unit = "ROWS" /\ frame.b1 = "CURRENT_ROW" /\ q >= p
    \/ frame.unit = "ROWS" /\ frame.v1 # NoValue
       /\ q >= (IF frame.b1 = "PRECEDING" THEN p - frame.v1 ELSE p + frame.v1)
    \/ frame.unit = "RANGE" /\ ordered /\ frame.b1 = "CURRENT_ROW"
       /\ SortLE(Ord(p), Ord(q))
    \/ frame.unit = "RANGE" /\ ordered /\ frame.v1 # NoValue
       /\ SortLE(AdjustOrder(frame.b1, frame.v1, Ord(p)), Ord(q))

RefBeforeEnd(p, q) ==
    \/ frame.b2 = "FOLLOWING" /\ frame.v2 = NoValue
    \/ frame.unit = "RANGE" /\ ~ordered
    \/ frame.unit = "ROWS" /\ frame.b2 = "CURRENT_ROW" /\ q <= p
    \/ frame.unit = "ROWS" /\ frame.v2 # NoValue
       /\ q <= (IF frame.b2 = "PRECEDING" THEN p - frame.v2 ELSE p + frame.v2)
    \/ frame.unit = "RANGE" /\ ordered /\ frame.b2 = "CURRENT_ROW"
       /\ SortLE(Ord(q), Ord(p))
    \/ frame.unit = "RANGE" /\ ordered /\ frame.v2 # NoValue
       /\ SortLE(Ord(q), AdjustOrder(frame.b2, frame.v2, Ord(p)))

RefFrame(p) == {q \in RefPartition(p) : RefAfterStart(p, q) /\ RefBeforeEnd(p, q)}

RefLag(p) == IF p - 1 \in RefPartition(p) THEN p - 1 ELSE NULL

Pos == MinSInt64..(MaxRows + 2)
IsRowBag(b) == IsABag(b) /\ BagToSet(b) \subseteq {0, 1} \X (0..(MaxRows - 1))

TypeOK ==
    /\ grouped \in BOOLEAN /\ ordered \in BOOLEAN /\ frame \in Frame
    /\ rows \in Seq(Row) /\ Len(rows) <= MaxRows
    /\ open \in BOOLEAN /\ eof \in BOOLEAN
    /\ pos \in 0..MaxRows
    /\ partition \in [s : 0..MaxRows, e : -1..MaxRows]
    /\ partitionPending \in 0..MaxRows /\ rangePending \in 0..MaxRows
    /\ window \in [s : Pos, e : Pos]
    /\ IsRowBag(acc) /\ gen \in {0, 1}
    /\ Len(out) <= MaxRows
    /\ \A i \in 1..Len(out) :
          /\ out[i].pos \in 0..(MaxRows - 1)
          /\ IsRowBag(out[i].agg)
          /\ out[i].lag \in 0..(MaxRows - 1) \cup {NULL}

\* internalGetRecord returns the buffered rows in order, each once, and
\* with each row the aggregate over exactly the rows of its frame (every
\* frame row passed once) and the LAG of its partition: the RANGE bound
\* scans, the frame reused for peers through rangePending, the reuse of
\* the previous frame's aggregate and the clipping to the partition
\* together give the frame SQL defines.  At the end every row was returned.
WindowExact ==
    /\ \A i \in 1..Len(out) :
          /\ out[i].pos = i - 1
          /\ out[i].agg = SetToBag({gen} \X RefFrame(out[i].pos))
          /\ out[i].lag = RefLag(out[i].pos)
    /\ eof => Len(out) = Len(rows)

\* The aggregate holds exactly the rows of the window block whenever the
\* block is valid, across calls and across a close and reopen on new
\* input: the reuse test that extends the last aggregate relies on it.
AccMatchesWindow == IsValid(window) => acc = Passed(window.s, window.e)

=============================================================================
