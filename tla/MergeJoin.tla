------------------------------ MODULE MergeJoin ------------------------------
(***************************************************************************)
(* The sort/merge inner join of src/jrd/recsrc/MergeJoin.cpp.              *)
(*                                                                         *)
(* N sorted substreams are merged on their keys.  Each call of             *)
(* internalGetRecord either returns the next combination of the current    *)
(* equality groups (fetchRecord, an odometer over irsb_mrg_order) or       *)
(* builds new groups: advance every stream one record, raise all streams   *)
(* to the highest key (the recycle loop), collect each stream's equal-key  *)
(* records into its merge file, and order the streams by merge blocks.     *)
(* A merge file keeps one block of mfb_blocking_factor records in memory   *)
(* and writes the others to its TempSpace; that block traffic is modelled  *)
(* record by record.                                                       *)
(*                                                                         *)
(* A record is its position in its substream; its data is that position,   *)
(* its key the position's key.  The caller (RecordSource) opens, fetches   *)
(* until false and closes, in any order the interface allows.              *)
(***************************************************************************)
EXTENDS Integers, Sequences, SequencesExt, Functions

CONSTANTS
    N,          \* m_args.getCount(): the sorted substreams
    K,          \* key components of each stream (m_keys[i]->getCount())
    KeyVal,     \* non-NULL values of a key component (integers)
    NULL,       \* model value: EVL_expr found the component NULL
    MaxLen,     \* records of a substream
    Factors     \* possible mfb_blocking_factor values (record size vs block)

S == 1..N
Key == [1..K -> KeyVal \cup {NULL}]
Blocks == 0..(MaxLen - 1)
Garbage == 0                 \* block bytes never written (no record)
MaxFactor == CHOOSE m \in Factors : \A f \in Factors : f <= m

ASSUME N \in Nat \ {0} /\ K \in Nat \ {0} /\ KeyVal \subseteq Int
ASSUME NULL \notin KeyVal /\ MaxLen \in Nat \ {0} /\ Factors \subseteq Nat \ {0}

-----------------------------------------------------------------------------
(* Keys.                                                                   *)

\* MergeJoin::compare: component by component, NULL below every value and
\* equal to NULL, values by MOV_compare.
RECURSIVE CompareFrom(_, _, _)
CompareFrom(k1, k2, j) ==
    IF j > K THEN 0
    ELSE CASE k1[j] = NULL /\ k2[j] # NULL -> -1
           [] k1[j] # NULL /\ k2[j] = NULL -> 1
           [] k1[j] = k2[j]                -> CompareFrom(k1, k2, j + 1)
           [] k1[j] < k2[j]                -> -1
           [] OTHER                        -> 1

Compare(k1, k2) == CompareFrom(k1, k2, 1)

\* SortedStream::compareKeys on the sort keys (sort.cpp, not under src/):
\* the keys are byte-identical.
KeysEqual(k1, k2) == k1 = k2

\* The contents a SortedStream can deliver: ascending in compare's order.
Sorted(s) == \A j \in 1..(Len(s) - 1) : Compare(s[j], s[j + 1]) <= 0
SortedInputs == {s \in BoundedSeq(Key, MaxLen) : Sorted(s)}

-----------------------------------------------------------------------------
VARIABLES
    in,           \* in[s]: the records substream s delivers, in order
    open,         \* irsb_flags & irsb_open
    pos,          \* records substream s has delivered (SortedStream::getData)
    equal,        \* irsb_mrg_equal
    equalEnd,     \* irsb_mrg_equal_end
    equalCurrent, \* irsb_mrg_equal_current
    lastFetched,  \* irsb_mrg_last_fetched
    order,        \* irsb_mrg_order
    mfb,          \* irsb_mrg_file: equal_records, current_block,
                  \* blocking_factor, block_data, space (the TempSpace)
    mapped,       \* the record mapData last put into s's target record
    pc,           \* "idle", or the phase of internalGetRecord
    idx,          \* the loop's stream index
    highest,      \* highest_index
    recycle,      \* the recycle flag of the raise loop
    groupKey,     \* the key copied from record 0 (first_data)
    out,          \* history: the combinations returned since the open
    eof           \* history: internalGetRecord returned false

vars == <<in, open, pos, equal, equalEnd, equalCurrent, lastFetched, order,
          mfb, mapped, pc, idx, highest, recycle, groupKey, out, eof>>

NoBlock == [o \in 0..(MaxFactor - 1) |-> Garbage]
NoSpace == [b \in Blocks |-> NoBlock]

KeyOf(s, d) == IF d \in 1..Len(in[s]) THEN in[s][d] ELSE [j \in 1..K |-> NULL]
MappedKey(s) == KeyOf(s, mapped[s])

-----------------------------------------------------------------------------
(* The merge file.                                                         *)

\* MergeJoin::getData: the block holding record r becomes the current one,
\* read back from the TempSpace unless it already is.
Fetched(f, r) ==
    LET b == r \div f.blocking_factor
    IN  IF b = f.current_block THEN f
        ELSE [f EXCEPT !.block_data = f.space[b], !.current_block = b]

DataAt(f, r) == Fetched(f, r).block_data[r % f.blocking_factor]

\* Mutant of AppendRecord: the current block is not written out when the
\* new record starts another one.
AppendRecordNoWrite(f, d) ==
    LET r == f.equal_records
    IN  [f EXCEPT !.current_block = r \div f.blocking_factor,
                  !.block_data[r % f.blocking_factor] = d,
                  !.equal_records = r + 1]

\* MergeJoin::getRecordByIndex after SortedStream::getData returned record
\* d: it is copied to position equal_records; the current block is written
\* to the TempSpace first when that position is in another block.
AppendRecord(f, d) ==
    LET r == f.equal_records
        b == r \div f.blocking_factor
        g == IF b # f.current_block
             THEN [f EXCEPT !.space[f.current_block] = f.block_data,
                            !.current_block = b]
             ELSE f
    IN  [g EXCEPT !.block_data[r % f.blocking_factor] = d,
                  !.equal_records = r + 1]

\* Mutant of Flush: the last block of a group is never written out.
FlushNever(f) == f

\* The end of a stream's group: a current block other than 0 is written.
Flush(f) ==
    IF f.current_block # 0
    THEN [f EXCEPT !.space[f.current_block] = f.block_data] ELSE f

\* getRecordByIndex into a merge file restarted at record 0.
Restarted(f) == [f EXCEPT !.current_block = 0, !.equal_records = 0]

Dry(s) == pos[s] = Len(in[s])

-----------------------------------------------------------------------------
(* The caller: open, fetch, close.                                         *)

Init ==
    /\ in \in [S -> SortedInputs]
    /\ open = FALSE
    /\ pos = [s \in S |-> 0]
    /\ equal = [s \in S |-> -1] /\ equalEnd = [s \in S |-> -1]
    /\ equalCurrent = [s \in S |-> -1] /\ lastFetched = [s \in S |-> -1]
    /\ order = [s \in S |-> s]
    /\ mfb \in {[s \in S |-> [equal_records |-> 0, current_block |-> 0,
                              blocking_factor |-> bf[s], block_data |-> NoBlock,
                              space |-> NoSpace]] : bf \in [S -> Factors]}
    /\ mapped = [s \in S |-> Garbage]
    /\ pc = "idle" /\ idx = 1 /\ highest = 1 /\ recycle = FALSE
    /\ groupKey = [j \in 1..K |-> NULL]
    /\ out = << >> /\ eof = FALSE

\* MergeJoin::internalOpen: every substream is opened from its first
\* record, the group positions are reset and each stream gets its own
\* place in the order.  A block buffer already allocated is kept, and so is
\* the TempSpace: only close deletes them.
Open ==
    /\ pc = "idle"
    /\ open' = TRUE
    /\ pos' = [s \in S |-> 0]
    /\ equal' = [s \in S |-> -1] /\ equalEnd' = [s \in S |-> -1]
    /\ equalCurrent' = [s \in S |-> -1] /\ lastFetched' = [s \in S |-> -1]
    /\ order' = [s \in S |-> s]
    /\ mfb' = [s \in S |-> Restarted(mfb[s])]
    /\ out' = << >> /\ eof' = FALSE
    /\ UNCHANGED <<in, mapped, pc, idx, highest, recycle, groupKey>>

\* MergeJoin::close of an open join: the substreams are closed and each
\* merge file's TempSpace and block buffer deleted.
Close ==
    /\ pc = "idle" /\ open
    /\ open' = FALSE
    /\ mfb' = [s \in S |-> [mfb[s] EXCEPT !.block_data = NoBlock, !.space = NoSpace]]
    /\ UNCHANGED <<in, pos, equal, equalEnd, equalCurrent, lastFetched, order,
                   mapped, pc, idx, highest, recycle, groupKey, out, eof>>

-----------------------------------------------------------------------------
(* internalGetRecord.                                                      *)

\* MergeJoin::fetchRecord(j): the j-th stream of the order steps to its
\* next record of the group; past the group's end the streams before it
\* step first and it restarts at the group's first record.  st carries
\* equal_current, the mapped records and the merge files; a failure at
\* any depth changes nothing.
RECURSIVE FetchRecord(_, _)
FetchRecord(st, j) ==
    LET m == order[j]
        r == st.cur[m] + 1
        Map(x, rec) == [x EXCEPT !.ok = TRUE, !.cur[m] = rec,
                                 !.map[m] = DataAt(x.f[m], rec),
                                 !.f[m] = Fetched(x.f[m], rec)]
    IN  IF r <= equalEnd[m] THEN Map(st, r)
        ELSE IF j = 1 THEN [st EXCEPT !.ok = FALSE]
        ELSE LET o == FetchRecord(st, j - 1)
             IN  IF o.ok THEN Map(o, equal[m]) ELSE o

\* The call returns false: a substream came up dry.
ReturnFalse == pc' = "idle" /\ eof' = TRUE

\* The call starts: the next combination of the current groups is
\* returned, or new groups are formed starting with the advance loop.
GetRecord ==
    /\ pc = "idle" /\ open /\ ~eof
    /\ LET st == FetchRecord([ok |-> FALSE, cur |-> equalCurrent, map |-> mapped,
                              f |-> mfb], N)
       IN  \/ /\ st.ok
              /\ equalCurrent' = st.cur /\ mapped' = st.map /\ mfb' = st.f
              /\ out' = Append(out, st.map)
              /\ UNCHANGED <<pc, idx, highest>>
           \/ /\ ~st.ok
              /\ pc' = "advance" /\ idx' = 1 /\ highest' = 1
              /\ UNCHANGED <<equalCurrent, mapped, mfb, out>>
    /\ UNCHANGED <<in, open, pos, equal, equalEnd, lastFetched, order, recycle,
                   groupKey, eof>>

\* Stream s now has merge file g with its record 0 mapped; the highest
\* stream so far is the first one whose key compares greatest.
Advanced(s, g) ==
    LET d == DataAt(g, 0) IN
    /\ mfb' = [mfb EXCEPT ![s] = g]
    /\ mapped' = [mapped EXCEPT ![s] = d]
    /\ highest' = IF s # highest /\ Compare(MappedKey(highest), KeyOf(s, d)) < 0
                  THEN s ELSE highest
    /\ idx' = IF s = N THEN 1 ELSE s + 1
    /\ pc' = IF s = N THEN "align" ELSE "advance"
    /\ recycle' = FALSE

\* One iteration of the advance loop, for stream idx: its group positions
\* are reset; a record left over by the last group (irsb_mrg_last_fetched)
\* is read back and copied to record 0, otherwise the next record of the
\* substream is fetched as record 0; a dry substream ends the join.
AdvanceStream ==
    LET s == idx
        f == mfb[s]
        r == lastFetched[s]
        waiting == [Fetched(f, r) EXCEPT !.current_block = 0,
                                         !.block_data[0] = DataAt(f, r),
                                         !.equal_records = 1]
    IN
    /\ pc = "advance"
    /\ equal' = [equal EXCEPT ![s] = 0]
    /\ equalCurrent' = [equalCurrent EXCEPT ![s] = 0]
    /\ equalEnd' = [equalEnd EXCEPT ![s] = 0]
    /\ \/ /\ r >= 0
          /\ lastFetched' = [lastFetched EXCEPT ![s] = -1]
          /\ Advanced(s, waiting)
          /\ UNCHANGED <<pos, eof>>
       \/ /\ r < 0 /\ ~Dry(s)
          /\ pos' = [pos EXCEPT ![s] = @ + 1]
          /\ Advanced(s, AppendRecord(Restarted(f), pos[s] + 1))
          /\ UNCHANGED <<lastFetched, eof>>
       \/ /\ r < 0 /\ Dry(s)
          /\ mfb' = [mfb EXCEPT ![s] = Restarted(f)]
          /\ ReturnFalse
          /\ UNCHANGED <<pos, lastFetched, mapped, idx, highest, recycle>>
    /\ UNCHANGED <<in, open, order, groupKey, out>>

\* The raise loop, one comparison per step.  Stream idx is compared with
\* the highest stream: equal, the loop goes on with the next stream; lower,
\* its next record is fetched as record 0 and compared again (a dry
\* substream ends the join); higher, it becomes the highest and the loop
\* breaks to start over.
Raising == pc = "align" /\ idx \in S
Cmp == Compare(MappedKey(highest), MappedKey(idx))

AlignSkip ==
    /\ Raising /\ (idx = highest \/ Cmp = 0)
    /\ idx' = idx + 1
    /\ UNCHANGED <<in, open, pos, equal, equalEnd, equalCurrent, lastFetched,
                   order, mfb, mapped, pc, highest, recycle, groupKey, out, eof>>

AlignRaise ==
    /\ Raising /\ idx # highest /\ Cmp < 0
    /\ highest' = idx /\ recycle' = TRUE /\ idx' = N + 1
    /\ UNCHANGED <<in, open, pos, equal, equalEnd, equalCurrent, lastFetched,
                   order, mfb, mapped, pc, groupKey, out, eof>>

AlignFetch ==
    LET g == AppendRecord(Restarted(mfb[idx]), pos[idx] + 1) IN
    /\ Raising /\ idx # highest /\ Cmp > 0 /\ ~Dry(idx)
    /\ pos' = [pos EXCEPT ![idx] = @ + 1]
    /\ mfb' = [mfb EXCEPT ![idx] = g]
    /\ mapped' = [mapped EXCEPT ![idx] = DataAt(g, 0)]
    /\ UNCHANGED <<in, open, equal, equalEnd, equalCurrent, lastFetched,
                   order, pc, idx, highest, recycle, groupKey, out, eof>>

AlignDry ==
    /\ Raising /\ idx # highest /\ Cmp > 0 /\ Dry(idx)
    /\ mfb' = [mfb EXCEPT ![idx] = Restarted(@)]
    /\ ReturnFalse
    /\ UNCHANGED <<in, open, pos, equal, equalEnd, equalCurrent, lastFetched,
                   order, mapped, idx, highest, recycle, groupKey, out>>

\* Mutant of AlignEnd: recycle is declared outside the while loop.
AlignEndKeepsRecycle ==
    /\ pc = "align" /\ idx = N + 1
    /\ IF recycle THEN idx' = 1 /\ UNCHANGED pc ELSE pc' = "group" /\ idx' = 1
    /\ UNCHANGED <<in, open, pos, equal, equalEnd, equalCurrent, lastFetched,
                   order, mfb, mapped, highest, recycle, groupKey, out, eof>>

\* The end of a pass of the for loop: after a break the while loop starts
\* over with a fresh recycle flag, otherwise the streams are aligned.
AlignEnd ==
    /\ pc = "align" /\ idx = N + 1
    /\ idx' = 1
    /\ \/ recycle /\ recycle' = FALSE /\ UNCHANGED pc
       \/ ~recycle /\ pc' = "group" /\ UNCHANGED recycle
    /\ UNCHANGED <<in, open, pos, equal, equalEnd, equalCurrent, lastFetched,
                   order, mfb, mapped, highest, groupKey, out, eof>>

\* The equality group of stream idx: the key of its record 0 is copied.
GroupStart ==
    /\ pc = "group" /\ idx \in S
    /\ groupKey' = KeyOf(idx, DataAt(mfb[idx], 0))
    /\ mfb' = [mfb EXCEPT ![idx] = Fetched(@, 0)]
    /\ pc' = "collect"
    /\ UNCHANGED <<in, open, pos, equal, equalEnd, equalCurrent, lastFetched,
                   order, mapped, idx, highest, recycle, out, eof>>

\* One iteration of the group loop: the next record of the substream is
\* appended to the merge file; with the group's key it extends the group,
\* otherwise it is left waiting for the next group.  Either way the loop
\* ends on a dry substream or a new key, and a current block other than 0
\* is written out.
GroupCollect ==
    LET f == mfb[idx]
        r == f.equal_records
        g == AppendRecord(f, pos[idx] + 1)
        sameKey == KeysEqual(groupKey, KeyOf(idx, DataAt(g, r)))
    IN
    /\ pc = "collect"
    /\ \/ /\ ~Dry(idx) /\ sameKey
          /\ pos' = [pos EXCEPT ![idx] = @ + 1]
          /\ mfb' = [mfb EXCEPT ![idx] = Fetched(g, r)]
          /\ equalEnd' = [equalEnd EXCEPT ![idx] = r]
          /\ UNCHANGED <<lastFetched, pc, idx>>
       \/ /\ ~Dry(idx) /\ ~sameKey
          /\ pos' = [pos EXCEPT ![idx] = @ + 1]
          /\ mfb' = [mfb EXCEPT ![idx] = Flush(Fetched(g, r))]
          /\ lastFetched' = [lastFetched EXCEPT ![idx] = r]
          /\ pc' = "group" /\ idx' = idx + 1
          /\ UNCHANGED equalEnd
       \/ /\ Dry(idx)
          /\ mfb' = [mfb EXCEPT ![idx] = Flush(f)]
          /\ pc' = "group" /\ idx' = idx + 1
          /\ UNCHANGED <<pos, equalEnd, lastFetched>>
    /\ UNCHANGED <<in, open, equal, equalCurrent, order, mapped, highest,
                   recycle, groupKey, out, eof>>

\* The merge blocks of a stream's group, counting the record left waiting.
MergeBlocks(s) == mfb[s].equal_records \div mfb[s].blocking_factor + 1

\* The ordering loop: each place of irsb_mrg_order, outermost first, gets
\* the first stream not yet placed with the most merge blocks.
RECURSIVE BestOrder(_)
BestOrder(placed) ==
    IF Len(placed) = N THEN placed
    ELSE LET rest == S \ ToSet(placed)
             best == CHOOSE s \in rest :
                         \A u \in rest : MergeBlocks(u) < MergeBlocks(s)
                                         \/ (MergeBlocks(u) = MergeBlocks(s) /\ s <= u)
         IN  BestOrder(Append(placed, best))

\* All groups are formed: the streams are ordered and the call returns
\* true with every stream's record 0 mapped.
OrderStreams ==
    /\ pc = "group" /\ idx = N + 1
    /\ order' = [j \in S |-> BestOrder(<< >>)[j]]
    /\ out' = Append(out, mapped)
    /\ pc' = "idle"
    /\ UNCHANGED <<in, open, pos, equal, equalEnd, equalCurrent, lastFetched,
                   mfb, mapped, idx, highest, recycle, groupKey, eof>>

-----------------------------------------------------------------------------

\* One step of a running internalGetRecord.
GetRecordStep ==
    \/ AdvanceStream \/ AlignSkip \/ AlignRaise \/ AlignFetch \/ AlignDry
    \/ AlignEnd \/ GroupStart \/ GroupCollect \/ OrderStreams

Next == Open \/ Close \/ GetRecord \/ GetRecordStep

Spec == Init /\ [][Next]_vars

\* internalGetRecord runs on the request's thread without waiting for
\* anything: once called it keeps taking steps.  The caller is not obliged
\* to call it.
FairSpec == Spec /\ WF_vars(GetRecordStep)

-----------------------------------------------------------------------------
(* Properties.                                                             *)

MergeFile == [equal_records : 0..MaxLen, current_block : Blocks,
              blocking_factor : Factors,
              block_data : [0..(MaxFactor - 1) -> 0..MaxLen],
              space : [Blocks -> [0..(MaxFactor - 1) -> 0..MaxLen]]]

\* Besides the types, every combination returned consists of records the
\* substreams delivered: no data a merge file never held is mapped.
TypeOK ==
    /\ in \in [S -> SortedInputs] /\ open \in BOOLEAN
    /\ pos \in [S -> 0..MaxLen]
    /\ equal \in [S -> -1..0] /\ equalEnd \in [S -> -1..MaxLen]
    /\ equalCurrent \in [S -> -1..MaxLen] /\ lastFetched \in [S -> -1..MaxLen]
    /\ order \in [S -> S] /\ mfb \in [S -> MergeFile]
    /\ mapped \in [S -> 0..MaxLen]
    /\ pc \in {"idle", "advance", "align", "group", "collect"}
    /\ idx \in 1..(N + 1) /\ highest \in S /\ recycle \in BOOLEAN
    /\ groupKey \in Key /\ eof \in BOOLEAN
    /\ out \in Seq([S -> 1..MaxLen])

\* The combinations of records, one per substream, whose keys compare
\* equal: the inner join the merge must produce.
Matching == {t \in [S -> 1..MaxLen] :
                /\ \A s \in S : t[s] \in 1..Len(in[s])
                /\ \A s \in S : Compare(KeyOf(1, t[1]), KeyOf(s, t[s])) = 0}

\* internalGetRecord returns every matching combination exactly once, and
\* when it returns false it has returned all of them: the merge files'
\* block traffic, the record left waiting between groups, the raise loop
\* and the odometer over the stream order lose, repeat or invent none.
JoinExact ==
    /\ IsInjective(out)
    /\ ToSet(out) \subseteq Matching
    /\ eof => ToSet(out) = Matching

\* Every call of internalGetRecord returns: the raise loop and the group
\* loops end even when streams keep overtaking each other.
GetRecordReturns == pc # "idle" ~> pc = "idle"

=============================================================================
