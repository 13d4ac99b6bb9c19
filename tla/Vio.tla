-------------------------------- MODULE Vio --------------------------------
(***************************************************************************)
(* Record versions of src/jrd/vio.cpp under the cooperative GC policy.     *)
(*                                                                         *)
(* A row is a chain of versions, primary (newest) first.  Transactions     *)
(* read a row by walking the chain (VIO_chase_record_version), update or   *)
(* delete it through prepare_update, and clean it up on the way: a dead    *)
(* head is backed out (VIO_backout), back versions under a mature head are *)
(* purged (purge), a mature delete stub is expunged (expunge), and after a *)
(* write the versions no snapshot can see are dropped                      *)
(* (VIO_intermediate_gc).  Each loop iteration of the walker and of        *)
(* prepare_update is one action, so other transactions interleave between  *)
(* them exactly where the code releases its page latch.                    *)
(*                                                                         *)
(* Version data is abstracted to the writing transaction, the delete flag  *)
(* and rpb_gc_active; page/line pointers to the position in the chain.     *)
(***************************************************************************)
EXTENDS Integers, Sequences, SequencesExt, FiniteSets, FiniteSetsExt

CONSTANTS
    MaxTx,      \* transactions 1..MaxTx are started in number order
    Rec,        \* record numbers of one relation
    RC,         \* transactions started as READ COMMITTED
    NoRecVer,   \* those of RC started with NO_RECORD_VERSION
    NoCleanup,  \* transactions whose attachment has ATT_no_cleanup
    Kinds,      \* statements issued: "select", "modify", "erase", "lock",
                \* "current" (VIO_get_current), "sweep" (VIO_sweep)
    NoRec       \* model value: no record (idle transaction)

Tx == 1..MaxTx
SysTx == 0          \* writer of the rows present before any Tx starts
NoTx == -1          \* "no version": record not found / nothing read yet
TxNr == {SysTx} \cup Tx
CN_PREHISTORIC == 1 \* commit number of SysTx

StatementKinds == {"select", "modify", "erase", "lock", "current", "sweep"}

ASSUME MaxTx \in Nat /\ RC \subseteq Tx /\ NoRecVer \subseteq RC /\ NoCleanup \subseteq Tx /\ NoRec \notin Rec
ASSUME Kinds \subseteq StatementKinds

\* The transactions that may sweep: the sweep transaction starts with
\* sweep_tpb (isc_tpb_read_committed, isc_tpb_rec_version) and VIO_sweep
\* returns at once under ATT_NO_CLEANUP.
SweepTx == (RC \ NoRecVer) \ NoCleanup

Version == [tx : TxNr, deleted : BOOLEAN, gc : BOOLEAN]   \* gc: rpb_gc_active

VARIABLES
    tip,        \* TIP state of each transaction
    commitNo,   \* commit number (TipCache) of committed transactions
    lastCN,     \* last commit number handed out
    snapshotNo, \* tra_snapshot_number
    lockData,   \* data of the transaction lock: oldest active at start
    oldestSnap, \* tra_oldest_active, the "oldest_snapshot" of the walker
    chain,      \* chain[r]: versions on disk, primary first; << >> = no row
    hist,       \* history: every version written, newest first, never GC'd
    pc,         \* where each transaction's current statement is
    op,         \* the statement's record_param and locals
    seen,       \* seen[t][r]: version t last fetched of r (history only)
    basis       \* basis[t][r]: version t read before writing r (history)

vars == <<tip, commitNo, lastCN, snapshotNo, lockData, oldestSnap,
          chain, hist, pc, op, seen, basis>>

OpRec == [kind : {"none"} \cup StatementKinds, rec : Rec \cup {NoRec},
          cur : TxNr \cup {NoTx}, readTx : TxNr \cup {NoTx},
          hadBack : BOOLEAN, conflictTx : TxNr \cup {NoTx},
          waitFor : TxNr \cup {NoTx}, intGcDone : BOOLEAN,
          ret : {"idle", "chase", "prep", "cur"}, bkTx : TxNr \cup {NoTx},
          igcHead : TxNr \cup {NoTx}, igcOld : Seq(Version),
          igcNew : Seq(Version)]

IdleOp == [kind |-> "none", rec |-> NoRec, cur |-> NoTx, readTx |-> NoTx,
           hadBack |-> FALSE, conflictTx |-> NoTx, waitFor |-> NoTx,
           intGcDone |-> FALSE, ret |-> "idle", bkTx |-> NoTx,
           igcHead |-> NoTx, igcOld |-> << >>, igcNew |-> << >>]

ActiveTx == {t \in Tx : tip[t] = "active"}

-----------------------------------------------------------------------------
(* Transaction states as the walker sees them (TRA_snapshot_state).        *)

\* The commit number up to which t sees commits: fixed at start for a
\* snapshot transaction, the latest one for a read-committed transaction.
SnapshotOf(t) == IF t \in RC THEN lastCN ELSE snapshotNo[t]

SnapState(t, w) ==
    CASE w = t                  -> "us"
      [] w = SysTx              -> "committed"
      [] tip[w] = "dead"        -> "dead"
      [] tip[w] = "committed" /\ commitNo[w] <= SnapshotOf(t) -> "committed"
      [] OTHER                  -> "active"

\* Position of the version written by w in chain s (0: not there).
Pos(s, w) == SelectInSeq(s, LAMBDA v : v.tx = w)

\* The version a transaction should see in chain s: the newest one whose
\* writer is committed in its snapshot or itself, unless that is a delete.
RefVisible(t, s) ==
    LET i == SelectInSeq(s, LAMBDA v : SnapState(t, v.tx) \in {"committed", "us"})
    IN  IF i = 0 \/ s[i].deleted THEN NoTx ELSE s[i].tx

-----------------------------------------------------------------------------
(* Cleanup primitives.  Each re-fetches the primary version for write and  *)
(* gives up when it is not the one the caller decided on.                  *)

\* VIO_backout: a dead head x is removed, its back version (if any) becomes
\* the primary version, otherwise the whole record is deleted.
Backout(s, x) == IF s # << >> /\ Head(s).tx = x THEN Tail(s) ELSE s

\* Mutant of Purge: the re-verification of the head always fails.
PurgeNoop(s, x) == s

\* purge: all back versions of a mature committed head x are removed.
Purge(s, x) == IF s # << >> /\ Head(s).tx = x /\ Len(s) > 1 THEN << Head(s) >> ELSE s

\* expunge: a delete stub older than the expunger's oldest_snapshot is
\* removed together with all its back versions.
Expunge(s, oldest) ==
    IF s # << >> /\ Head(s).deleted /\ Head(s).tx < oldest THEN << >> ELSE s

-----------------------------------------------------------------------------
(* Intermediate GC (VIO_intermediate_gc).                                  *)

\* att_active_snapshots: snapshot numbers of the running snapshot
\* transactions (read-committed record_version ones keep none).
ActiveSnapshots == {snapshotNo[u] : u \in ActiveTx \ RC}

\* TipCache::cacheState: the commit number, or a value outside
\* [CN_PREHISTORIC, CN_MAX] for an active, limbo or dead writer.
CacheState(w) ==
    IF w = SysTx THEN CN_PREHISTORIC
    ELSE IF tip[w] = "committed" THEN commitNo[w] ELSE 0

\* ActiveSnapshots::getSnapshotForVersion: the oldest active snapshot that
\* sees commit number cn, or the last commit when no active snapshot does.
SnapshotForVersion(cn) ==
    LET S == {s \in ActiveSnapshots : s >= cn}
    IN  IF S # {} THEN Min(S) ELSE lastCN

\* Mutant of Bucket: the CN_PREHISTORIC..CN_MAX range check is dropped.
BucketNoRangeCheck(v) == SnapshotForVersion(CacheState(v.tx))

Bucket(v) == IF CacheState(v.tx) = 0 THEN 0 ELSE SnapshotForVersion(CacheState(v.tx))

\* The newest->oldest loop: a version goes when it falls into the same
\* snapshot bucket as the version just above it.
RECURSIVE Staying(_, _)
Staying(l, prev) ==
    IF l = << >> THEN << >>
    ELSE LET b == Bucket(Head(l))
         IN  IF b # 0 /\ b = prev THEN Staying(Tail(l), b)
             ELSE << Head(l) >> \o Staying(Tail(l), b)

\* The chain after intermediate GC of chain s: the staying list excludes a
\* deleted primary version; the primary version itself is never touched.
IntermediateGC(s) ==
    LET l    == IF Head(s).deleted THEN Tail(s) ELSE s
        keep == Staying(l, 0)
    IN  IF Len(l) <= 1 \/ Len(keep) = Len(l) THEN s
        ELSE << Head(s) >> \o (IF Head(s).deleted THEN keep ELSE Tail(keep))

\* VIO_intermediate_gc has garbage to collect on primary version s: the
\* head is not being backed out and some version goes.
IGCGoing(s) == ~Head(s).gc /\ IntermediateGC(s) # s

\* The first part of VIO_intermediate_gc: list_staying, the refresh of the
\* active snapshots and the classification, and DPM_store of the new back
\* chain; t then re-fetches the primary version (pc "igc") with the page
\* released, remembering the head and back chain it classified.
StartIGC(t, s, ret) ==
    /\ pc' = [pc EXCEPT ![t] = "igc"]
    /\ op' = [op EXCEPT ![t].ret = ret, ![t].igcHead = Head(s).tx,
                        ![t].igcOld = Tail(s),
                        ![t].igcNew = Tail(IntermediateGC(s)),
                        ![t].intGcDone = @ \/ ret = "chase"]

-----------------------------------------------------------------------------
(* Transactions (tra.cpp, not under src/: modelled from the interface the  *)
(* walker relies on).                                                      *)

Unread == -2

Init ==
    /\ tip = [t \in Tx |-> "none"]
    /\ commitNo = [t \in Tx |-> 0]
    /\ lastCN = CN_PREHISTORIC
    /\ snapshotNo = [t \in Tx |-> 0]
    /\ lockData = [t \in Tx |-> 0]
    /\ oldestSnap = [t \in Tx |-> 0]
    /\ chain \in [Rec -> {<< >>, << [tx |-> SysTx, deleted |-> FALSE, gc |-> FALSE] >>}]
    /\ hist = chain
    /\ pc = [t \in Tx |-> "idle"]
    /\ op = [t \in Tx |-> IdleOp]
    /\ seen = [t \in Tx |-> [r \in Rec |-> Unread]]
    /\ basis = [t \in Tx |-> [r \in Rec |-> NoTx]]

\* TRA_start: the lock data is the oldest transaction still active (a
\* read-committed transaction needs no old versions, vio.cpp:6636, and
\* publishes its own number), tra_oldest_active the smallest lock data
\* among the active transactions.
Begin(t) ==
    /\ tip[t] = "none"
    /\ \A u \in 1..(t - 1) : tip[u] # "none"
    /\ LET oldest == IF t \in RC THEN t ELSE Min({t} \cup ActiveTx)
       IN  /\ lockData' = [lockData EXCEPT ![t] = oldest]
           /\ oldestSnap' = [oldestSnap EXCEPT ![t] =
                               Min({oldest} \cup {lockData[u] : u \in ActiveTx})]
    /\ snapshotNo' = [snapshotNo EXCEPT ![t] = lastCN]
    /\ tip' = [tip EXCEPT ![t] = "active"]
    /\ UNCHANGED <<commitNo, lastCN, chain, hist, pc, op, seen, basis>>

Commit(t) ==
    /\ tip[t] = "active" /\ pc[t] = "idle"
    /\ lastCN' = lastCN + 1
    /\ commitNo' = [commitNo EXCEPT ![t] = lastCN + 1]
    /\ tip' = [tip EXCEPT ![t] = "committed"]
    /\ UNCHANGED <<snapshotNo, lockData, oldestSnap, chain, hist, pc, op, seen, basis>>

\* Rollback without undo: the versions stay on disk for a later backout.
RollbackDead(t) ==
    /\ tip[t] = "active" /\ pc[t] = "idle"
    /\ tip' = [tip EXCEPT ![t] = "dead"]
    /\ UNCHANGED <<commitNo, lastCN, snapshotNo, lockData, oldestSnap,
                   chain, hist, pc, op, seen, basis>>

\* Rollback through the transaction-level savepoint: every change is undone
\* and the transaction is then marked committed (the case prepare_update
\* retries for, vio.cpp:6786).
DropOwn(s, t) == IF s # << >> /\ Head(s).tx = t THEN Tail(s) ELSE s

RollbackUndo(t) ==
    /\ tip[t] = "active" /\ pc[t] = "idle"
    /\ chain' = [r \in Rec |-> DropOwn(chain[r], t)]
    /\ hist' = [r \in Rec |-> DropOwn(hist[r], t)]
    /\ lastCN' = lastCN + 1
    /\ commitNo' = [commitNo EXCEPT ![t] = lastCN + 1]
    /\ tip' = [tip EXCEPT ![t] = "committed"]
    /\ UNCHANGED <<snapshotNo, lockData, oldestSnap, pc, op, seen, basis>>

\* Server crash: every running transaction is dead, statements vanish.
Crash ==
    /\ ActiveTx # {}
    /\ \A t \in Tx : pc[t] # "bugcheck"
    /\ tip' = [t \in Tx |-> IF tip[t] = "active" THEN "dead" ELSE tip[t]]
    /\ pc' = [t \in Tx |-> "idle"]
    /\ op' = [t \in Tx |-> IdleOp]
    /\ UNCHANGED <<commitNo, lastCN, snapshotNo, lockData, oldestSnap,
                   chain, hist, seen, basis>>

-----------------------------------------------------------------------------
(* Statements.                                                             *)

R(t)   == op[t].rec
Cur(t) == op[t].cur
At(t)  == Pos(chain[R(t)], Cur(t))      \* position of the cursor version
V(t)   == chain[R(t)][At(t)]
HasBack(t) == At(t) < Len(chain[R(t)])  \* rpb_b_page != 0
BackTx(t)  == chain[R(t)][At(t) + 1].tx

SetChain(t, s) == chain' = [chain EXCEPT ![R(t)] = s]
\* Mutant of Fail: the statement ends but keeps its record_param.
FailKeepsOp(t) == pc' = [pc EXCEPT ![t] = "idle"] /\ UNCHANGED op

\* The statement ends (returns, or check_prepare_result posts the error).
Fail(t) == pc' = [pc EXCEPT ![t] = "idle"] /\ op' = [op EXCEPT ![t] = IdleOp]

-----------------------------------------------------------------------------
(* VIO_backout in two steps.  Between DPM_backout_mark and the final       *)
(* re-fetch the backer holds the record's GC lock (LCK_record_gc) and the  *)
(* primary version carries rpb_gc_active, while it cleans up indexes and   *)
(* blobs with the page released.  The lock dies with the backer's server;  *)
(* the flag stays on disk.                                                 *)

\* lockGCActive: the GC lock of r is held (LCK_EX, taken without waiting).
GCLocked(r) == \E u \in Tx : pc[u] = "backout" /\ op[u].rec = r

\* checkGCActive on a primary version with rpb_gc_active: while the GC lock
\* is held the version counts as active (its backer's); without it the
\* flag is reset in the record_param and the version counts as dead.
GCActive(r) == chain[r] # << >> /\ Head(chain[r]).gc /\ GCLocked(r)

\* After VIO_backout the caller returns (VIO_garbage_collect) or loops:
\* the walker re-fetches the primary version, prepare_update and
\* VIO_get_current start their loop again.
Resume(t, ret) ==
    /\ pc' = [pc EXCEPT ![t] = ret]
    /\ op' = [op EXCEPT ![t] = IF ret = "idle" THEN IdleOp
                               ELSE [@ EXCEPT !.ret = "idle", !.bkTx = NoTx,
                                              !.cur = IF ret = "chase" THEN NoTx ELSE @]]

\* The caller releases the page and calls VIO_backout for the dead primary
\* version x of r it saw (vio.cpp:1439, 2904, 3173, 6654, 6834).
CallBackout(t, r, x, ret) ==
    /\ pc' = [pc EXCEPT ![t] = "bkstart"]
    /\ op' = [op EXCEPT ![t].rec = r, ![t].ret = ret, ![t].bkTx = x]
    /\ UNCHANGED <<chain, seen>>

\* Mutant of StartBackout: the GC lock is not taken.
StartBackoutNoLock(t) ==
    LET s == chain[R(t)]  x == op[t].bkTx IN
    /\ pc[t] = "bkstart"
    /\ \/ /\ ~(s # << >> /\ Head(s).tx = x)
          /\ Resume(t, op[t].ret) /\ UNCHANGED chain
       \/ /\ s # << >> /\ Head(s).tx = x /\ Head(s).deleted
          /\ SetChain(t, Backout(s, x)) /\ Resume(t, op[t].ret)
       \/ /\ s # << >> /\ Head(s).tx = x /\ ~Head(s).deleted
          /\ SetChain(t, << [Head(s) EXCEPT !.gc = TRUE] >> \o Tail(s))
          /\ pc' = [pc EXCEPT ![t] = "backout"] /\ UNCHANGED op
    /\ UNCHANGED <<tip, commitNo, lastCN, snapshotNo, lockData, oldestSnap,
                   hist, seen, basis>>

\* Mutant of StartBackout: the re-fetched primary version is not compared
\* with the one the caller saw, and whatever heads the chain is backed out.
StartBackoutUnchecked(t) ==
    LET s == chain[R(t)] IN
    /\ pc[t] = "bkstart"
    /\ \/ /\ ~(s # << >> /\ ~GCLocked(R(t)))
          /\ Resume(t, op[t].ret) /\ UNCHANGED chain
       \/ /\ s # << >> /\ ~GCLocked(R(t)) /\ Head(s).deleted
          /\ SetChain(t, Tail(s)) /\ Resume(t, op[t].ret)
       \/ /\ s # << >> /\ ~GCLocked(R(t)) /\ ~Head(s).deleted
          /\ SetChain(t, << [Head(s) EXCEPT !.gc = TRUE] >> \o Tail(s))
          /\ pc' = [pc EXCEPT ![t] = "backout"]
          /\ op' = [op EXCEPT ![t].bkTx = Head(s).tx]
    /\ UNCHANGED <<tip, commitNo, lastCN, snapshotNo, lockData, oldestSnap,
                   hist, seen, basis>>

\* VIO_backout up to DPM_backout_mark: the primary version is re-fetched
\* and must still be x, and the GC lock must be free, or nothing is done.
\* A deleted primary version is removed at once; any other is marked
\* rpb_gc_active and the backer goes on with the lock held.
StartBackout(t) ==
    LET s == chain[R(t)]  x == op[t].bkTx IN
    /\ pc[t] = "bkstart"
    /\ \/ /\ ~(s # << >> /\ Head(s).tx = x /\ ~GCLocked(R(t)))
          /\ Resume(t, op[t].ret) /\ UNCHANGED chain
       \/ /\ s # << >> /\ Head(s).tx = x /\ ~GCLocked(R(t)) /\ Head(s).deleted
          /\ SetChain(t, Backout(s, x)) /\ Resume(t, op[t].ret)
       \/ /\ s # << >> /\ Head(s).tx = x /\ ~GCLocked(R(t)) /\ ~Head(s).deleted
          /\ SetChain(t, << [Head(s) EXCEPT !.gc = TRUE] >> \o Tail(s))
          /\ pc' = [pc EXCEPT ![t] = "backout"] /\ UNCHANGED op
    /\ UNCHANGED <<tip, commitNo, lastCN, snapshotNo, lockData, oldestSnap,
                   hist, seen, basis>>

\* The rest of VIO_backout: the primary version is fetched for write again
\* and must be the marked one (else fb_assert and return); its flag is
\* cleared, the GC lock released and, under the same page latch, the back
\* version brought forward or the record deleted.
FinishBackout(t) ==
    /\ pc[t] = "backout"
    /\ LET s == chain[R(t)] IN
       SetChain(t, IF s # << >> /\ Head(s).gc THEN Backout(s, op[t].bkTx) ELSE s)
    /\ Resume(t, op[t].ret)
    /\ UNCHANGED <<tip, commitNo, lastCN, snapshotNo, lockData, oldestSnap,
                   hist, seen, basis>>

\* VIO_store: a new primary version without back version.
Store(t, r) ==
    /\ tip[t] = "active" /\ pc[t] = "idle"
    /\ chain[r] = << >>
    /\ chain' = [chain EXCEPT ![r] = << [tx |-> t, deleted |-> FALSE, gc |-> FALSE] >>]
    /\ hist' = [hist EXCEPT ![r] = << [tx |-> t, deleted |-> FALSE, gc |-> FALSE] >> \o @]
    /\ seen' = [seen EXCEPT ![t][r] = t]
    /\ UNCHANGED <<tip, commitNo, lastCN, snapshotNo, lockData, oldestSnap,
                   pc, op, basis>>

\* A select, update or delete positions on the primary version (DPM_get).
StartStatement(t, r, kind) ==
    /\ tip[t] = "active" /\ pc[t] = "idle"
    /\ chain[r] # << >>
    /\ kind = "sweep" => t \in SweepTx         \* VIO_sweep: ATT_NO_CLEANUP
    /\ pc' = [pc EXCEPT ![t] = "chase"]
    /\ op' = [op EXCEPT ![t] = [IdleOp EXCEPT !.kind = kind, !.rec = r,
                                              !.cur = Head(chain[r]).tx]]
    /\ UNCHANGED <<tip, commitNo, lastCN, snapshotNo, lockData, oldestSnap,
                   chain, hist, seen, basis>>

-----------------------------------------------------------------------------
(* VIO_chase_record_version: one action per iteration of its loop.  s is   *)
(* the chain the iteration leaves behind.                                  *)

\* return true/false: the fetch result goes to the statement; an update or
\* delete continues with the version found.
Found(t, x, s) ==
    /\ seen' = [seen EXCEPT ![t][R(t)] = x]
    /\ IF op[t].kind \in {"select", "sweep"} \/ x = NoTx
         THEN Fail(t)
         ELSE /\ pc' = [pc EXCEPT ![t] = "write"]
              /\ op' = [op EXCEPT ![t].readTx = x, ![t].hadBack = Pos(s, x) < Len(s)]

Step(t, x) == op' = [op EXCEPT ![t].cur = x] /\ UNCHANGED <<pc, seen>>

\* DPM_get of the primary version: restart, or "record not found".
Refetch(t, s) == IF s = << >> THEN Found(t, NoTx, s) ELSE Step(t, Head(s).tx)

\* DPM_fetch_back, or return false when there is no back version.
StepBack(t) == IF HasBack(t) THEN Step(t, BackTx(t)) ELSE Found(t, NoTx, chain[R(t)])

\* The loop dispatches on TRA_snapshot_state of the version under the
\* cursor, computed on entry and after each pass; the entry fast path (a
\* committed or own live version with nothing to collect) returns what the
\* first pass returns.
Chasing(t, state) ==
    /\ pc[t] = "chase" /\ At(t) > 0
    /\ (IF At(t) = 1 /\ GCActive(R(t)) THEN "active" ELSE SnapState(t, Cur(t))) = state

\* A latch timeout or a change seen after VIO_data: refetch the primary.
ChaseRefetch(t) ==
    /\ pc[t] = "chase" /\ At(t) = 0
    /\ Refetch(t, chain[R(t)])
    /\ UNCHANGED <<tip, commitNo, lastCN, snapshotNo, lockData, oldestSnap, chain, hist, basis>>

\* Dead writer: a back version, or any version under ATT_no_cleanup, is
\* walked past; a primary one is backed out.
ChaseDead(t) ==
    /\ Chasing(t, "dead")
    /\ \/ (At(t) > 1 \/ t \in NoCleanup) /\ StepBack(t) /\ UNCHANGED chain
       \/ At(t) = 1 /\ t \notin NoCleanup /\ CallBackout(t, R(t), Cur(t), "chase")
    /\ UNCHANGED <<tip, commitNo, lastCN, snapshotNo, lockData, oldestSnap, hist, basis>>

\* Mutant of ChaseActive: an active version without back version is returned.
ChaseActiveReturnsIt(t) ==
    /\ Chasing(t, "active")
    /\ IF HasBack(t) THEN Step(t, BackTx(t)) ELSE Found(t, Cur(t), chain[R(t)])
    /\ UNCHANGED <<tip, commitNo, lastCN, snapshotNo, lockData, oldestSnap, chain, hist, basis>>

\* A read committed NO_RECORD_VERSION transaction waits for the writer of
\* an active version, unless the version is a backout in progress.
ReadWaits(t) == t \in NoRecVer /\ ~(At(t) = 1 /\ GCActive(R(t)))

\* Otherwise the back version is fetched, or false returned when there is
\* none.  The sweeper (TDBB_sweeper) never reads the back version of an
\* active record: it notifies the garbage collector (not modelled here),
\* releases the page and returns false.
ChaseActive(t) ==
    /\ Chasing(t, "active") /\ ~ReadWaits(t)
    /\ IF op[t].kind = "sweep" THEN Found(t, NoTx, chain[R(t)]) ELSE StepBack(t)
    /\ UNCHANGED <<tip, commitNo, lastCN, snapshotNo, lockData, oldestSnap, chain, hist, basis>>

\* The reader releases the page and waits on the writer's lock (TRA_wait).
ChaseReadWait(t) ==
    /\ Chasing(t, "active") /\ ReadWaits(t)
    /\ pc' = [pc EXCEPT ![t] = "rwait"]
    /\ op' = [op EXCEPT ![t].waitFor = Cur(t)]
    /\ UNCHANGED <<tip, commitNo, lastCN, snapshotNo, lockData, oldestSnap,
                   chain, hist, seen, basis>>

ChaseUs(t) ==
    /\ Chasing(t, "us")
    /\ Found(t, IF V(t).deleted THEN NoTx ELSE Cur(t), chain[R(t)])
    /\ UNCHANGED <<tip, commitNo, lastCN, snapshotNo, lockData, oldestSnap, chain, hist, basis>>

\* Mutant of CannotGC: a writer equal to the oldest snapshot counts as mature.
CannotGCStrict(t) ==
    Cur(t) > oldestSnap[t] \/ ~HasBack(t) \/ At(t) > 1 \/ t \in NoCleanup

\* cannotGC of the committed case: the primary version is not older than
\* the oldest snapshot, has no back version, is itself a back version, or
\* the attachment does no cleanup.
CannotGC(t) ==
    Cur(t) >= oldestSnap[t] \/ ~HasBack(t) \/ At(t) > 1 \/ t \in NoCleanup

\* The sweeper (TDBB_sweeper) runs intermediate GC once per record on a
\* committed version with back versions that is not yet mature; the fast
\* path is not taken for it.
SweepGC(t) ==
    /\ op[t].kind = "sweep" /\ ~op[t].intGcDone
    /\ HasBack(t) /\ Cur(t) >= oldestSnap[t]

\* VIO_intermediate_gc on the primary version; when nothing goes the walk
\* restarts at once from the primary version (DPM_get).
ChaseSweepGC(t) ==
    /\ Chasing(t, "committed") /\ SweepGC(t)
    /\ LET s == chain[R(t)]
       IN  IF IGCGoing(s) THEN StartIGC(t, s, "chase")
           ELSE /\ op' = [op EXCEPT ![t].intGcDone = TRUE, ![t].cur = Head(s).tx]
                /\ UNCHANGED pc
    /\ UNCHANGED <<tip, commitNo, lastCN, snapshotNo, lockData, oldestSnap,
                   chain, hist, seen, basis>>

\* Mutant of IGCInstall: the re-fetched primary version is not compared
\* with the one classified.
IGCInstallUnchecked(t) ==
    LET s == chain[R(t)]
        s2 == IF s # << >> THEN << Head(s) >> \o op[t].igcNew ELSE s
    IN  /\ pc[t] = "igc"
        /\ SetChain(t, s2)
        /\ IF op[t].ret = "chase" /\ s2 # << >>
             THEN /\ pc' = [pc EXCEPT ![t] = "chase"]
                  /\ op' = [op EXCEPT ![t].cur = Head(s2).tx, ![t].ret = "idle",
                                      ![t].igcHead = NoTx, ![t].igcOld = << >>,
                                      ![t].igcNew = << >>]
                  /\ UNCHANGED seen
             ELSE IF op[t].ret = "chase" THEN Found(t, NoTx, s2)
             ELSE Fail(t) /\ UNCHANGED seen
        /\ UNCHANGED <<tip, commitNo, lastCN, snapshotNo, lockData, oldestSnap,
                       hist, basis>>

\* The rest of VIO_intermediate_gc: the primary version is fetched for
\* write and, if its transaction and back pointer are those classified,
\* pointed at the new back chain (the old one is deleted); otherwise the
\* new chain is deleted.  A writer's statement then ends; the sweeper's
\* walk restarts from the primary version, or finds the record gone.
IGCInstall(t) ==
    LET s == chain[R(t)]
        s2 == IF s # << >> /\ Head(s).tx = op[t].igcHead /\ Tail(s) = op[t].igcOld
              THEN << Head(s) >> \o op[t].igcNew ELSE s
    IN  /\ pc[t] = "igc"
        /\ SetChain(t, s2)
        /\ IF op[t].ret = "chase" /\ s2 # << >>
             THEN /\ pc' = [pc EXCEPT ![t] = "chase"]
                  /\ op' = [op EXCEPT ![t].cur = Head(s2).tx, ![t].ret = "idle",
                                      ![t].igcHead = NoTx, ![t].igcOld = << >>,
                                      ![t].igcNew = << >>]
                  /\ UNCHANGED seen
             ELSE IF op[t].ret = "chase" THEN Found(t, NoTx, s2)
             ELSE Fail(t) /\ UNCHANGED seen
        /\ UNCHANGED <<tip, commitNo, lastCN, snapshotNo, lockData, oldestSnap,
                       hist, basis>>

ChaseCommitted(t) ==
    /\ Chasing(t, "committed") /\ ~SweepGC(t)
    /\ \/ /\ V(t).deleted
          /\ LET s == IF Cur(t) < oldestSnap[t] /\ t \notin NoCleanup
                      THEN Expunge(chain[R(t)], oldestSnap[t]) ELSE chain[R(t)]
             IN  SetChain(t, s) /\ Found(t, NoTx, s)
       \/ ~V(t).deleted /\ CannotGC(t) /\ Found(t, Cur(t), chain[R(t)]) /\ UNCHANGED chain
       \/ /\ ~V(t).deleted /\ ~CannotGC(t)
          /\ LET s == Purge(chain[R(t)], Cur(t)) IN SetChain(t, s) /\ Refetch(t, s)
    /\ UNCHANGED <<tip, commitNo, lastCN, snapshotNo, lockData, oldestSnap, hist, basis>>

\* Mutant of GarbageCollect: a head written by the oldest snapshot itself
\* counts as mature.
GarbageCollectAtOldest(t, r) ==
    /\ tip[t] = "active" /\ pc[t] = "idle" /\ t \notin NoCleanup
    /\ chain[r] # << >> /\ ~GCActive(r)
    /\ LET h == Head(chain[r])
       IN  \/ SnapState(t, h.tx) = "dead" /\ CallBackout(t, r, h.tx, "idle")
           \/ /\ SnapState(t, h.tx) # "dead" /\ h.tx <= oldestSnap[t]
              /\ chain' = [chain EXCEPT ![r] = IF h.deleted THEN Expunge(@, oldestSnap[t] + 1)
                                                         ELSE Purge(@, h.tx)]
              /\ chain' # chain
              /\ UNCHANGED <<pc, op, seen>>
    /\ UNCHANGED <<tip, commitNo, lastCN, snapshotNo, lockData, oldestSnap, hist, basis>>

\* VIO_garbage_collect, run by index creation on the primary version of r:
\* a dead head is backed out, a mature delete stub expunged and the back
\* versions of a mature committed head purged, each re-verifying the head
\* after the page was released.  One step is one pass of its loop; the
\* pass that returns true (nothing to do) changes nothing.
GarbageCollect(t, r) ==
    /\ tip[t] = "active" /\ pc[t] = "idle" /\ t \notin NoCleanup
    /\ chain[r] # << >> /\ ~GCActive(r)
    /\ LET h == Head(chain[r])
       IN  \/ SnapState(t, h.tx) = "dead" /\ CallBackout(t, r, h.tx, "idle")
           \/ /\ SnapState(t, h.tx) # "dead" /\ h.tx < oldestSnap[t]
              /\ chain' = [chain EXCEPT ![r] = IF h.deleted THEN Expunge(@, oldestSnap[t])
                                                         ELSE Purge(@, h.tx)]
              /\ chain' # chain
              /\ UNCHANGED <<pc, op, seen>>
    /\ UNCHANGED <<tip, commitNo, lastCN, snapshotNo, lockData, oldestSnap, hist, basis>>

-----------------------------------------------------------------------------
(* VIO_erase / VIO_modify after the record was fetched, prepare_update and *)
(* its wait on the lock of an active writer.                               *)

NewVersion(t) == [tx |-> t, deleted |-> op[t].kind = "erase", gc |-> FALSE]

\* The version is written over the current primary version, then, when the
\* version read had a back version and the attachment cleans up,
\* VIO_intermediate_gc runs on the row.
\* replace_record (DPM_update): the new version overwrites the primary
\* version, whose old content prepare_update or DPM_chain stored as the
\* back version.
ReplaceRecord(t) == << NewVersion(t) >> \o chain[R(t)]

Replace(t) ==
    LET s == ReplaceRecord(t)
    IN  /\ SetChain(t, s)
        /\ hist' = [hist EXCEPT ![R(t)] = << NewVersion(t) >> \o @]
        /\ basis' = [basis EXCEPT ![t][R(t)] = op[t].readTx]
        /\ seen' = [seen EXCEPT ![t][R(t)] = IF NewVersion(t).deleted THEN NoTx ELSE t]
        /\ IF op[t].hadBack /\ t \notin NoCleanup /\ IGCGoing(s)
             THEN StartIGC(t, s, "idle") ELSE Fail(t)

\* VIO_update_in_place: the transaction's own primary version is
\* overwritten; its back version stays, no new one is made.
InPlace(t) ==
    /\ SetChain(t, << NewVersion(t) >> \o Tail(chain[R(t)]))
    /\ hist' = [hist EXCEPT ![R(t)] = << NewVersion(t) >> \o Tail(@)]
    /\ seen' = [seen EXCEPT ![t][R(t)] = IF NewVersion(t).deleted THEN NoTx ELSE t]
    /\ Fail(t)
    /\ UNCHANGED <<tip, commitNo, lastCN, snapshotNo, lockData, oldestSnap, basis>>

\* prepare_update up to its loop: the version read is stored as the new
\* back version (DPM_store), and the re-fetch loop starts with no update
\* conflict seen yet (update_conflict_trans).
EnterPrepare(t) ==
    /\ pc' = [pc EXCEPT ![t] = "prep"]
    /\ op' = [op EXCEPT ![t].conflictTx = NoTx]
    /\ UNCHANGED <<tip, commitNo, lastCN, snapshotNo, lockData, oldestSnap,
                   chain, hist, seen, basis>>

\* VIO_erase of the transaction's own version: a delete stub in place.
WriteInPlace(t) ==
    /\ pc[t] = "write" /\ op[t].kind = "erase" /\ op[t].readTx = t
    /\ InPlace(t)

\* VIO_erase: DPM_chain succeeds when the primary version is still the one
\* fetched and its page has room for the delete stub.
WriteChain(t) ==
    /\ pc[t] = "write" /\ op[t].readTx # t /\ op[t].kind = "erase"
    /\ chain[R(t)] # << >> /\ Head(chain[R(t)]).tx = op[t].readTx
    /\ Replace(t)
    /\ UNCHANGED <<tip, commitNo, lastCN, snapshotNo, lockData, oldestSnap>>

\* VIO_erase when DPM_chain cannot chain the stub: the long, hard update.
WritePrepare(t) ==
    /\ pc[t] = "write" /\ op[t].kind = "erase" /\ op[t].readTx # t
    /\ EnterPrepare(t)

\* VIO_modify after the fetch: its own version (of the current format) is
\* changed in place; any other version goes through prepare_update.
ModifyWrite(t) ==
    /\ pc[t] = "write" /\ op[t].kind = "modify"
    /\ \/ op[t].readTx = t /\ InPlace(t)
       \/ op[t].readTx # t /\ EnterPrepare(t)

\* VIO_writelock (SELECT ... WITH LOCK) after the fetch: a version the
\* transaction already owns needs no lock (LOCKED); any other goes through
\* prepare_update, whose DELETED and CONFLICT results end the statement
\* without an error (CONFLICTED) and whose success writes a version with
\* the data of the one read.
LockWrite(t) ==
    /\ pc[t] = "write" /\ op[t].kind = "lock"
    /\ \/ /\ op[t].readTx = t /\ Fail(t)
          /\ UNCHANGED <<tip, commitNo, lastCN, snapshotNo, lockData, oldestSnap,
                         chain, hist, seen, basis>>
       \/ op[t].readTx # t /\ EnterPrepare(t)

HeadV(t) == Head(chain[R(t)])
Preparing(t, state) ==
    /\ pc[t] = "prep" /\ chain[R(t)] # << >> /\ ~GCActive(R(t))
    /\ SnapState(t, HeadV(t).tx) = state

\* Mutant of PrepGone: the read-committed exemption is lost.
PrepGoneAlwaysBugcheck(t) ==
    /\ pc[t] = "prep" /\ chain[R(t)] = << >>
    /\ pc' = [pc EXCEPT ![t] = "bugcheck"]
    /\ UNCHANGED <<op, tip, commitNo, lastCN, snapshotNo, lockData, oldestSnap,
                   chain, hist, seen, basis>>

\* DPM_get fails: BUGCHECK(186) for a snapshot transaction, DELETED (an
\* error from check_prepare_result) for a read-committed one.
PrepGone(t) ==
    /\ pc[t] = "prep" /\ chain[R(t)] = << >>
    /\ IF t \in RC THEN Fail(t)
       ELSE pc' = [pc EXCEPT ![t] = "bugcheck"] /\ UNCHANGED op
    /\ UNCHANGED <<tip, commitNo, lastCN, snapshotNo, lockData, oldestSnap,
                   chain, hist, seen, basis>>

\* Mutant of PrepCommitted: no commit_tid_read check for read committed.
PrepCommittedNoReadCheck(t) ==
    /\ Preparing(t, "committed")
    /\ \/ HeadV(t).deleted /\ Fail(t) /\ UNCHANGED <<chain, hist, seen, basis>>
       \/ ~HeadV(t).deleted /\ Replace(t)
    /\ UNCHANGED <<tip, commitNo, lastCN, snapshotNo, lockData, oldestSnap>>

\* Committed primary version: erased (error 188), or for read committed
\* changed since it was read (CONFLICT), or else replaced (with tra_us).
PrepCommitted(t) ==
    /\ Preparing(t, "committed")
    /\ \/ /\ \/ HeadV(t).deleted
             \/ t \in RC /\ op[t].readTx # HeadV(t).tx
          /\ Fail(t)
          /\ UNCHANGED <<chain, hist, seen, basis>>
       \/ /\ ~HeadV(t).deleted
          /\ t \in RC => op[t].readTx = HeadV(t).tx
          /\ Replace(t)
    /\ UNCHANGED <<tip, commitNo, lastCN, snapshotNo, lockData, oldestSnap>>

\* Active primary version: wait for its writer's transaction lock.
PrepActive(t) ==
    /\ Preparing(t, "active")
    /\ pc' = [pc EXCEPT ![t] = "wait"]
    /\ op' = [op EXCEPT ![t].waitFor = HeadV(t).tx]
    /\ UNCHANGED <<tip, commitNo, lastCN, snapshotNo, lockData, oldestSnap,
                   chain, hist, seen, basis>>

\* Dead primary version: VIO_backout, then loop.
PrepDead(t) ==
    /\ Preparing(t, "dead")
    /\ CallBackout(t, R(t), HeadV(t).tx, "prep")
    /\ UNCHANGED <<tip, commitNo, lastCN, snapshotNo, lockData, oldestSnap, hist, basis>>

\* Mutant of Wait: a writer found committed is taken to have been undone.
WaitAssumesUndone(t) ==
    LET w == op[t].waitFor IN
    /\ pc[t] = "wait" /\ tip[w] # "active"
    /\ \/ tip[w] = "committed" /\ Replace(t)
       \/ /\ tip[w] = "dead"
          /\ CallBackout(t, R(t), w, "prep") /\ UNCHANGED <<hist, basis>>
    /\ UNCHANGED <<tip, commitNo, lastCN, snapshotNo, lockData, oldestSnap>>

\* TRA_wait returns once the writer's lock is released.  Committed the first
\* time for this writer: maybe undone by a savepoint rollback, so refetch;
\* committed again: update conflict; dead: back out and loop.
Wait(t) ==
    LET w == op[t].waitFor IN
    /\ pc[t] = "wait" /\ tip[w] # "active"
    /\ \/ /\ tip[w] = "committed" /\ w # op[t].conflictTx
          /\ pc' = [pc EXCEPT ![t] = "prep"]
          /\ op' = [op EXCEPT ![t].conflictTx = w]
          /\ UNCHANGED chain
       \/ tip[w] = "committed" /\ w = op[t].conflictTx /\ Fail(t) /\ UNCHANGED chain
       \/ /\ tip[w] = "dead"
          /\ CallBackout(t, R(t), w, "prep")
    /\ UNCHANGED <<tip, commitNo, lastCN, snapshotNo, lockData, oldestSnap,
                   hist, seen, basis>>

\* The lock manager finds t in a cycle of waiting transactions and fails its
\* wait: LOCK_ERROR, an error from check_prepare_result.
LOCAL Rel == INSTANCE Relation
WaitsFor == [p \in Tx \X Tx |-> pc[p[1]] \in {"wait", "cwait", "rwait"} /\ op[p[1]].waitFor = p[2]]
\* Mutant of WaitDeadlock: the failed wait sends prepare_update round its
\* loop again, as a committed writer does, instead of returning LOCK_ERROR.
WaitDeadlockRetries(t) ==
    /\ pc[t] = "wait"
    /\ Rel!TransitiveClosure(WaitsFor, Tx)[t, t]
    /\ pc' = [pc EXCEPT ![t] = "prep"]
    /\ UNCHANGED <<tip, commitNo, lastCN, snapshotNo, lockData, oldestSnap,
                   chain, hist, op, seen, basis>>

WaitDeadlock(t) ==
    /\ pc[t] = "wait"
    /\ Rel!TransitiveClosure(WaitsFor, Tx)[t, t]
    /\ Fail(t)
    /\ UNCHANGED <<tip, commitNo, lastCN, snapshotNo, lockData, oldestSnap,
                   chain, hist, seen, basis>>

\* The read wait returns once the writer has committed or rolled back: the
\* walk starts again from the primary version (DPM_get), which may be gone.
\* (A wait that returns with the writer still active, the read_conflict
\* error, needs a NO_WAIT transaction or a lock timeout; neither is
\* modelled.)
ReadWaitDone(t) ==
    LET s == chain[R(t)] IN
    /\ pc[t] = "rwait" /\ tip[op[t].waitFor] # "active"
    /\ IF s = << >> THEN Found(t, NoTx, s)
       ELSE /\ pc' = [pc EXCEPT ![t] = "chase"]
            /\ op' = [op EXCEPT ![t].waitFor = NoTx, ![t].cur = Head(s).tx]
            /\ UNCHANGED seen
    /\ UNCHANGED <<tip, commitNo, lastCN, snapshotNo, lockData, oldestSnap,
                   chain, hist, basis>>

\* The lock manager fails the read wait of a transaction in a cycle: the
\* error leaves VIO_chase_record_version and ends the statement.
ReadWaitDeadlock(t) ==
    /\ pc[t] = "rwait"
    /\ Rel!TransitiveClosure(WaitsFor, Tx)[t, t]
    /\ Fail(t)
    /\ UNCHANGED <<tip, commitNo, lastCN, snapshotNo, lockData, oldestSnap,
                   chain, hist, seen, basis>>

-----------------------------------------------------------------------------
(* VIO_sweep: one VIO_next_record per row (a "sweep" statement), and       *)
(* between records the sweeper's oldest snapshot moves up.                 *)

\* VIO_next_record in the sweep: DPM_next positions on a row and the chase
\* runs as for any fetch; a row the chase rejects sends the loop to the
\* next row, which is the next such step.
NextRecord(t, r) == StartStatement(t, r, "sweep")

\* dbb_oldest_snapshot: set by the latest TRA_start to the oldest snapshot
\* it computed.
DbbOldestSnapshot ==
    LET started == {u \in Tx : tip[u] # "none"}
    IN  oldestSnap[CHOOSE u \in started : \A v \in started : v <= u]

\* transaction->tra_oldest_active = dbb->dbb_oldest_snapshot after each
\* record of the sweep.
SweepAdvance(t) ==
    /\ "sweep" \in Kinds /\ t \in SweepTx
    /\ tip[t] = "active" /\ pc[t] = "idle"
    /\ oldestSnap[t] # DbbOldestSnapshot
    /\ oldestSnap' = [oldestSnap EXCEPT ![t] = DbbOldestSnapshot]
    /\ UNCHANGED <<tip, commitNo, lastCN, snapshotNo, lockData,
                   chain, hist, pc, op, seen, basis>>

-----------------------------------------------------------------------------
(* VIO_get_current: the most recent version of a row, for the unique-index *)
(* check of an insert or update (foreign_key false).  pc "cur" is the top  *)
(* of its loop, "cwait" its wait for the writer, "cref" the refetch after. *)

\* The call returns whether the row exists; seen records the version
\* returned, NoTx for "no record".
Return(t, exists) ==
    /\ seen' = [seen EXCEPT ![t][R(t)] = IF exists THEN HeadV(t).tx ELSE NoTx]
    /\ Fail(t)

GetCurrent(t, r) ==
    /\ "current" \in Kinds
    /\ tip[t] = "active" /\ pc[t] = "idle"
    /\ pc' = [pc EXCEPT ![t] = "cur"]
    /\ op' = [op EXCEPT ![t] = [IdleOp EXCEPT !.kind = "current", !.rec = r]]
    /\ UNCHANGED <<tip, commitNo, lastCN, snapshotNo, lockData, oldestSnap,
                   chain, hist, seen, basis>>

\* Mutant of CurrentTop: a dead primary version is reported as existing
\* without being backed out.
CurrentTopNoBackout(t) ==
    /\ pc[t] = "cur" /\ ~GCActive(R(t))
    /\ IF chain[R(t)] = << >> THEN Return(t, FALSE) /\ UNCHANGED chain
       ELSE LET h == HeadV(t) IN
            \/ /\ h.tx = t \/ SnapState(t, h.tx) = "committed"
               /\ Return(t, ~h.deleted) /\ UNCHANGED chain
            \/ /\ h.tx # t /\ SnapState(t, h.tx) = "dead"
               /\ Return(t, TRUE) /\ UNCHANGED chain
            \/ /\ h.tx # t /\ SnapState(t, h.tx) = "active"
               /\ pc' = [pc EXCEPT ![t] = "cwait"]
               /\ op' = [op EXCEPT ![t].waitFor = h.tx, ![t].readTx = h.tx]
               /\ UNCHANGED <<chain, seen>>
    /\ UNCHANGED <<tip, commitNo, lastCN, snapshotNo, lockData, oldestSnap, hist, basis>>

\* One pass of the loop: no record is "no record"; our own version, or one
\* committed (TPC_cache_state for read committed, TRA_snapshot_state
\* otherwise), is returned unless deleted; a dead one is backed out and the
\* loop repeats; for any other the call waits on the writer's lock,
\* remembering it as tid_fetch.
CurrentTop(t) ==
    /\ pc[t] = "cur" /\ ~GCActive(R(t))
    /\ IF chain[R(t)] = << >> THEN Return(t, FALSE) /\ UNCHANGED chain
       ELSE LET h == HeadV(t) IN
            \/ /\ h.tx = t \/ SnapState(t, h.tx) = "committed"
               /\ Return(t, ~h.deleted) /\ UNCHANGED chain
            \/ /\ h.tx # t /\ SnapState(t, h.tx) = "dead"
               /\ CallBackout(t, R(t), h.tx, "cur")
            \/ /\ h.tx # t /\ SnapState(t, h.tx) = "active"
               /\ pc' = [pc EXCEPT ![t] = "cwait"]
               /\ op' = [op EXCEPT ![t].waitFor = h.tx, ![t].readTx = h.tx]
               /\ UNCHANGED <<chain, seen>>
    /\ UNCHANGED <<tip, commitNo, lastCN, snapshotNo, lockData, oldestSnap, hist, basis>>

\* TRA_wait returns once the writer's lock is released: committed, refetch;
\* dead, back the version out and loop.
CurrentWait(t) ==
    LET w == op[t].waitFor IN
    /\ pc[t] = "cwait" /\ tip[w] # "active"
    /\ \/ tip[w] = "committed" /\ pc' = [pc EXCEPT ![t] = "cref"] /\ UNCHANGED <<chain, op>>
       \/ tip[w] = "dead" /\ CallBackout(t, R(t), w, "cur")
    /\ UNCHANGED <<tip, commitNo, lastCN, snapshotNo, lockData, oldestSnap,
                   hist, seen, basis>>

\* The lock manager fails the wait (a deadlock): TRA_wait reports the
\* writer active, and the row counts as existing (rec_tx_active).
CurrentDeadlock(t) ==
    /\ pc[t] = "cwait"
    /\ Rel!TransitiveClosure(WaitsFor, Tx)[t, t]
    /\ Return(t, TRUE)
    /\ UNCHANGED <<tip, commitNo, lastCN, snapshotNo, lockData, oldestSnap,
                   chain, hist, basis>>

\* DPM_get after the writer committed: the row is gone (inserted and
\* undone), changed since (loop again), deleted, or there.
CurrentRefetch(t) ==
    /\ pc[t] = "cref"
    /\ \/ chain[R(t)] = << >> /\ Return(t, FALSE)
       \/ /\ chain[R(t)] # << >> /\ HeadV(t).tx # op[t].readTx
          /\ pc' = [pc EXCEPT ![t] = "cur"] /\ UNCHANGED <<op, seen>>
       \/ /\ chain[R(t)] # << >> /\ HeadV(t).tx = op[t].readTx
          /\ Return(t, ~HeadV(t).deleted)
    /\ UNCHANGED <<tip, commitNo, lastCN, snapshotNo, lockData, oldestSnap,
                   chain, hist, basis>>

-----------------------------------------------------------------------------

\* Every transaction has ended: nothing more happens.
Done ==
    /\ \A t \in Tx : tip[t] \in {"committed", "dead"}
    /\ UNCHANGED vars

Next ==
    \/ \E t \in Tx : \/ Begin(t) \/ Commit(t) \/ RollbackDead(t) \/ RollbackUndo(t)
                     \/ \E r \in Rec : \/ Store(t, r)
                                       \/ \E k \in Kinds \ {"current", "sweep"} :
                                              StartStatement(t, r, k)
                                       \/ "sweep" \in Kinds /\ NextRecord(t, r)
                                       \/ GarbageCollect(t, r)
                                       \/ GetCurrent(t, r)
                     \/ ChaseRefetch(t) \/ ChaseDead(t) \/ ChaseActive(t)
                     \/ ChaseUs(t) \/ ChaseCommitted(t) \/ ChaseSweepGC(t)
                     \/ SweepAdvance(t)
                     \/ WriteInPlace(t) \/ WriteChain(t) \/ WritePrepare(t)
                     \/ ModifyWrite(t) \/ LockWrite(t)
                     \/ PrepGone(t) \/ PrepCommitted(t) \/ PrepActive(t) \/ PrepDead(t)
                     \/ Wait(t) \/ WaitDeadlock(t)
                     \/ CurrentTop(t) \/ CurrentWait(t) \/ CurrentDeadlock(t)
                     \/ CurrentRefetch(t) \/ StartBackout(t) \/ FinishBackout(t)
                     \/ IGCInstall(t) \/ ChaseReadWait(t) \/ ReadWaitDone(t)
                     \/ ReadWaitDeadlock(t)
    \/ Crash
    \/ Done

Spec == Init /\ [][Next]_vars

\* The engine steps of one statement: the attachment's thread runs them
\* without waiting for anything but the latches they take.
StatementStep(t) ==
    \/ ChaseRefetch(t) \/ ChaseDead(t) \/ ChaseActive(t) \/ ChaseUs(t)
    \/ ChaseCommitted(t) \/ ChaseSweepGC(t) \/ ChaseReadWait(t)
    \/ WriteInPlace(t) \/ WriteChain(t) \/ WritePrepare(t)
    \/ ModifyWrite(t) \/ LockWrite(t) \/ CurrentTop(t) \/ CurrentRefetch(t)
    \/ PrepGone(t) \/ PrepCommitted(t) \/ PrepActive(t) \/ PrepDead(t)
    \/ StartBackout(t) \/ FinishBackout(t) \/ IGCInstall(t)

FairSpec == Spec /\ \A t \in Tx : WF_vars(StatementStep(t))

\* The lock manager's deadlock scan runs while a lock request has waited
\* for the deadlock timeout, and fails one waiter of a cycle; commits and
\* rollbacks stay up to the clients.
DeadlockScan == \E t \in Tx : WaitDeadlock(t) \/ CurrentDeadlock(t) \/ ReadWaitDeadlock(t)

\* DeadlockBroken needs no more than this: a victim's statement returns in
\* the same step, and the statement steps' own fairness (FairSpec) is not
\* assumed.
LockFairSpec == Spec /\ WF_vars(DeadlockScan)

-----------------------------------------------------------------------------
(* Properties.                                                             *)

TypeOK ==
    /\ tip \in [Tx -> {"none", "active", "committed", "dead"}]
    /\ lastCN \in Nat
    /\ commitNo \in [Tx -> 0..lastCN] /\ snapshotNo \in [Tx -> 0..lastCN]
    /\ lockData \in [Tx -> Nat]
    /\ oldestSnap \in [Tx -> Nat]
    /\ \A r \in Rec : chain[r] \in Seq(Version) /\ hist[r] \in Seq(Version)
    /\ pc \in [Tx -> {"idle", "chase", "write", "prep", "wait", "bugcheck",
                      "cur", "cwait", "cref", "bkstart", "backout", "igc",
                      "rwait"}]
    /\ op \in [Tx -> OpRec]
    /\ \A t \in Tx : pc[t] = "idle" <=> op[t] = IdleOp
    /\ seen \in [Tx -> [Rec -> TxNr \cup {NoTx, Unread}]]
    /\ basis \in [Tx -> [Rec -> TxNr \cup {NoTx}]]

\* Backout, purge, expunge and intermediate GC never remove a version a
\* running transaction would read: in the chain on disk every running
\* transaction sees the same version as in the full history of the row.
GCSafe ==
    \A t \in ActiveTx, r \in Rec : RefVisible(t, chain[r]) = RefVisible(t, hist[r])

\* The walker returns to a snapshot transaction the version its snapshot
\* defines, and keeps doing so while others write, commit and clean up.
RepeatableRead ==
    \A t \in ActiveTx \ RC, r \in Rec :
        seen[t][r] # Unread => seen[t][r] = RefVisible(t, hist[r])

\* The newest version of the row below v that was not rolled back.
NextLive(s, i) ==
    LET j == SelectInSubSeq(s, i + 1, Len(s),
                            LAMBDA v : v.tx = SysTx \/ tip[v.tx] # "dead")
    IN  IF j = 0 THEN NoTx ELSE s[j].tx

\* prepare_update and DPM_chain chain a transaction's new version directly on
\* the version it read: no update is lost, the first committer wins.
NoLostUpdate ==
    \A t \in Tx, r \in Rec :
        LET i == Pos(hist[r], t) IN
        (i > 0 /\ tip[t] # "dead" /\ basis[t][r] # NoTx)
            => NextLive(hist[r], i) = basis[t][r]

\* The newest version in history h not rolled back under TIP tp (index).
NewestLive(h, tp) ==
    SelectInSeq(h, LAMBDA v : v.tx = SysTx \/ tp[v.tx] # "dead")

\* VIO_get_current, on which the unique-index check relies, reports a row
\* absent only when the newest version not rolled back is a delete or there
\* is none, and present only when that version is live, or when its writer
\* is still active and the wait for it failed (CORE-5110: a dead version
\* must be backed out, not reported).
GetCurrentExact ==
    [][\A t \in Tx :
          (op[t].kind = "current" /\ pc'[t] = "idle" /\ tip'[t] = "active")
          => LET r == op[t].rec
                 j == NewestLive(hist'[r], tip')
                 live == j > 0 /\ ~hist'[r][j].deleted
             IN  \/ (seen'[t][r] # NoTx) = live
                 \/ /\ seen'[t][r] # NoTx /\ j > 0 /\ hist'[r][j].tx # SysTx
                    /\ tip'[hist'[r][j].tx] = "active"]_vars

\* A statement's walk of the chain and its prepare_update loop end: the
\* statement returns, fails, or blocks on another transaction's lock;
\* backout, purge and refetch cannot make it loop forever.
StatementEnds ==
    \A t \in Tx : pc[t] \in {"chase", "write", "prep", "bkstart", "backout", "igc"} ~> pc[t] \in {"idle", "wait", "rwait", "bugcheck"}

\* Two transactions each waiting, directly or through others, on the other's
\* record lock (prepare_update's wait at vio.cpp:6779 or VIO_get_current's)
\* do not wait for ever: the lock manager's deadlock error ends the
\* statement of one of them, and neither re-enters its wait loop until it
\* is stuck again.
DeadlockBroken ==
    LET TC == Rel!TransitiveClosure(WaitsFor, Tx) IN
    \A t, u \in Tx :
        (t < u /\ TC[t, u] /\ TC[u, t]) ~> (pc[t] = "idle" \/ pc[u] = "idle")

\* A version being backed out stays the primary version, marked
\* rpb_gc_active, until its backer removes it: no other backout, purge,
\* expunge or update replaces it while the backer cleans up indexes and
\* blobs with the page released.  The fb_asserts after VIO_backout's
\* re-fetch (vio.cpp:1018-1023, 1067-1073) rely on it; only the GC lock and
\* the readers' checkGCActive provide it.
BackoutExclusive ==
    \A t \in Tx : pc[t] = "backout" =>
        /\ chain[R(t)] # << >>
        /\ Head(chain[R(t)]).tx = op[t].bkTx /\ Head(chain[R(t)]).gc

\* prepare_update's BUGCHECK(186) "record disappeared" is unreachable: a row
\* a snapshot transaction has fetched for update is never removed under it.
NoBugcheck == \A t \in Tx : pc[t] # "bugcheck"

=============================================================================
