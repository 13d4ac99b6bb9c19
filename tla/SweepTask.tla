----------------------------- MODULE SweepTask -----------------------------
(***************************************************************************)
(* The parallel sweep coordinator of src/jrd/vio.cpp (class SweepTask).    *)
(*                                                                         *)
(* Worker threads of the task framework (common/Task.cpp, not under src/)  *)
(* repeatedly ask getWorkItem for a chunk of work and run handler on it,   *)
(* until getWorkItem or handler returns false.  getWorkItem runs under     *)
(* m_mutex and hands out one pointer page of a relation at a time; a       *)
(* worker that finds its relation exhausted joins another one still being  *)
(* swept, or starts the next relation in a free RelInfo slot.  handler     *)
(* reads the pointer page count outside the mutex, walks the records of    *)
(* its pointer page as a sweeper, and stops the task on an error.          *)
(*                                                                         *)
(* Sweeping one pointer page's records (VIO_next_record + the walker) is   *)
(* one step here; Vio models what a walk does to each record.              *)
(***************************************************************************)
EXTENDS Integers, FiniteSets

CONSTANTS
    Worker,     \* worker threads = SweepTask items (one item per worker)
    Slot,       \* indices of m_relInfo: as many as there are items
    RelPages,   \* RelPages[r]: pointer pages of relation r (0: none or gone)
    MaxErrors   \* how many handler failures may happen in a run

Rel == DOMAIN RelPages              \* relation ids 0 .. m_lastRelID - 1
LastRelID == Cardinality(Rel)
Cap(n) == IF n > 2 THEN 2 ELSE n    \* sweep counts beyond 2 are not told apart
NoSlot == 0

ASSUME Rel = 0..(LastRelID - 1) /\ Cardinality(Slot) = Cardinality(Worker)
ASSUME NoSlot \notin Slot /\ MaxErrors \in Nat

VARIABLES
    nextRelID,  \* m_nextRelID
    stop,       \* m_stop
    failed,     \* handler errors so far; m_status holds the first one
    relInfo,    \* m_relInfo[s]: [rel_id, countPP, nextPP, workers]
    item,       \* each worker's Item: m_inuse, m_relInfo, m_firstPP/m_lastPP
    wpc,        \* where each worker thread is
    swept       \* swept[r][p]: times pointer page p of r was walked

vars == <<nextRelID, stop, failed, relInfo, item, wpc, swept>>

RelInfoRec == [rel_id : Rel, countPP : Nat, nextPP : Nat, workers : Nat]
ItemRec == [inuse : BOOLEAN, slot : Slot \cup {NoSlot}, firstPP : Nat, lastPP : Nat]

Init ==
    /\ nextRelID = 0
    /\ stop = FALSE
    /\ failed = 0
    /\ relInfo = [s \in Slot |-> [rel_id |-> 0, countPP |-> 0, nextPP |-> 0, workers |-> 0]]
    /\ item = [w \in Worker |-> [inuse |-> FALSE, slot |-> NoSlot, firstPP |-> 0, lastPP |-> 0]]
    /\ wpc = [w \in Worker |-> "get"]
    /\ swept = [r \in Rel |-> [p \in 0..(RelPages[r] - 1) |-> 0]]

-----------------------------------------------------------------------------
(* getWorkItem, one atomic step under m_mutex.  ri is the RelInfo array    *)
(* being updated and it the caller's item; each operator returns the pair  *)
(* of both after the step.                                                 *)

\* updateRelInfo: the next pointer page of the item's relation, or (when
\* the page count is unknown yet or all pages are handed out) leave it.
HasMoreOffByOne(ri, s) == ri[s].countPP # 0 /\ ri[s].nextPP < ri[s].countPP - 1

HasMore(ri, s) == ri[s].countPP # 0 /\ ri[s].nextPP < ri[s].countPP

UpdateRelInfoKeepsWorkers(ri, it) ==
    LET s == it.slot IN
    IF ~HasMore(ri, s) THEN <<ri, it>>
    ELSE <<[ri EXCEPT ![s].nextPP = ri[s].nextPP + 1],
           [it EXCEPT !.firstPP = ri[s].nextPP, !.lastPP = ri[s].nextPP]>>

UpdateRelInfoNoAdvance(ri, it) ==
    LET s == it.slot IN
    IF ~HasMore(ri, s) THEN <<[ri EXCEPT ![s].workers = @ - 1], it>>
    ELSE <<ri, [it EXCEPT !.firstPP = ri[s].nextPP, !.lastPP = ri[s].nextPP]>>

UpdateRelInfo(ri, it) ==
    LET s == it.slot IN
    IF ~HasMore(ri, s)
    THEN <<[ri EXCEPT ![s].workers = @ - 1], it>>
    ELSE LET first == ri[s].nextPP
             last  == IF first >= ri[s].countPP THEN ri[s].countPP - 1 ELSE first
         IN  <<[ri EXCEPT ![s].nextPP = last + 1], [it EXCEPT !.firstPP = first, !.lastPP = last]>>

\* Slots are scanned in m_relInfo order.
FirstSlot(S) == CHOOSE s \in S : \A u \in S : s <= u

\* The join loop: every slot with workers is tried in order; a try on a
\* slot without more pages increments and decrements its workers again.
JoinCandidatesAnyWorkers(ri) == {s \in Slot : ri[s].workers > 0}

JoinCandidates(ri) == {s \in Slot : ri[s].workers > 0 /\ HasMore(ri, s)}

\* getWorkItem, caller with an item whose relation has more pages:
\* updateRelInfo hands it the next pointer page and getWorkItem returns true.
GetNextChunk(w) ==
    /\ wpc[w] = "get"
    /\ item[w].inuse
    /\ HasMore(relInfo, item[w].slot)
    /\ LET res == UpdateRelInfo(relInfo, item[w])
       IN  relInfo' = res[1] /\ item' = [item EXCEPT ![w] = res[2]]
    /\ wpc' = [wpc EXCEPT ![w] = "init"]
    /\ UNCHANGED <<nextRelID, stop, failed, swept>>

\* The rest of getWorkItem: a first call (item NULL) takes the worker's
\* free item; a later call has left its relation in updateRelInfo
\* (workers--).  Then, when every relation has been started, the item
\* joins the first relation still being worked on that has pages left, or
\* is released; otherwise m_nextRelID is taken and incremented and the
\* relation is started in the first RelInfo slot without workers, or,
\* with no such slot, the item is released and the relation is not swept.
NewRelInfoFromZero(r) == [rel_id |-> r, countPP |-> 0, nextPP |-> 0, workers |-> 1]

NewRelInfoNoWorker(r) == [rel_id |-> r, countPP |-> 0, nextPP |-> 1, workers |-> 0]

NewRelInfo(r) == [rel_id |-> r, countPP |-> 0, nextPP |-> 1, workers |-> 1]

GetOtherWork(w) ==
    /\ wpc[w] = "get"
    /\ ~(item[w].inuse /\ HasMore(relInfo, item[w].slot))
    /\ LET left == IF item[w].inuse THEN UpdateRelInfo(relInfo, item[w])[1] ELSE relInfo
           it0  == [item[w] EXCEPT !.inuse = TRUE]
           free == {s \in Slot : left[s].workers = 0}
           Release == /\ relInfo' = left
                      /\ item' = [item EXCEPT ![w].inuse = FALSE]
                      /\ wpc' = [wpc EXCEPT ![w] = "done"]
       IN
       \/ /\ nextRelID >= LastRelID
          /\ JoinCandidates(left) # {}
          /\ LET s   == FirstSlot(JoinCandidates(left))
                 res == UpdateRelInfo([left EXCEPT ![s].workers = @ + 1],
                                      [it0 EXCEPT !.slot = s])
             IN  relInfo' = res[1] /\ item' = [item EXCEPT ![w] = res[2]]
          /\ wpc' = [wpc EXCEPT ![w] = "init"]
          /\ UNCHANGED nextRelID
       \/ /\ nextRelID >= LastRelID
          /\ JoinCandidates(left) = {}
          /\ Release
          /\ UNCHANGED nextRelID
       \/ /\ nextRelID < LastRelID
          /\ nextRelID' = nextRelID + 1
          /\ free # {}
          /\ LET s == FirstSlot(free) IN
             /\ relInfo' = [left EXCEPT ![s] = NewRelInfo(nextRelID)]
             /\ item' = [item EXCEPT ![w] = [it0 EXCEPT !.slot = s, !.firstPP = 0, !.lastPP = 0]]
          /\ wpc' = [wpc EXCEPT ![w] = "init"]
       \/ /\ nextRelID < LastRelID
          /\ nextRelID' = nextRelID + 1
          /\ free = {}
          /\ Release
    /\ UNCHANGED <<stop, failed, swept>>

-----------------------------------------------------------------------------
(* handler, outside the mutex.                                             *)

\* setError(status, true): the first error is kept, m_stop is raised; the
\* handler then returns false and the worker thread leaves the task.
SetError(w) ==
    /\ failed < MaxErrors
    /\ failed' = failed + 1
    /\ stop' = TRUE
    /\ wpc' = [wpc EXCEPT ![w] = "done"]

\* Item::init or the GC lock of the relation fails (isc_bad_db_handle,
\* "Acquire garbage collection lock failed").
HandlerFail(w) ==
    /\ wpc[w] \in {"init", "walk"}
    /\ SetError(w)
    /\ UNCHANGED <<nextRelID, relInfo, item, swept>>

\* A relation without pages (dropped, temporary or empty) is skipped and
\* countPP stays 0; otherwise the first worker of the relation stores its
\* pointer page count, outside the mutex.  handler returns !m_stop.
Return(w) == wpc' = [wpc EXCEPT ![w] = IF stop THEN "done" ELSE "get"]

HandlerStart(w) ==
    /\ wpc[w] = "init"
    /\ LET s == item[w].slot
           r == relInfo[s].rel_id
       IN  \/ /\ RelPages[r] = 0
              /\ Return(w)
              /\ UNCHANGED relInfo
           \/ /\ RelPages[r] > 0
              /\ relInfo' = IF relInfo[s].countPP = 0
                            THEN [relInfo EXCEPT ![s].countPP = RelPages[r]]
                            ELSE relInfo
              /\ wpc' = [wpc EXCEPT ![w] = "walk"]
    /\ UNCHANGED <<nextRelID, stop, failed, item, swept>>

\* VIO_next_record over the records of pointer pages firstPP..lastPP as a
\* sweeper; pages past the end of the relation have no records.
SweepRange(w) ==
    LET r   == relInfo[item[w].slot].rel_id
        old == swept[r]
    IN  [swept EXCEPT ![r] = [p \in DOMAIN old |->
            IF p \in item[w].firstPP..item[w].lastPP THEN Cap(old[p] + 1) ELSE old[p]]]

HandlerWalk(w) ==
    /\ wpc[w] = "walk"
    /\ swept' = SweepRange(w)
    /\ Return(w)
    /\ UNCHANGED <<nextRelID, stop, failed, relInfo, item>>

Next ==
    \/ \E w \in Worker :
        \/ GetNextChunk(w) \/ GetOtherWork(w)
        \/ HandlerStart(w) \/ HandlerWalk(w) \/ HandlerFail(w)
    \/ (\A w \in Worker : wpc[w] = "done") /\ UNCHANGED vars

Spec == Init /\ [][Next]_vars

\* Worker threads run until they leave the task; none is starved forever.
WorkerStep(w) ==
    GetNextChunk(w) \/ GetOtherWork(w) \/ HandlerStart(w) \/ HandlerWalk(w)

FairSpec == Spec /\ \A w \in Worker : WF_vars(WorkerStep(w))

-----------------------------------------------------------------------------
TypeOK ==
    /\ nextRelID \in 0..LastRelID
    /\ stop \in BOOLEAN /\ failed \in 0..MaxErrors
    /\ relInfo \in [Slot -> RelInfoRec]
    /\ item \in [Worker -> ItemRec]
    /\ wpc \in [Worker -> {"get", "init", "walk", "done"}]
    /\ \A r \in Rel : swept[r] \in [0..(RelPages[r] - 1) -> 0..2]

\* RelInfo.workers counts exactly the items that hold the slot: getWorkItem
\* increments and decrements it in step with handing out and taking back
\* items, including the join loop's tries on exhausted relations.  This is
\* what guarantees that a worker starting the next relation finds a free
\* slot, so that no relation is skipped at vio.cpp:551-567.
WorkersCounted ==
    \A s \in Slot :
        relInfo[s].workers = Cardinality({w \in Worker : item[w].inuse /\ item[w].slot = s})

\* No pointer page of any relation is swept by two workers: updateRelInfo
\* hands out disjoint ranges even as workers join a relation concurrently.
NoDoubleSweep ==
    \A r \in Rel : \A p \in DOMAIN swept[r] : swept[r][p] <= 1

\* When every worker has left the task without an error, every pointer page
\* of every relation has been swept: none skipped by a slot shortage,
\* by a stale countPP, or by a joiner reading countPP before it was set.
SweepComplete ==
    (\A w \in Worker : wpc[w] = "done") /\ failed = 0 =>
        \A r \in Rel : \A p \in DOMAIN swept[r] : swept[r][p] = 1

\* Every worker thread eventually leaves the task, with or without an error.
Termination == <>(\A w \in Worker : wpc[w] = "done")

-----------------------------------------------------------------------------
(* Refinement: the coordinator implements SweepPages.  A page is the pair  *)
(* of a relation and a pointer page number; its walks are swept[r][p] and  *)
(* the abstract stop is m_stop.                                            *)

Pages == UNION {{<<r, p>> : p \in 0..(RelPages[r] - 1)} : r \in Rel}

Abs == INSTANCE SweepPages WITH
           Page    <- Pages,
           walks   <- [pg \in Pages |-> swept[pg[1]][pg[2]]],
           stopped <- stop

\* The threads of SweepTask together behave as one sweep that walks each
\* pointer page at most once (getWorkItem's ranges, the join loop and a
\* slot reused for the next relation never hand a page out twice), and,
\* until setError stops the task, eventually walks every page.
SweepRefinesPages == Abs!Spec

=============================================================================
