-------------------------- MODULE GarbageCollector --------------------------
(***************************************************************************)
(* The background garbage collector of src/jrd/vio.cpp and its wake-up     *)
(* protocol.                                                               *)
(*                                                                         *)
(* Mutators call notify_garbage_collector: the data page goes into the     *)
(* relation's candidate set with the oldest transaction that made it a    *)
(* candidate (GarbageCollector::addPage), DBB_gc_pending is raised, and    *)
(* dbb_gc_sem is released if the collector is not DBB_gc_active and the    *)
(* page can be collected already.  Database::garbage_collector loops: it   *)
(* raises DBB_gc_active, takes the collectible pages of a relation         *)
(* (GarbageCollector::getPages) when DBB_gc_pending is set, walks the      *)
(* records of each page as a sweeper, and when it found nothing it clears  *)
(* DBB_gc_pending, then DBB_gc_active, and sleeps on dbb_gc_sem for at     *)
(* most 10 seconds.  VIO_init starts the thread, VIO_fini clears           *)
(* DBB_garbage_collector, releases the semaphore and waits for the exit.   *)
(*                                                                         *)
(* One relation; its data pages are Page.  dbb_flags bits are set and      *)
(* cleared by atomic read-modify-write operations, one step each.  The     *)
(* GarbageCollector class (jrd/GarbageCollector.cpp) is not under src/:    *)
(* addPage and getPages are modelled from the spec.  Online validation     *)
(* taking the relation's GC lock exclusively (REL_gc_disabled) is the      *)
(* Validate actor.                                                         *)
(***************************************************************************)
EXTENDS Integers, FiniteSets

CONSTANTS
    Page,       \* data page sequence numbers of the relation
    Notifier,   \* mutator threads that call notify_garbage_collector
    MaxTran,    \* transaction numbers are 1..MaxTran
    MaxNotify,  \* notifications in a run
    MaxSem,     \* dbb_gc_sem counts beyond MaxSem are not told apart
    Validations, \* whether online validation may disable GC: a subset of BOOLEAN
    Exceptions  \* TRUE: the collector's loop may end on an exception

Tran == 1..MaxTran
NoTran == 0                          \* page is not a candidate
MAX_TRA_NUMBER == MaxTran + 1        \* "use the record's transaction"

ASSUME MaxTran \in Nat \ {0} /\ MaxNotify \in Nat /\ MaxSem \in Nat \ {0}
ASSUME Validations \subseteq BOOLEAN /\ Validations # {} /\ Exceptions \in BOOLEAN

VARIABLES
    running,    \* DBB_garbage_collector: the thread is asked to run
    starting,   \* DBB_gc_starting
    active,     \* DBB_gc_active
    pending,    \* DBB_gc_pending
    sem,        \* dbb_gc_sem count
    gc,         \* dbb_garbage_collector != NULL
    cand,       \* candidate set: cand[p] = oldest notifying transaction
    oldest,     \* dbb_oldest_snapshot
    gcDisabled, \* REL_gc_disabled: validation holds the GC lock
    cpc,        \* where the collector thread is
    bitmap,     \* gc_bitmap: pages taken by getPages, not yet walked
    npc,        \* where each notifier is
    ntid,       \* the tranid a notifier compares with its oldest active
    notified,   \* notifications so far
    owed,       \* pages notified and not walked since
    finiPc,     \* VIO_fini: "none", "wait" (waitForCompletion), "done"
    validation  \* this behaviour has an online validation (fixed)

vars == <<running, starting, active, pending, sem, gc, cand, oldest, gcDisabled,
          cpc, bitmap, npc, ntid, notified, owed, finiPc, validation>>

Init ==
    /\ running = FALSE /\ starting = FALSE /\ active = FALSE /\ pending = FALSE
    /\ sem = 0 /\ gc = FALSE
    /\ cand = [p \in Page |-> NoTran]
    /\ oldest = 1
    /\ gcDisabled = FALSE
    /\ cpc = "none"
    /\ bitmap = {}
    /\ npc = [n \in Notifier |-> "idle"]
    /\ ntid = [n \in Notifier |-> NoTran]
    /\ notified = 0
    /\ owed = {}
    /\ finiPc = "none"
    /\ validation \in Validations

Release(s) == IF s < MaxSem THEN s + 1 ELSE s    \* Semaphore::release

-----------------------------------------------------------------------------
(* Start and shutdown.                                                     *)

\* VIO_init: if no collector runs, DBB_gc_starting is taken with
\* exchangeBitOr and the thread started; the caller then waits on
\* dbb_gc_init, which the thread releases when it is initialised.
VIOInit ==
    /\ cpc = "none" /\ ~running /\ ~starting /\ finiPc = "none"
    /\ starting' = TRUE
    /\ cpc' = "init"
    /\ UNCHANGED <<running, active, pending, sem, gc, cand, oldest, gcDisabled,
                   bitmap, npc, ntid, notified, owed, finiPc>>

\* garbage_collector before its loop: dbb_garbage_collector is published,
\* DBB_garbage_collector raised, DBB_gc_starting cleared.
CollectorInit ==
    /\ cpc = "init"
    /\ gc' = TRUE /\ running' = TRUE /\ starting' = FALSE
    /\ cpc' = "top"
    /\ UNCHANGED <<active, pending, sem, cand, oldest, gcDisabled, bitmap,
                   npc, ntid, notified, owed, finiPc>>

\* VIO_fini: clear DBB_garbage_collector, wake the thread, wait for it.
\* The database is shut down when no attachment is left to notify.
VIOFini ==
    /\ finiPc = "none" /\ running
    /\ \A n \in Notifier : npc[n] = "idle"
    /\ running' = FALSE
    /\ sem' = Release(sem)
    /\ finiPc' = "wait"
    /\ UNCHANGED <<starting, active, pending, gc, cand, oldest, gcDisabled,
                   cpc, bitmap, npc, ntid, notified, owed>>

FiniReturns ==
    /\ finiPc = "wait" /\ cpc = "gone"
    /\ finiPc' = "done"
    /\ UNCHANGED <<running, starting, active, pending, sem, gc, cand, oldest,
                   gcDisabled, cpc, bitmap, npc, ntid, notified, owed, validation>>

-----------------------------------------------------------------------------
(* notify_garbage_collector, four steps: the read of dbb_garbage_collector,*)
(* addPage on the object read, the pending bit, and the test of            *)
(* DBB_gc_active that decides on a release.                                *)

\* gc = dbb->dbb_garbage_collector; if (!gc) return;
NotifyRead(n) ==
    /\ npc[n] = "idle" /\ gc /\ notified < MaxNotify /\ finiPc = "none"
    /\ npc' = [npc EXCEPT ![n] = "add"]
    /\ notified' = notified + 1
    /\ UNCHANGED <<running, starting, active, pending, sem, gc, cand, oldest, gcDisabled,
                   cpc, bitmap, ntid, owed, finiPc>>

\* Mutant of NotifyAddPage: the MAX_TRA_NUMBER default is not replaced.
NotifyAddPageNoDefault(n, p, tid, writer) ==
    /\ npc[n] = "add"
    /\ LET minTranId == IF cand[p] = NoTran \/ tid < cand[p] THEN tid ELSE cand[p]
       IN  /\ cand' = [cand EXCEPT ![p] = minTranId]
           /\ ntid' = [ntid EXCEPT ![n] = minTranId]
    /\ owed' = owed \cup {p}
    /\ npc' = [npc EXCEPT ![n] = "pending"]
    /\ UNCHANGED <<running, starting, active, pending, sem, gc, oldest, gcDisabled,
                   cpc, bitmap, notified, finiPc>>

\* The walker calls with MAX_TRA_NUMBER, meaning the writer of the record;
\* erase, modify and writelock with their own transaction.  addPage keeps
\* the oldest transaction per page and returns it; the caller compares the
\* smaller of its tranid and that one.
NotifyAddPage(n, p, tid, writer) ==
    /\ npc[n] = "add"
    /\ LET tranid    == IF tid = MAX_TRA_NUMBER THEN writer ELSE tid
           minTranId == IF cand[p] = NoTran \/ tranid < cand[p] THEN tranid ELSE cand[p]
       IN  /\ cand' = [cand EXCEPT ![p] = minTranId]
           /\ ntid' = [ntid EXCEPT ![n] = minTranId]
    /\ owed' = owed \cup {p}
    /\ npc' = [npc EXCEPT ![n] = "pending"]
    /\ UNCHANGED <<running, starting, active, pending, sem, gc, oldest, gcDisabled,
                   cpc, bitmap, notified, finiPc>>

NotifyPending(n) ==
    /\ npc[n] = "pending"
    /\ pending' = TRUE
    /\ npc' = [npc EXCEPT ![n] = "check"]
    /\ UNCHANGED <<running, starting, active, sem, gc, cand, oldest, gcDisabled,
                   cpc, bitmap, ntid, notified, owed, finiPc>>

\* The notifier's tra_oldest_active is at most dbb_oldest_snapshot.
NotifyWake(n) ==
    /\ npc[n] = "check"
    /\ \E oa \in 1..oldest :
          sem' = IF ~active /\ ntid[n] < oa THEN Release(sem) ELSE sem
    /\ npc' = [npc EXCEPT ![n] = "idle"]
    /\ UNCHANGED <<running, starting, active, pending, gc, cand, oldest, gcDisabled,
                   cpc, bitmap, ntid, notified, owed, finiPc>>

-----------------------------------------------------------------------------
(* The environment: the oldest snapshot moves forward, online validation   *)
(* takes and gives back the relation's GC lock.                            *)

AdvanceOldest ==
    /\ oldest <= MaxTran
    /\ oldest' = oldest + 1
    /\ UNCHANGED <<running, starting, active, pending, sem, gc, cand, gcDisabled,
                   cpc, bitmap, npc, ntid, notified, owed, finiPc>>

Validate ==
    /\ validation
    /\ gcDisabled' = ~gcDisabled
    /\ UNCHANGED <<running, starting, active, pending, sem, gc, cand, oldest,
                   cpc, bitmap, npc, ntid, notified, owed, finiPc>>

-----------------------------------------------------------------------------
(* Database::garbage_collector, one action per step of its loop.           *)

\* Mutant of LoopTop: the loop condition is not looked at.
LoopTopNoExit ==
    /\ cpc = "top"
    /\ active' = TRUE /\ cpc' = "scan"
    /\ UNCHANGED <<running, starting, pending, sem, gc, cand, oldest, gcDisabled,
                   bitmap, npc, ntid, notified, owed, finiPc>>

\* Top of the loop: run while DBB_garbage_collector is set, raising
\* DBB_gc_active; otherwise leave the loop.
LoopTop ==
    /\ cpc = "top"
    /\ IF running THEN active' = TRUE /\ cpc' = "scan"
                  ELSE cpc' = "exit" /\ UNCHANGED active
    /\ UNCHANGED <<running, starting, pending, sem, gc, cand, oldest, gcDisabled,
                   bitmap, npc, ntid, notified, owed, finiPc>>

\* getPages: the candidate pages older than the oldest snapshot, removed
\* from the candidate set.
Collectible == {p \in Page : cand[p] # NoTran /\ cand[p] < oldest}

\* With DBB_gc_pending set and collectible pages: take them.  If the GC lock
\* of the relation cannot be had (validation holds it), "continue" goes back
\* to the top of the loop and the taken bitmap is dropped.  Otherwise
\* nothing was found.
Scan ==
    /\ cpc = "scan"
    /\ \/ /\ pending /\ Collectible # {}
          /\ cand' = [p \in Page |-> IF p \in Collectible THEN NoTran ELSE cand[p]]
          /\ IF gcDisabled THEN bitmap' = {} /\ cpc' = "top"
                           ELSE bitmap' = Collectible /\ cpc' = "walk"
       \/ /\ ~(pending /\ Collectible # {})
          /\ cpc' = "idle"
          /\ UNCHANGED <<cand, bitmap>>
    /\ UNCHANGED <<running, starting, active, pending, sem, gc, oldest, gcDisabled,
                   npc, ntid, notified, owed, finiPc>>

\* The first page of the bitmap: leave on shutdown (gc_exit), else clear
\* it and walk its records with VIO_next_record.  REL_gc_disabled stops the
\* walk (rel_exit) and the rest of the bitmap is deleted.  An empty bitmap
\* is deleted and, something having been found, the loop goes round again.
WalkBreaks ==
    /\ bitmap' = {}
    /\ cpc' = "top"
    /\ UNCHANGED owed

\* Mutant of Walk: the bitmap is deleted after its first page.
WalkDropsRest ==
    /\ cpc = "walk"
    /\ \/ bitmap = {} /\ cpc' = "top" /\ UNCHANGED <<bitmap, owed>>
       \/ /\ bitmap # {}
          /\ LET p == CHOOSE q \in bitmap : \A u \in bitmap : q <= u IN
             \/ ~running /\ cpc' = "exit" /\ UNCHANGED <<bitmap, owed>>
             \/ running /\ gcDisabled /\ WalkBreaks
             \/ /\ running /\ ~gcDisabled
                /\ bitmap' = {}
                /\ owed' = owed \ {p}
                /\ UNCHANGED cpc
    /\ UNCHANGED <<running, starting, active, pending, sem, gc, cand, oldest,
                   gcDisabled, npc, ntid, notified, finiPc>>

Walk ==
    /\ cpc = "walk"
    /\ \/ bitmap = {} /\ cpc' = "top" /\ UNCHANGED <<bitmap, owed>>
       \/ /\ bitmap # {}
          /\ LET p == CHOOSE q \in bitmap : \A u \in bitmap : q <= u IN
             \/ ~running /\ cpc' = "exit" /\ UNCHANGED <<bitmap, owed>>
             \/ running /\ gcDisabled /\ WalkBreaks
             \/ /\ running /\ ~gcDisabled
                /\ bitmap' = bitmap \ {p}
                /\ owed' = owed \ {p}
                /\ UNCHANGED cpc
    /\ UNCHANGED <<running, starting, active, pending, sem, gc, cand, oldest,
                   gcDisabled, npc, ntid, notified, finiPc>>

\* Nothing found: clear DBB_gc_pending, (flush,) clear DBB_gc_active, then
\* dbb_gc_sem.tryEnter(10).
ClearPending ==
    /\ cpc = "idle"
    /\ pending' = FALSE
    /\ cpc' = "idle2"
    /\ UNCHANGED <<running, starting, active, sem, gc, cand, oldest, gcDisabled,
                   bitmap, npc, ntid, notified, owed, finiPc>>

ClearActive ==
    /\ cpc = "idle2"
    /\ active' = FALSE
    /\ cpc' = "sleep"
    /\ UNCHANGED <<running, starting, pending, sem, gc, cand, oldest, gcDisabled,
                   bitmap, npc, ntid, notified, owed, finiPc>>

\* tryEnter returns when the semaphore is released, or after 10 seconds.
Wake ==
    /\ cpc = "sleep" /\ sem > 0
    /\ sem' = sem - 1
    /\ cpc' = "top"
    /\ UNCHANGED <<running, starting, active, pending, gc, cand, oldest, gcDisabled,
                   bitmap, npc, ntid, notified, owed, finiPc>>

\* Mutant of Timeout: an untimed dbb_gc_sem.enter().
TimeoutNever == FALSE

Timeout ==
    /\ cpc = "sleep"
    /\ cpc' = "top"
    /\ UNCHANGED <<running, starting, active, pending, sem, gc, cand, oldest,
                   gcDisabled, bitmap, npc, ntid, notified, owed, finiPc>>

\* An exception in the loop ("continue execution to clean up").
Exception ==
    /\ Exceptions
    /\ cpc \in {"scan", "walk"}
    /\ cpc' = "exit"
    /\ UNCHANGED <<running, starting, active, pending, sem, gc, cand, oldest,
                   gcDisabled, bitmap, npc, ntid, notified, owed, finiPc>>

\* After the loop: dbb_garbage_collector = NULL, the GarbageCollector
\* object is deleted, DBB_garbage_collector, DBB_gc_active and
\* DBB_gc_pending are cleared.
Exit ==
    /\ cpc = "exit"
    /\ gc' = FALSE
    /\ running' = FALSE /\ active' = FALSE /\ pending' = FALSE
    /\ bitmap' = {}
    /\ cpc' = "gone"
    /\ UNCHANGED <<starting, sem, cand, oldest, gcDisabled, npc, ntid, notified,
                   owed, finiPc>>

-----------------------------------------------------------------------------

\* The thread has ended and nobody is inside notify: nothing more happens.
Stopped ==
    /\ cpc = "gone" /\ finiPc # "wait"
    /\ \A n \in Notifier : npc[n] = "idle"
    /\ UNCHANGED vars

CollectorStep ==
    /\ UNCHANGED validation
    /\ \/ CollectorInit \/ LoopTop \/ Scan \/ Walk \/ ClearPending \/ ClearActive
       \/ Wake \/ Timeout \/ Exit

NotifierStep(n) ==
    /\ UNCHANGED validation
    /\ \/ \E p \in Page, tid \in Tran \cup {MAX_TRA_NUMBER}, writer \in Tran :
             NotifyAddPage(n, p, tid, writer)
       \/ NotifyPending(n) \/ NotifyWake(n)

Next ==
    /\ UNCHANGED validation
    /\ \/ VIOInit \/ VIOFini \/ FiniReturns
       \/ \E n \in Notifier : NotifyRead(n) \/ NotifierStep(n)
       \/ AdvanceOldest \/ Validate
       \/ CollectorStep \/ Exception
       \/ Stopped

Spec == Init /\ [][Next]_vars

\* The collector thread, a notifier inside notify_garbage_collector and
\* VIO_fini waiting for the thread are never descheduled for good; the
\* timed wait always returns.  Nothing forces new work, a new snapshot or
\* validation to happen.
FairSpec ==
    /\ Spec
    /\ WF_vars(CollectorStep)
    /\ \A n \in Notifier : WF_vars(NotifierStep(n))
    /\ WF_vars(FiniReturns)

-----------------------------------------------------------------------------
TypeOK ==
    /\ running \in BOOLEAN /\ starting \in BOOLEAN
    /\ active \in BOOLEAN /\ pending \in BOOLEAN
    /\ sem \in 0..MaxSem /\ gc \in BOOLEAN
    /\ cand \in [Page -> Tran \cup {NoTran}]
    /\ oldest \in 1..(MaxTran + 1)
    /\ gcDisabled \in BOOLEAN /\ validation \in BOOLEAN
    /\ cpc \in {"none", "init", "top", "scan", "walk", "idle", "idle2", "sleep",
                "exit", "gone"}
    /\ bitmap \subseteq Page
    /\ npc \in [Notifier -> {"idle", "add", "pending", "check"}]
    /\ ntid \in [Notifier -> Tran \cup {NoTran}]
    /\ notified \in 0..MaxNotify
    /\ owed \subseteq Page
    /\ finiPc \in {"none", "wait", "done"}

\* While the collector runs, a page notified and not walked since is still
\* a candidate or in the bitmap being walked: getPages takes pages out of
\* the candidate set, so whatever the loop drops without walking is lost.
\* Stated for behaviours without online validation: a walk broken by
\* REL_gc_disabled drops the rest of the bitmap (a hazard of PROJECT.json).
CandidatesKept ==
    running /\ ~validation => owed \subseteq {p \in Page : cand[p] # NoTran} \cup bitmap

\* A collectible candidate page found pending while the collector sleeps
\* is walked: the 10 second timed wait brings the loop back to getPages
\* even when no notifier released the semaphore (without online
\* validation, which may take the page out of the candidate set unwalked).
PendingPageCollected ==
    \A p \in Page :
        (cpc = "sleep" /\ pending /\ p \in owed /\ p \in Collectible /\ ~validation)
            ~> (p \notin owed \/ ~running)

\* Every collectible candidate page is walked while the collector runs:
\* what the spec describes as "the worker wakes, iterates relations, and
\* for each candidate page ... walks every record".
CandidateCollected ==
    \A p \in Page :
        (running /\ p \in owed /\ p \in Collectible) ~> (p \notin owed \/ ~running)

\* A notifier never calls addPage on a GarbageCollector object that the
\* collector thread has already deleted on its way out: the pointer it
\* read from dbb_garbage_collector stays valid until it is used.
NoUseAfterFree == \A n \in Notifier : npc[n] = "add" => cpc # "gone"

\* VIO_fini returns: the thread sees DBB_garbage_collector cleared and ends.
FiniCompletes == finiPc = "wait" ~> finiPc = "done"

=============================================================================
