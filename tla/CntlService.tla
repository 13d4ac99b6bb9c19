----------------------------- MODULE CntlService -----------------------------
(***************************************************************************)
(* The Windows service wrapper of the server,                              *)
(* src/remote/server/os/win32/cntl.cpp.                                    *)
(*                                                                         *)
(* Three threads share the static stop_event_handle, hMutex and the        *)
(* service status reported to the service control manager (SCM):          *)
(*   - the service main thread (CNTL_main_thread): report START_PENDING,   *)
(*     create the stop event, start the server thread, report RUNNING,     *)
(*     wait for the event, close it, report STOP_PENDING, fb_shutdown,     *)
(*     report STOPPED;                                                     *)
(*   - the SCM dispatcher running control_thread, one control at a time,   *)
(*     for the controls the SCM delivers while the service is RUNNING;     *)
(*   - the server thread (main_handler), which may call                    *)
(*     CNTL_shutdown_service on a fatal error.                             *)
(* report_status calls CNTL_shutdown_service when SetServiceStatus fails. *)
(* Handles are abstracted to their state: stop_event_handle is "null",    *)
(* "open", "set" (signalled) or "closed" (CloseHandle was called; the      *)
(* static still holds the value).                                         *)
(***************************************************************************)
EXTENDS Naturals

CONSTANTS
    MaxControls,    \* controls the SCM delivers in a behaviour
    MaxFail,        \* SetServiceStatus / API failures in a behaviour
    ServerFatal     \* whether the server thread may call CNTL_shutdown_service

ASSUME MaxControls \in Nat /\ MaxFail \in Nat /\ ServerFatal \in BOOLEAN

Control == {"stop", "interrogate", "guardian"}
Status == {"none", "start_pending", "running", "stop_pending", "stopped"}

VARIABLES
    mpc,        \* service main thread: where CNTL_main_thread is
    hpc,        \* SCM dispatcher: "idle" or where control_thread is
    status,     \* dwCurrentState last accepted by SetServiceStatus
    event,      \* stop_event_handle
    hMutex,     \* guardian mutex handle opened by control_thread
    failed,     \* CNTL_main_thread's status: TRUE = start did not complete
    server,     \* main_handler thread: "none", "up", "fatal" (called shutdown)
    nCtl,       \* controls delivered so far
    nFail,      \* failures so far
    staleSet    \* history: SetEvent was called on a closed handle

vars == <<mpc, hpc, status, event, hMutex, failed, server, nCtl, nFail, staleSet>>

-----------------------------------------------------------------------------
(* CNTL_shutdown_service: log the error, then SetEvent(stop_event_handle) *)
(* when the static is non-NULL, whether or not the handle is still open.   *)
SetEvent(e) == IF e \in {"open", "set"} THEN "set" ELSE e

ShutdownService ==
    /\ event' = SetEvent(event)
    /\ staleSet' = (staleSet \/ event = "closed")

(* report_status(state): SetServiceStatus either succeeds, or fails and   *)
(* CNTL_shutdown_service runs.  ok is the value returned.                  *)
ReportStatus(state, ok) ==
    \/ /\ ok
       /\ status' = state
       /\ UNCHANGED <<event, staleSet, nFail>>
    \/ /\ ~ok
       /\ nFail < MaxFail
       /\ nFail' = nFail + 1
       /\ UNCHANGED status
       /\ ShutdownService

Init ==
    /\ mpc = "register"
    /\ hpc = "none"
    /\ status = "none"
    /\ event = "null"
    /\ hMutex = FALSE
    /\ failed = TRUE
    /\ server = "none"
    /\ nCtl = 0
    /\ nFail = 0
    /\ staleSet = FALSE

-----------------------------------------------------------------------------
(* CNTL_main_thread, one action per SCM or kernel call.                    *)

Register ==
    /\ mpc = "register"
    /\ \/ mpc' = "start1" /\ hpc' = "idle"
       \/ mpc' = "done" /\ UNCHANGED hpc
    /\ UNCHANGED <<status, event, hMutex, failed, server, nCtl, nFail, staleSet>>

\* The first condition of the if: report START_PENDING (checkpoint 1).
StartPending1 ==
    /\ mpc = "start1"
    /\ \E ok \in BOOLEAN :
          /\ ReportStatus("start_pending", ok)
          /\ mpc' = IF ok THEN "create" ELSE "after"
    /\ UNCHANGED <<hpc, hMutex, failed, server, nCtl>>

CreateEvent ==
    /\ mpc = "create"
    /\ \/ event' = "open" /\ mpc' = "start2" /\ UNCHANGED nFail
       \/ nFail < MaxFail /\ nFail' = nFail + 1 /\ mpc' = "after"
          /\ UNCHANGED event
    /\ UNCHANGED <<hpc, status, hMutex, failed, server, nCtl, staleSet>>

StartPending2 ==
    /\ mpc = "start2"
    /\ \E ok \in BOOLEAN :
          /\ ReportStatus("start_pending", ok)
          /\ mpc' = IF ok THEN "thread" ELSE "after"
    /\ UNCHANGED <<hpc, hMutex, failed, server, nCtl>>

\* Thread::start, or the exception it throws (caught and logged).
StartThread ==
    /\ mpc = "thread"
    /\ \/ server' = "up" /\ mpc' = "running" /\ UNCHANGED nFail
       \/ nFail < MaxFail /\ nFail' = nFail + 1 /\ mpc' = "after"
          /\ UNCHANGED server
    /\ UNCHANGED <<hpc, status, event, hMutex, failed, nCtl, staleSet>>

ReportRunning ==
    /\ mpc = "running"
    /\ \E ok \in BOOLEAN :
          /\ ReportStatus("running", ok)
          /\ mpc' = IF ok THEN "wait" ELSE "after"
          /\ failed' = ~ok
    /\ UNCHANGED <<hpc, hMutex, server, nCtl>>

WaitStopNoWait ==
    /\ mpc = "wait"
    /\ mpc' = "after"
    /\ UNCHANGED <<hpc, status, event, hMutex, failed, server, nCtl, nFail, staleSet>>

\* WaitForSingleObject(stop_event_handle, INFINITE) returns.
WaitStop ==
    /\ mpc = "wait"
    /\ event = "set"
    /\ mpc' = "after"
    /\ UNCHANGED <<hpc, status, event, hMutex, failed, server, nCtl, nFail, staleSet>>

\* if (stop_event_handle) CloseHandle(stop_event_handle); the static keeps
\* its value.
CloseEvent ==
    /\ mpc = "after"
    /\ event' = IF event = "null" THEN "null" ELSE "closed"
    /\ mpc' = "stop_pending"
    /\ UNCHANGED <<hpc, status, hMutex, failed, server, nCtl, nFail, staleSet>>

ReportStopPending ==
    /\ mpc = "stop_pending"
    /\ \E ok \in BOOLEAN : ReportStatus("stop_pending", ok)
    /\ mpc' = "shutdown"
    /\ UNCHANGED <<hpc, hMutex, failed, server, nCtl>>

\* fb_shutdown(SHUTDOWN_TIMEOUT, fb_shutrsn_svc_stopped) stops the server.
FbShutdown ==
    /\ mpc = "shutdown"
    /\ server' = IF server = "none" THEN "none" ELSE "down"
    /\ mpc' = "stopped"
    /\ UNCHANGED <<hpc, status, event, hMutex, failed, nCtl, nFail, staleSet>>

ReportStopped ==
    /\ mpc = "stopped"
    /\ \E ok \in BOOLEAN : ReportStatus("stopped", ok)
    /\ mpc' = "done"
    /\ UNCHANGED <<hpc, hMutex, failed, server, nCtl>>

-----------------------------------------------------------------------------
(* control_thread, run by the dispatcher for each control the SCM lets    *)
(* through: none while START_PENDING, STOP_PENDING or STOPPED.             *)

Deliver(c) ==
    /\ hpc = "idle"
    /\ status = "running"
    /\ nCtl < MaxControls
    /\ nCtl' = nCtl + 1
    /\ hpc' = CASE c = "stop"        -> "stop"
                [] c = "interrogate" -> "report"
                [] c = "guardian"    -> "guardian"
    /\ UNCHANGED <<mpc, status, event, hMutex, failed, server, nFail, staleSet>>

\* SERVICE_CONTROL_STOP / SHUTDOWN: report STOP_PENDING ...
HandleStop ==
    /\ hpc = "stop"
    /\ \E ok \in BOOLEAN : ReportStatus("stop_pending", ok)
    /\ hpc' = "stop_set"
    /\ UNCHANGED <<mpc, hMutex, failed, server, nCtl>>

HandleStopFallsThrough ==
    /\ hpc = "stop_set"
    /\ hpc' = "report"
    /\ event' = SetEvent(event)
    /\ staleSet' = (staleSet \/ event = "closed")
    /\ UNCHANGED <<mpc, status, hMutex, failed, server, nCtl, nFail>>

HandleStopSetNoEvent ==
    /\ hpc = "stop_set"
    /\ hpc' = "idle"
    /\ UNCHANGED <<mpc, status, event, hMutex, failed, server, nCtl, nFail, staleSet>>

\* ... ReleaseMutex(hMutex) if open, SetEvent(stop_event_handle), return.
HandleStopSet ==
    /\ hpc = "stop_set"
    /\ hpc' = "idle"
    /\ event' = SetEvent(event)
    /\ staleSet' = (staleSet \/ event = "closed")
    /\ UNCHANGED <<mpc, status, hMutex, failed, server, nCtl, nFail>>

\* SERVICE_CREATE_GUARDIAN_MUTEX: OpenMutex, wait for it, fall through.
HandleGuardian ==
    /\ hpc = "guardian"
    /\ \E opened \in BOOLEAN : hMutex' = (hMutex \/ opened)
    /\ hpc' = "report"
    /\ UNCHANGED <<mpc, status, event, failed, server, nCtl, nFail, staleSet>>

HandleReportReportsAction ==
    /\ hpc = "report"
    /\ \E ok \in BOOLEAN : ReportStatus("interrogate", ok)
    /\ hpc' = "idle"
    /\ UNCHANGED <<mpc, hMutex, failed, server, nCtl>>

\* After the switch: report_status(SERVICE_RUNNING), whatever has happened
\* to the service since the control was delivered.
HandleReport ==
    /\ hpc = "report"
    /\ \E ok \in BOOLEAN : ReportStatus("running", ok)
    /\ hpc' = "idle"
    /\ UNCHANGED <<mpc, hMutex, failed, server, nCtl>>

-----------------------------------------------------------------------------
(* The server thread's fatal-error path (its code is not under src/).      *)
ServerShutdown ==
    /\ ServerFatal
    /\ server = "up"
    /\ server' = "fatal"
    /\ ShutdownService
    /\ UNCHANGED <<mpc, hpc, status, hMutex, failed, nCtl, nFail>>

\* The running service waits in WaitForSingleObject for a control that may
\* never come.
Waiting ==
    /\ mpc = "wait"
    /\ event # "set"
    /\ hpc = "idle"
    /\ UNCHANGED vars

\* The process has nothing left to do once the main thread returned and no
\* control is being handled.
Exited ==
    /\ mpc = "done"
    /\ hpc \in {"none", "idle"}
    /\ UNCHANGED vars

MainStep ==
    \/ Register \/ StartPending1 \/ CreateEvent \/ StartPending2 \/ StartThread
    \/ ReportRunning \/ WaitStop \/ CloseEvent \/ ReportStopPending
    \/ FbShutdown \/ ReportStopped

HandlerStep ==
    \/ HandleStop \/ HandleStopSet \/ HandleGuardian \/ HandleReport

Next ==
    \/ MainStep
    \/ HandlerStep
    \/ \E c \in Control : Deliver(c)
    \/ ServerShutdown
    \/ Waiting
    \/ Exited

Spec == Init /\ [][Next]_vars

\* Both threads are scheduled; the SCM and the server thread are the
\* environment and need not act.
FairSpec == Spec /\ WF_vars(MainStep) /\ WF_vars(HandlerStep)

-----------------------------------------------------------------------------
TypeOK ==
    /\ mpc \in {"register", "start1", "create", "start2", "thread", "running",
                "wait", "after", "stop_pending", "shutdown", "stopped", "done"}
    /\ hpc \in {"none", "idle", "stop", "stop_set", "guardian", "report"}
    /\ status \in Status
    /\ event \in {"null", "open", "set", "closed"}
    /\ hMutex \in BOOLEAN /\ failed \in BOOLEAN /\ staleSet \in BOOLEAN
    /\ server \in {"none", "up", "fatal", "down"}
    /\ nCtl \in 0..MaxControls /\ nFail \in 0..MaxFail

(* Once the service has told the SCM it is stopping (STOP_PENDING) or has *)
(* stopped, it never reports RUNNING again: control_thread's final        *)
(* report_status(SERVICE_RUNNING) and the main thread's reports must not   *)
(* undo the main thread's shutdown.                                        *)
StatusNeverRegresses ==
    [][(status \in {"stop_pending", "stopped"}) => status' # "running"]_status

(* SetEvent is never called on stop_event_handle after CloseHandle: the   *)
(* static is not cleared, so a late STOP control or CNTL_shutdown_service  *)
(* would signal whatever object now has that handle value.                 *)
NoStaleSetEvent == ~staleSet

(* A STOP control delivered to the running service ends with the main      *)
(* thread having stopped the server and returned.                          *)
StopCompletes == (hpc = "stop") ~> (mpc = "done" /\ server # "up")
=============================================================================
