------------------------------ MODULE Lifecycle ------------------------------
(***************************************************************************)
(* The life of the adapter: open, close, reinit, the service task and its  *)
(* timer, suspend and resume, PCI error recovery, surprise removal, probe  *)
(* and remove.                                                             *)
(*                                                                         *)
(* Three callers run driver code: "user" stands for the calls the stack    *)
(* makes under rtnl, "pm" for the PCI core's callbacks, "svc" for the      *)
(* service task.  What a caller has still to do is a sequence of steps,    *)
(* todo[c]; a function that calls another puts the callee's steps in       *)
(* front.  The state bits of the adapter, the service timer and the work   *)
(* item are shared by all of them, mostly without a lock.                  *)
(***************************************************************************)
EXTENDS Naturals, Sequences

CONSTANTS
  Adverse,  \* the events of AdverseEvents that may happen
  None

\* Events that the driver is not proof against; Adverse says which of them may happen:
AdverseEvents ==
  {"reopen_fails",    \* an open fails whose caller does not look at the result
   "queue_reset",     \* the PF changes the number of queues
   "late_attach",     \* rtnl is taken between ixgbevf_resume's unlock and its attach
   "slow_lock",       \* the PCI core's next callback overtakes a caller waiting for rtnl
   "stale_schedule"}  \* the timer schedules on state bits it saw earlier

Callers == {"user", "pm", "svc"}

\* What a test of the state bits made too early leads to:
LateDeeds ==
  {"rebuild",   \* ixgbevf_queue_reset_subtask gets rtnl when the device is detached or unregistered
   "requeue"}   \* the work item is queued again while ixgbevf_remove is under way

ASSUME LifecycleAssumption == Adverse \subseteq AdverseEvents /\ None \notin Callers

VARIABLES
  down, resetting, removing, disabled, sched, resetReq, queueReq,  \* adapter->state
  hwAddr,      \* hw->hw_addr is not NULL
  running, present, registered,  \* the stack's view of the interface
  power,       \* the PCI core's view of the device
  vectors, rings, irqs,          \* what has been allocated
  napi, txOn,  \* polling enabled, queues started
  timer, tsched,  \* service_timer, and the bits its callback has seen
  work,        \* the work item of the service task
  rtnl, todo,
  late         \* history: which of LateDeeds the service task's side has done

bitVars == <<down, resetting, removing, disabled>>
svcVars == <<sched, work>>
reqVars == <<resetReq, queueReq>>
netVars == <<running, present, registered>>
resVars == <<vectors, rings, irqs>>
onVars == <<napi, txOn>>
timerVars == <<timer, tsched>>
stateVars == <<bitVars, svcVars, reqVars, hwAddr, netVars, power, resVars, onVars, timerVars>>
vars == <<stateVars, rtnl, todo>>
allVars == <<vars, late>>

\* ixgbevf_probe has returned: registered, DOWN, the interrupt scheme set up.
Init ==
  /\ down = TRUE /\ resetting = FALSE /\ removing = FALSE /\ disabled = FALSE
  /\ sched = FALSE /\ resetReq = FALSE /\ queueReq = FALSE
  /\ hwAddr = TRUE
  /\ running = FALSE /\ present = TRUE /\ registered = TRUE /\ power = "active"
  /\ vectors = TRUE /\ rings = FALSE /\ irqs = FALSE /\ napi = FALSE /\ txOn = FALSE
  /\ timer = "off" /\ tsched = FALSE /\ work = "idle"
  /\ rtnl = None /\ todo = [c \in Callers |-> <<>>]
  /\ late = {}

-----------------------------------------------------------------------------
\* Steps

At(c, s) == todo[c] # <<>> /\ Head(todo[c]) = s
Call(c, steps) == todo' = [todo EXCEPT ![c] = steps \o Tail(@)]
Done(c) == Call(c, <<>>)

RtnlFree == rtnl = None /\ (At("pm", "attach") => "late_attach" \in Adverse)

Lock(c) ==
  /\ At(c, "lock") /\ RtnlFree
  /\ rtnl' = c /\ Done(c)
  /\ UNCHANGED stateVars

Unlock(c) ==
  /\ At(c, "unlock")
  /\ rtnl' = None /\ Done(c)
  /\ UNCHANGED stateVars

\* ixgbevf_service_event_schedule, given the tests of DOWN and REMOVING
Schedule(ok) ==
  /\ sched' = (sched \/ ok)
  /\ work' = IF ok /\ ~sched THEN "queued" ELSE work

CanSchedule == ~down /\ ~removing

-----------------------------------------------------------------------------
\* Down, up, reset

\* ixgbevf_down does nothing if the adapter is down already.
Down(c) ==
  /\ At(c, "down")
  /\ down' = TRUE
  /\ Call(c, IF down THEN <<>> ELSE <<"quiesce", "del_timer", "reset">>)
  /\ UNCHANGED <<resetting, removing, disabled, svcVars, reqVars, hwAddr, netVars, power,
                 resVars, onVars, timerVars, rtnl>>

\* Stop the queues, disable interrupts and NAPI.
DownQuiesce(c) ==
  /\ At(c, "quiesce")
  /\ txOn' = FALSE /\ napi' = FALSE
  /\ Done(c)
  /\ UNCHANGED <<bitVars, svcVars, reqVars, hwAddr, netVars, power, resVars, timerVars, rtnl>>

\* Mutant: the timer is deleted without waiting for its callback.
DownTimerNoSync(c) ==
  /\ At(c, "del_timer")
  /\ timer' = IF timer = "firing" THEN "firing" ELSE "off"
  /\ Done(c)
  /\ UNCHANGED <<bitVars, svcVars, reqVars, hwAddr, netVars, power, resVars, onVars, tsched,
                 rtnl>>

\* Mutant: the timer, which sets itself again, is expected to run out.
DownTimerExpires(c) ==
  /\ At(c, "del_timer")
  /\ timer = "off"
  /\ Done(c)
  /\ UNCHANGED <<stateVars, rtnl>>

\* timer_delete_sync
DownTimer(c) ==
  /\ At(c, "del_timer")
  /\ timer # "firing"
  /\ timer' = "off"
  /\ Done(c)
  /\ UNCHANGED <<bitVars, svcVars, reqVars, hwAddr, netVars, power, resVars, onVars, tsched,
                 rtnl>>

\* ixgbevf_reset, and the emptying of the rings that follows it in ixgbevf_down.  (Its
\* register reads may find the device gone: RemoveAdapter.)
Reset(c) ==
  /\ At(c, "reset")
  /\ Done(c)
  /\ UNCHANGED <<stateVars, rtnl>>

\* ixgbevf_configure: the PF may report another number of queues.
Configure(c) ==
  /\ At(c, "configure")
  /\ queueReq' \in {queueReq, queueReq \/ "queue_reset" \in Adverse}
  /\ Done(c)
  /\ UNCHANGED <<bitVars, svcVars, resetReq, hwAddr, netVars, power, resVars, onVars,
                 timerVars, rtnl>>

\* ixgbevf_up_complete: DOWN is cleared, NAPI enabled.
UpComplete(c) ==
  /\ At(c, "up_complete")
  /\ down' = FALSE /\ napi' = TRUE
  /\ Done(c)
  /\ UNCHANGED <<resetting, removing, disabled, svcVars, reqVars, hwAddr, netVars, power,
                 resVars, txOn, timerVars, rtnl>>

\* The queues are started, and the service timer.
UpStart(c) ==
  /\ At(c, "up_start")
  /\ txOn' = TRUE /\ timer' = "armed"
  /\ Done(c)
  /\ UNCHANGED <<bitVars, svcVars, reqVars, hwAddr, netVars, power, resVars, napi, tsched,
                 rtnl>>

Up == <<"configure", "up_complete", "up_start">>

\* ixgbevf_reinit_locked
Reinit == <<"resetting", "down">> \o Up \o <<"reset_done">>

Resetting(c) ==
  /\ At(c, "resetting") /\ ~resetting
  /\ resetting' = TRUE /\ Done(c)
  /\ UNCHANGED <<down, removing, disabled, svcVars, reqVars, hwAddr, netVars, power, resVars,
                 onVars, timerVars, rtnl>>

ResetDone(c) ==
  /\ At(c, "reset_done")
  /\ resetting' = FALSE /\ Done(c)
  /\ UNCHANGED <<down, removing, disabled, svcVars, reqVars, hwAddr, netVars, power, resVars,
                 onVars, timerVars, rtnl>>

-----------------------------------------------------------------------------
\* Open and close

\* ixgbevf_open: rings and interrupts are allocated, then the adapter comes up.
OpenSucceeds(c) ==
  /\ At(c, "open") \/ At(c, "reopen")
  /\ vectors
  /\ rings' = TRUE
  /\ Call(c, <<"configure", "request_irq", "up_complete", "up_start">>)
  /\ UNCHANGED <<bitVars, svcVars, reqVars, hwAddr, netVars, power, vectors, irqs, onVars,
                 timerVars, rtnl>>

RequestIrq(c) ==
  /\ At(c, "request_irq")
  /\ irqs' = TRUE
  /\ Done(c)
  /\ UNCHANGED <<bitVars, svcVars, reqVars, hwAddr, netVars, power, vectors, rings, onVars,
                 timerVars, rtnl>>

\* At any of its points, and everything is released again.  A failed ndo_open leaves the
\* interface not running; ixgbevf_resume returns the error and does not attach the device;
\* those that reopen the interface do not look at the result.
OpenFails(c) ==
  /\ At(c, "open") \/ (At(c, "reopen") /\ "reopen_fails" \in Adverse)
  /\ queueReq' \in {queueReq, queueReq \/ "queue_reset" \in Adverse}
  /\ running' = (running /\ ~(c = "user" /\ At(c, "open")))
  /\ IF c = "pm" /\ At(c, "open")
       THEN power' = "dead" /\ todo' = [todo EXCEPT ![c] = <<"unlock">>]
       ELSE Done(c) /\ UNCHANGED power
  /\ UNCHANGED <<bitVars, svcVars, resetReq, hwAddr, present, registered, resVars, onVars,
                 timerVars, rtnl>>

CloseKeeps(c) ==
  /\ At(c, "close")
  /\ Call(c, IF present THEN <<"down">> ELSE <<>>)
  /\ UNCHANGED <<stateVars, rtnl>>

\* ixgbevf_close does nothing for a detached device; ixgbevf_close_suspend is not so
\* careful.
Close(c) ==
  /\ At(c, "close")
  /\ Call(c, IF present THEN <<"down", "free">> ELSE <<>>)
  /\ UNCHANGED <<stateVars, rtnl>>

CloseSuspend(c) ==
  /\ At(c, "close_suspend")
  /\ Call(c, IF running THEN <<"down", "free">> ELSE <<>>)
  /\ UNCHANGED <<stateVars, rtnl>>

\* ixgbevf_free_irq, ixgbevf_free_all_tx_resources, ixgbevf_free_all_rx_resources
Free(c) ==
  /\ At(c, "free")
  /\ irqs' = FALSE /\ rings' = FALSE
  /\ Done(c)
  /\ UNCHANGED <<bitVars, svcVars, reqVars, hwAddr, netVars, power, vectors, onVars, timerVars,
                 rtnl>>

\* if (netif_running) around close and open
IfRunning(c) ==
  /\ \/ At(c, "if_close") /\ Call(c, IF running THEN <<"close">> ELSE <<>>)
     \/ At(c, "if_open") /\ Call(c, IF running THEN <<"open">> ELSE <<>>)
     \/ At(c, "if_reopen") /\ Call(c, IF running THEN <<"reopen">> ELSE <<>>)
  /\ UNCHANGED <<stateVars, rtnl>>

ClearScheme(c) ==
  /\ At(c, "clear_scheme")
  /\ vectors' = FALSE
  /\ Done(c)
  /\ UNCHANGED <<bitVars, svcVars, reqVars, hwAddr, netVars, power, rings, irqs, onVars,
                 timerVars, rtnl>>

\* ixgbevf_init_interrupt_scheme sets DOWN when it succeeds.
InitScheme(c) ==
  /\ At(c, "init_scheme")
  /\ vectors' = TRUE /\ down' = TRUE
  /\ Done(c)
  /\ UNCHANGED <<resetting, removing, disabled, svcVars, reqVars, hwAddr, netVars, power, rings,
                 irqs, onVars, timerVars, rtnl>>

\* A failure is an error to ixgbevf_resume and to nobody else.
InitSchemeFails(c) ==
  /\ At(c, "init_scheme")
  /\ c = "pm" \/ "reopen_fails" \in Adverse
  /\ IF c = "pm" THEN power' = "dead" /\ todo' = [todo EXCEPT ![c] = <<"unlock">>]
                 ELSE Done(c) /\ UNCHANGED power
  /\ UNCHANGED <<bitVars, svcVars, reqVars, hwAddr, netVars, resVars, onVars, timerVars, rtnl>>

\* xdp_setup and queue_reset_subtask
Rescheme == <<"if_close", "clear_scheme", "init_scheme", "if_reopen">>

-----------------------------------------------------------------------------
\* The stack, under rtnl.  It refuses calls on a detached device, except to close it.

UserCall(steps, wasRunning) ==
  /\ registered /\ RtnlFree /\ todo["user"] = <<>>
  /\ running = wasRunning
  /\ rtnl' = "user"
  /\ todo' = [todo EXCEPT !["user"] = steps \o <<"unlock">>]
  /\ UNCHANGED <<bitVars, svcVars, reqVars, hwAddr, present, registered, power, resVars, onVars,
                 timerVars>>

UserOpen == present /\ UserCall(<<"open">>, FALSE) /\ running' = TRUE
UserClose == UserCall(<<"close">>, TRUE) /\ running' = FALSE

\* Mutant: the adapter is left down when it fails.
UserReinitHalf ==
  /\ present /\ UNCHANGED running
  /\ \/ UserCall(Reinit, TRUE)
     \/ UserCall(<<"resetting", "down", "reset_done">>, running)

\* change_mtu, nway_reset, set_priv_flags, set_ringparam (which may also fail to
\* allocate the new rings, before it takes anything down)
UserReinit ==
  /\ present /\ UNCHANGED running
  /\ \/ UserCall(Reinit, TRUE)
     \/ UserCall(<<"resetting", "reset_done">>, running)

UserXdpSetup == present /\ UserCall(Rescheme, running) /\ UNCHANGED running

\* the offline test of ixgbevf_diag_test
UserDiagTest ==
  /\ present /\ hwAddr /\ UNCHANGED running
  /\ \/ UserCall(<<"close", "reset", "reopen">>, TRUE)
     \/ UserCall(<<"reset", "reset">>, FALSE)

User == UserOpen \/ UserClose \/ UserReinit \/ UserXdpSetup \/ UserDiagTest

-----------------------------------------------------------------------------
\* The service task

SvcStartIgnoresRemoval ==
  /\ work = "queued" /\ todo["svc"] = <<>>
  /\ work' = "running"
  /\ todo' = [todo EXCEPT !["svc"] =
                IF hwAddr THEN <<"queue_reset", "reset_subtask", "watchdog", "complete">>
                ELSE IF down THEN <<"complete">>
                ELSE <<"complete">>]
  /\ UNCHANGED <<bitVars, sched, reqVars, hwAddr, netVars, power, resVars, onVars, timerVars,
                 rtnl>>

\* Mutant: the request is taken and nothing is done.
SvcResetDrops ==
  /\ At("svc", "reset_subtask")
  /\ resetReq' = FALSE
  /\ Done("svc")
  /\ UNCHANGED <<bitVars, svcVars, queueReq, hwAddr, netVars, power, resVars, onVars, timerVars,
                 rtnl>>

\* ixgbevf_service_task looks at hw_addr and DOWN before it takes rtnl.
SvcStart ==
  /\ work = "queued" /\ todo["svc"] = <<>>
  /\ work' = "running"
  /\ todo' = [todo EXCEPT !["svc"] =
                IF hwAddr THEN <<"queue_reset", "reset_subtask", "watchdog", "complete">>
                ELSE IF down THEN <<"complete">>
                ELSE <<"lock", "down", "unlock", "complete">>]
  /\ UNCHANGED <<bitVars, sched, reqVars, hwAddr, netVars, power, resVars, onVars, timerVars,
                 rtnl>>

\* ixgbevf_queue_reset_subtask tests the bits and then waits for rtnl.
SvcQueueReset ==
  /\ At("svc", "queue_reset")
  /\ queueReq' = FALSE
  /\ Call("svc", IF queueReq /\ ~down /\ ~resetting
                   THEN <<"lock">> \o Rescheme \o <<"unlock">> ELSE <<>>)
  /\ UNCHANGED <<bitVars, svcVars, resetReq, hwAddr, netVars, power, resVars, onVars, timerVars,
                 rtnl>>

SvcReset ==
  /\ At("svc", "reset_subtask")
  /\ resetReq' = FALSE
  /\ Call("svc", IF resetReq THEN <<"lock", "reset_check", "unlock">> ELSE <<>>)
  /\ UNCHANGED <<bitVars, svcVars, queueReq, hwAddr, netVars, power, resVars, onVars, timerVars,
                 rtnl>>

\* "If we're already down or resetting, just bail"
SvcResetCheck ==
  /\ At("svc", "reset_check")
  /\ Call("svc", IF down \/ removing \/ resetting THEN <<>> ELSE Reinit)
  /\ UNCHANGED <<stateVars, rtnl>>

\* ixgbevf_watchdog_subtask: DOWN and RESETTING are tested, then the link is asked
\* for; an error, or a mailbox that does not answer, requests a reset.
SvcWatchdog ==
  /\ At("svc", "watchdog")
  /\ Call("svc", IF down \/ resetting THEN <<>> ELSE <<"update_link">>)
  /\ UNCHANGED <<stateVars, rtnl>>

SvcUpdateLink ==
  /\ At("svc", "update_link")
  /\ resetReq' \in {resetReq, TRUE}
  /\ Done("svc")
  /\ UNCHANGED <<bitVars, svcVars, queueReq, hwAddr, netVars, power, resVars, onVars, timerVars,
                 rtnl>>

\* ixgbevf_service_event_complete
SvcComplete ==
  /\ At("svc", "complete")
  /\ sched' = FALSE /\ work' = "idle" /\ Done("svc")
  /\ UNCHANGED <<bitVars, reqVars, hwAddr, netVars, power, resVars, onVars, timerVars, rtnl>>

SvcSubtask ==
  SvcQueueReset \/ SvcReset \/ SvcResetCheck \/ SvcWatchdog \/ SvcUpdateLink \/ SvcComplete

\* The timer's callback has begun ...
TimerFire ==
  /\ timer = "armed"
  /\ timer' = "firing"
  /\ tsched' = (CanSchedule /\ "stale_schedule" \in Adverse)
  /\ UNCHANGED <<bitVars, svcVars, reqVars, hwAddr, netVars, power, resVars, onVars, rtnl, todo>>

\* ... has set the timer again, and schedules the service task.
TimerCallback ==
  /\ timer = "firing"
  /\ timer' = "armed" /\ tsched' = FALSE
  /\ Schedule(IF "stale_schedule" \in Adverse THEN tsched ELSE CanSchedule)
  /\ UNCHANGED <<bitVars, reqVars, hwAddr, netVars, power, resVars, onVars, rtnl, todo>>

\* ixgbevf_msix_other: the PF has sent something
MsixOther ==
  /\ irqs /\ hwAddr
  /\ Schedule(CanSchedule)
  /\ UNCHANGED <<bitVars, reqVars, hwAddr, netVars, power, resVars, onVars, timerVars, rtnl, todo>>

\* ixgbevf_tx_timeout_reset, from the stack's watchdog or from a poll
TxTimeoutReset ==
  /\ txOn /\ ~down
  /\ resetReq' = TRUE
  /\ Schedule(CanSchedule)
  /\ UNCHANGED <<bitVars, queueReq, hwAddr, netVars, power, resVars, onVars, timerVars, rtnl,
                 todo>>

-----------------------------------------------------------------------------
\* The PCI core.  It makes one call at a time.

PmCall(steps) ==
  /\ todo["pm"] = <<>>
  /\ At("svc", "lock") /\ power \notin {"active", "dead"} => "slow_lock" \in Adverse
  /\ todo' = [todo EXCEPT !["pm"] = steps]
  /\ UNCHANGED <<bitVars, svcVars, reqVars, hwAddr, netVars, resVars, onVars, timerVars, rtnl>>

Suspend ==
  /\ power = "active" /\ power' = "suspended"
  /\ PmCall(<<"lock", "detach", "close_suspend", "clear_scheme", "unlock", "disable">>)

\* Mutant: the reset comes last.
ResumeResetLast ==
  /\ power = "suspended" /\ UNCHANGED power
  /\ PmCall(<<"enable", "lock", "init_scheme", "if_open", "unlock", "reset", "attach">>)

Resume ==
  /\ power = "suspended" /\ UNCHANGED power
  /\ PmCall(<<"enable", "reset", "lock", "init_scheme", "if_open", "unlock", "attach">>)

\* ixgbevf_io_error_detected; after a permanent failure nothing but remove follows
IoErrorDetected ==
  /\ power = "active"
  /\ \/ power' = "frozen" /\ PmCall(<<"lock", "detach", "close_suspend", "disable", "unlock">>)
     \/ power' = "dead" /\ PmCall(<<"lock", "detach", "close_suspend", "unlock">>)

IoSlotReset ==
  /\ power = "frozen" /\ power' = "slot_reset"
  /\ PmCall(<<"enable", "reset">>)

IoResume ==
  /\ power = "slot_reset" /\ UNCHANGED power
  /\ PmCall(<<"lock", "if_reopen", "attach", "unlock">>)

Remove ==
  /\ power \in {"active", "suspended", "dead"} /\ power' = "removing"
  /\ PmCall(<<"removing", "cancel_work", "lock", "unregister", "unlock", "clear_scheme", "gone">>)

\* netif_device_detach, netif_device_attach
Detach ==
  /\ At("pm", "detach")
  /\ present' = FALSE /\ txOn' = (txOn /\ ~running)
  /\ Done("pm")
  /\ UNCHANGED <<bitVars, svcVars, reqVars, hwAddr, running, registered, power, resVars, napi,
                 timerVars, rtnl>>

Attach ==
  /\ At("pm", "attach")
  /\ present' = TRUE /\ txOn' = (txOn \/ running)
  /\ power' = "active"
  /\ Done("pm")
  /\ UNCHANGED <<bitVars, svcVars, reqVars, hwAddr, running, registered, resVars, napi,
                 timerVars, rtnl>>

\* pci_disable_device, unless it has been done
Disable ==
  /\ At("pm", "disable")
  /\ disabled' = TRUE
  /\ Done("pm")
  /\ UNCHANGED <<down, resetting, removing, svcVars, reqVars, hwAddr, netVars, power, resVars,
                 onVars, timerVars, rtnl>>

\* pci_enable_device_mem; the registers are there again
Enable ==
  /\ At("pm", "enable")
  /\ \/ /\ disabled' = FALSE /\ hwAddr' = TRUE
        /\ Done("pm") /\ UNCHANGED power
     \/ /\ power' = "dead"
        /\ todo' = [todo EXCEPT !["pm"] = <<>>]
        /\ UNCHANGED <<disabled, hwAddr>>
  /\ UNCHANGED <<down, resetting, removing, svcVars, reqVars, netVars, resVars, onVars,
                 timerVars, rtnl>>

SetRemoving ==
  /\ At("pm", "removing")
  /\ removing' = TRUE
  /\ Done("pm")
  /\ UNCHANGED <<down, resetting, disabled, svcVars, reqVars, hwAddr, netVars, power, resVars,
                 onVars, timerVars, rtnl>>

\* Mutant: the work is cancelled if it has not begun, and not waited for.
CancelWorkNoWait ==
  /\ At("pm", "cancel_work")
  /\ work' = IF work = "queued" THEN "idle" ELSE work
  /\ Done("pm")
  /\ UNCHANGED <<bitVars, sched, reqVars, hwAddr, netVars, power, resVars, onVars, timerVars,
                 rtnl>>

\* cancel_work_sync
CancelWork ==
  /\ At("pm", "cancel_work")
  /\ work # "running"
  /\ work' = "idle"
  /\ Done("pm")
  /\ UNCHANGED <<bitVars, sched, reqVars, hwAddr, netVars, power, resVars, onVars, timerVars,
                 rtnl>>

\* unregister_netdev closes an interface that is up.
Unregister ==
  /\ At("pm", "unregister")
  /\ registered' = FALSE /\ running' = FALSE
  /\ Call("pm", IF running THEN <<"close">> ELSE <<>>)
  /\ UNCHANGED <<bitVars, svcVars, reqVars, hwAddr, present, power, resVars, onVars, timerVars,
                 rtnl>>

\* Registers unmapped, memory freed.
Gone ==
  /\ At("pm", "gone")
  /\ power' = "gone" /\ disabled' = TRUE
  /\ Done("pm")
  /\ UNCHANGED <<down, resetting, removing, svcVars, reqVars, hwAddr, netVars, resVars, onVars,
                 timerVars, rtnl>>

Pm ==
  \/ Suspend \/ Resume \/ IoErrorDetected \/ IoSlotReset \/ IoResume \/ Remove
PmStep ==
  Detach \/ Attach \/ Disable \/ Enable \/ SetRemoving \/ CancelWork \/ Unregister \/ Gone

\* The driver is bound to a device again.
Probe ==
  /\ power = "gone" /\ work = "idle"
  /\ down' = TRUE /\ resetting' = FALSE /\ removing' = FALSE /\ disabled' = FALSE
  /\ sched' = FALSE /\ resetReq' = FALSE /\ queueReq' = FALSE
  /\ hwAddr' = TRUE
  /\ running' = FALSE /\ present' = TRUE /\ registered' = TRUE /\ power' = "active"
  /\ vectors' = TRUE /\ rings' = FALSE /\ irqs' = FALSE /\ napi' = FALSE /\ txOn' = FALSE
  /\ timer' = "off" /\ tsched' = FALSE
  /\ UNCHANGED <<work, rtnl, todo>>

\* The device has been pulled out, and some register read finds out: at any time, in any
\* of the functions above.
RemoveAdapter ==
  /\ hwAddr /\ power # "gone"
  /\ hwAddr' = FALSE
  /\ Schedule(CanSchedule)
  /\ UNCHANGED <<bitVars, reqVars, netVars, power, resVars, onVars, timerVars, rtnl, todo>>

-----------------------------------------------------------------------------
Step(c) ==
  /\ todo[c] # <<>>
  /\ \/ Unlock(c) \/ Down(c) \/ DownQuiesce(c) \/ DownTimer(c) \/ Reset(c) \/ Configure(c)
     \/ UpComplete(c) \/ UpStart(c) \/ Resetting(c) \/ ResetDone(c) \/ OpenSucceeds(c)
     \/ RequestIrq(c) \/ OpenFails(c) \/ Close(c) \/ CloseSuspend(c) \/ Free(c) \/ IfRunning(c)
     \/ ClearScheme(c) \/ InitScheme(c) \/ InitSchemeFails(c)

Move ==
  \/ User \/ Pm \/ Probe \/ RemoveAdapter
  \/ SvcStart \/ SvcSubtask \/ PmStep
  \/ TimerFire \/ TimerCallback \/ MsixOther \/ TxTimeoutReset
  \/ \E c \in Callers : Lock(c) \/ Step(c)

\* The steps that are late: the lock of ixgbevf_queue_reset_subtask for a device given up,
\* and a work item queued while the device is being removed.
Rebuilds == At("svc", "lock") /\ Tail(todo["svc"])[1] = "if_close" /\ rtnl' = "svc" /\ ~(present /\ registered)
Requeues == removing /\ work # "queued" /\ work' = "queued"

Noted ==
  IF power = "gone" /\ power' # "gone" THEN {}
  ELSE late \cup (IF Rebuilds THEN {"rebuild"} ELSE {}) \cup IF Requeues THEN {"requeue"} ELSE {}

\* The model ends where an adapter given up is rebuilt: of what follows nothing is claimed.
Going == "rebuild" \notin late

Next ==
  \/ Going /\ Move /\ late' = Noted
  \/ ~Going /\ UNCHANGED allVars

Spec == Init /\ [][Next]_allVars

\* Every caller runs on, rtnl is handed out in turn (the stack's calls come with it),
\* timer_delete_sync finds the timer between two callbacks (two seconds apart), the work
\* queue runs what is queued, and a timer that is set fires and finishes.
FairSpec ==
  /\ Spec
  /\ WF_vars(Going /\ Step("user"))
  /\ WF_vars(Going /\ (PmStep \/ Step("pm")))
  /\ WF_vars(Going /\ (SvcStart \/ SvcSubtask \/ Step("svc")))
  /\ WF_vars(Going /\ (TimerFire \/ TimerCallback))
  /\ SF_vars(Going /\ Lock("pm")) /\ SF_vars(Going /\ Lock("svc"))
  /\ SF_vars(Going /\ \E c \in Callers : DownTimer(c))

-----------------------------------------------------------------------------
\* Properties

StepNames ==
  {"lock", "unlock", "down", "quiesce", "del_timer", "reset", "configure", "up_complete",
   "up_start", "request_irq", "resetting", "reset_done", "open", "reopen", "close",
   "close_suspend", "free", "if_close", "if_open", "if_reopen", "clear_scheme",
   "init_scheme", "queue_reset", "reset_subtask", "reset_check", "watchdog",
   "update_link", "complete", "detach", "attach", "disable", "enable", "removing",
   "cancel_work", "unregister", "gone"}

\* Type invariant of the state bits, the resources and the callers; a work item that is
\* queued or running is not queued again.
TypeOK ==
  /\ {down, resetting, removing, disabled, sched, resetReq, queueReq, hwAddr, running,
      present, registered, vectors, rings, irqs, napi, txOn, tsched} \subseteq BOOLEAN
  /\ power \in {"active", "suspended", "frozen", "slot_reset", "dead", "removing", "gone"}
  /\ timer \in {"off", "armed", "firing"} /\ work \in {"idle", "queued", "running"}
  /\ rtnl \in Callers \cup {None} /\ todo \in [Callers -> Seq(StepNames)]
  /\ late \subseteq LateDeeds

\* Polls run and queues are started only on rings that are allocated, with their
\* interrupts and vectors: ixgbevf_xmit_frame_ring and ixgbevf_poll do not look.
ActiveHasRings == (~down \/ napi \/ txOn) => (vectors /\ rings /\ irqs)

\* An adapter the PCI core has suspended, or whose PCI device is disabled, is down and
\* has given up its rings, whatever the service task was about to do, with one exception:
\* ixgbevf_queue_reset_subtask tests DOWN before it waits for rtnl (main.c 4641), and if
\* the device is detached while it waits it opens the interface of a suspended device.
SuspendedIsDown ==
  (disabled \/ (~present /\ todo["pm"] = <<>>)) =>
    (down /\ ~rings /\ ~irqs) \/ "rebuild" \in late

\* An interface that is closed has freed its interrupts and rings and is down: closing
\* "is not allowed to fail", and nothing else would free them.
ClosedIsFreed == ~running /\ rtnl = None => down /\ ~rings /\ ~irqs

\* When nobody holds rtnl, DOWN says whether NAPI is enabled and the timer is set: down
\* and up never meet, and are never done twice (napi_enable and napi_disable must
\* alternate).
DownUpAlternate ==
  rtnl = None => /\ napi = ~down /\ (timer # "off") = ~down /\ (txOn => ~down)
                 /\ ~resetting

\* An interface that is running, attached and has its device is up whenever nobody is at
\* work on it: no restart leaves it down half-way, and no stale look at hw_addr takes it
\* down.
RunningIsUp ==
  running /\ present /\ hwAddr /\ power = "active" /\ rtnl = None /\ todo["pm"] = <<>> => ~down

\* SERVICE_SCHED is set exactly while the work item is queued or running: otherwise the
\* service task would never be scheduled again, or trip over its BUG_ON.
ServiceScheduled == removing \/ (sched <=> work # "idle")

\* When ixgbevf_remove has freed the adapter, the timer is off and nothing is allocated;
\* nor is the service task left, unless the timer, which tests REMOVING and then calls
\* schedule_work (main.c 140), had queued it again after SetRemoving: cancel_work_sync
\* (6163) comes too early for that, and nothing cancels it later.
RemovedIsQuiet ==
  power = "gone" =>
    /\ timer = "off" /\ down /\ ~rings /\ ~irqs /\ ~vectors
    /\ work = "idle" \/ "requeue" \in late

\* The resets of resume and slot_reset, made without rtnl, meet no other reset and no
\* adapter that is coming up.
ResetAlone ==
  At("pm", "reset") /\ rtnl # "pm" =>
    /\ down
    /\ rtnl # None => ~\E s \in {"reset", "configure", "up_complete", "up_start"} : At(rtnl, s)

\* Every call comes to an end: nobody waits for rtnl, for the timer or for the service
\* task while they wait for it.
CallsReturn == \A c \in Callers : todo[c] # <<>> ~> todo[c] = <<>> \/ ~Going

\* A reset that is asked for while the adapter is up is done, or the adapter goes down by
\* itself: either takes it through DOWN.  That the request bit is cleared is not enough,
\* for ixgbevf_reset_subtask clears it before it waits for rtnl and looks at the bits again.
ResetServed == (resetReq /\ ~down) ~> (down \/ removing \/ ~Going)

\* An adapter that has lost its device is taken down.
RemovalHandled == (~hwAddr /\ ~down) ~> (down \/ hwAddr \/ ~Going)

\* The bits that ixgbevf_down, ixgbevf_up_complete and the service task go by say what is
\* the case.
BitsTell == TypeOK /\ DownUpAlternate /\ ServiceScheduled

\* However open, close, ixgbevf_reinit_locked and the PCI callbacks interleave, what runs has
\* what it runs on, and what should run does.
UpHasRings == ActiveHasRings /\ RunningIsUp

\* What ixgbevf_suspend, ixgbevf_close or ixgbevf_remove has taken down has given everything
\* up, and the service task and its timer leave it alone.
GivenUp == SuspendedIsDown /\ ClosedIsFreed /\ RemovedIsQuiet

\* The service task serves what is asked of it, a reset or the loss of the device.
RequestsServed == ResetServed /\ RemovalHandled
=============================================================================
