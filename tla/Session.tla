------------------------------- MODULE Session ------------------------------
(***************************************************************************)
(* The VF's session with the PF: reset, negotiation of the API version and *)
(* of the features, the choice of mailbox operations, the queue layout the *)
(* PF dictates, and the link state, with a PF that restarts (as another    *)
(* version of itself, perhaps), loses messages and sends its own.          *)
(*                                                                         *)
(* Two actors: whoever holds rtnl takes the adapter through down, reset    *)
(* and up (the user, or the service task for a requested reset), and the   *)
(* service task looks at the link.  A request and its reply are one step   *)
(* here; Mailbox has the registers below it, and Exchange says what is     *)
(* left of them.  The PF is external.                                      *)
(***************************************************************************)
EXTENDS Integers, Sequences

CONSTANTS
  Devs,       \* kinds of device to look at, see Dev
  Tops,       \* versions of the PF driver, by the newest API they speak
  MaxEvents   \* bound on what disturbs the session: restarts and link changes of the PF,
              \* exchanges lost or crossed by a control message, resets by the user

\* an older device, E610, and a Hyper-V guest, which has no mailbox
Dev == {"vf", "e610", "hv"}

\* ixgbevf_negotiate_api tries these in turn
Versions == <<17, 16, 15, 13, 12, 11, 10>>

ASSUME SessionAssumption ==
  /\ Devs \subseteq Dev
  /\ Tops \subseteq {Versions[i] : i \in DOMAIN Versions}
  /\ MaxEvents \in Nat

VARIABLES
  dev,                       \* never changes
  pfUp, pfTop, pfTcs, pfLink, \* the PF: running, version, traffic classes, link
  cts, pfApi,                \* what it holds about the VF: clear to send, API version
  word, unread, rst, irq,    \* mailbox header, PFSTS, RSTI/RSTD, interrupt
  api, newer, feats,         \* hw->api_version, mailbox operations, PF_SUP_ESX_MBX
  muted, stopped, getlink,   \* mbx.timeout = 0, adapter_stopped, get_link_status
  linkUp, linkState, carrier,
  queues,                    \* the layout in use: "one", "rss" or "tcs"
  down, resetting, resetReq, queueReq,
  recent,                    \* last_reset lies less than ten seconds back
  seq, kind, idx,            \* the holder of rtnl: its place, what it does, loop index
  svc, sched,                \* the service task: its place, and whether it is queued
  events                     \* what is left of MaxEvents

pfVars == <<pfUp, pfTop, pfTcs, pfLink, cts, pfApi>>
mbxVars == <<word, unread, rst, irq>>
hwVars == <<api, newer, feats, muted, stopped, getlink>>
linkVars == <<linkUp, linkState, carrier>>
bitVars == <<down, resetting, resetReq, queueReq>>
seqVars == <<seq, kind, idx>>
svcVars == <<svc, sched>>
vars == <<dev, pfVars, mbxVars, hwVars, linkVars, queues, bitVars, recent, seqVars, svcVars,
          events>>

Hv == dev = "hv"

\* An interface that ixgbevf_open has just brought up.
Init ==
  /\ dev \in Devs
  /\ pfUp = TRUE /\ pfTop \in Tops /\ pfTcs = FALSE /\ pfLink = TRUE
  /\ cts = ~Hv /\ pfApi = (IF Hv THEN 10 ELSE pfTop)
  /\ word = "cts" /\ unread = FALSE /\ rst = FALSE /\ irq = FALSE
  /\ api = pfApi /\ feats = (~Hv /\ pfTop \in {15, 17}) /\ newer = feats
  /\ muted = FALSE /\ stopped = FALSE /\ getlink = TRUE
  /\ linkUp = FALSE /\ linkState = TRUE /\ carrier = FALSE
  /\ queues = IF api > 10 THEN "rss" ELSE "one"
  /\ down = FALSE /\ resetting = FALSE /\ resetReq = FALSE /\ queueReq = FALSE
  /\ recent = TRUE
  /\ seq = "idle" /\ kind = "none" /\ idx = 1
  /\ svc = "idle" /\ sched = FALSE
  /\ events = MaxEvents

-----------------------------------------------------------------------------
(* A request and its reply: ixgbevf_write_msg_read_ack.                    *)

\* How it can end: not tried, for the mailbox has no timeout; no answer, before or
\* after the PF has acted; success; refusal, with or without CTS; or a control message
\* is read in place of the reply, before or after the PF has acted.
Unserved == {"config", "lost", "nonack", "nack", "ping"}
Served == {"ok", "lostReply", "pingReply"}
Faulty == {"lost", "lostReply", "ping", "pingReply"}
Outcomes == Unserved \cup Served
Crossed == {"ping", "pingReply"}

\* the PF answers VF_RESET whether the VF is clear to send or not
Possible(out, isReset, accepted) ==
  IF muted THEN out = "config"
  ELSE IF Hv \/ ~pfUp THEN out = "lost"
  ELSE \/ events > 0 /\ out \in Faulty /\ (out \in Served => accepted /\ (cts \/ isReset))
       \/ out = IF ~cts /\ ~isReset THEN "nonack" ELSE IF accepted THEN "ok" ELSE "nack"

\* The header left in the buffer: with CTS, a refusal without CTS, or neither (the
\* request itself, the reply to VF_RESET).  The legacy read leaves PFSTS set until the
\* next write.  A PF that has not cleared the VF to send (clear: afterwards) answers its
\* acknowledgement with a NACK.
Traffic(out, clear, reply) ==
  LET read == IF out \in Crossed THEN "cts" ELSE reply
  IN  /\ events' = IF out \in Faulty /\ pfUp /\ ~Hv THEN events - 1 ELSE events
      /\ word' = IF out = "config" THEN word
                 ELSE IF out = "lost" THEN "plain"
                 ELSE IF clear THEN read ELSE "nonack"
      /\ unread' = IF out = "config" THEN unread
                   ELSE out # "lost" /\ (out = "lostReply" \/ ~clear \/ ~newer)
      /\ irq' = (irq \/ out \in {"lostReply", "nonack"} \cup Crossed)

Request(out, accepted) ==
  Possible(out, FALSE, accepted) /\ Traffic(out, cts, "cts") /\ UNCHANGED rst

-----------------------------------------------------------------------------
(* The holder of rtnl: ixgbevf_reinit_locked, and close and open again.     *)

Goto(label) == seq' = label /\ UNCHANGED <<kind, idx>>

\* mbx_lock, for the requests that take it
MbxFree == svc \notin {"linkread", "linkreadErr"}

Begin(what) ==
  /\ seq = "idle"
  /\ kind' = what /\ idx' = 1
  /\ IF what = "open"
       THEN seq' = (IF stopped THEN "reset" ELSE "dcb") /\ UNCHANGED <<down, resetting>>
       ELSE seq' = "down" /\ down' = TRUE /\ resetting' = (what = "reinit")

\* An MTU or ring change: down and up; or the interface is closed and opened again
\* after a failed open.
UserReinit ==
  /\ events > 0 /\ ~down /\ events' = events - 1
  /\ Begin("reinit")
  /\ UNCHANGED <<dev, pfVars, mbxVars, hwVars, linkVars, queues, resetReq, queueReq, recent,
                 svcVars>>

UserReopen ==
  /\ down /\ Begin("open")
  /\ UNCHANGED <<dev, pfVars, mbxVars, hwVars, linkVars, queues, resetReq, queueReq, recent,
                 svcVars, events>>

\* ixgbevf_down, from netif_carrier_off to timer_delete_sync
DownCarrier ==
  /\ seq = "down"
  /\ carrier' = FALSE
  /\ Goto("reset")
  /\ UNCHANGED <<dev, pfVars, mbxVars, hwVars, linkUp, linkState, queues, bitVars, recent,
                 svcVars, events>>

\* ixgbe_check_for_rst_vf clears the bit it finds; a PF that is down keeps setting it
CheckForRst == rst' = ~pfUp

\* ixgbe_stop_adapter_vf: the rings are stopped, and pending causes cleared
StopAdapter == stopped' = TRUE /\ irq' = FALSE

\* ixgbe_init_mbx_params_vf: the legacy operations
InitMbxParams == newer' = FALSE /\ muted' = FALSE

\* ixgbevf_hv_reset_hw_vf reads the address from config space, and nothing else
HvResetHw == Goto("init") /\ UNCHANGED <<stopped, api, newer, muted, rst, irq>>

\* ixgbe_reset_hw_vf up to the wait for the PF's reset to end (ixgbe_check_for_rst_vf),
\* which fails when the PF is down.
ResetHw ==
  /\ seq = "reset"
  /\ IF Hv
       THEN HvResetHw
       ELSE /\ StopAdapter /\ api' = 10 /\ InitMbxParams
            /\ CheckForRst
            /\ Goto(IF pfUp THEN "vfreset" ELSE "after")
  /\ UNCHANGED <<dev, pfVars, word, unread, feats, getlink, linkVars, queues, bitVars,
                 recent, svcVars, events>>

\* VF_RESET, without mbx_lock; the PF forgets the VF's version and lets it send.
VfReset(out) ==
  /\ seq = "vfreset"
  /\ Possible(out, TRUE, TRUE)
  /\ cts' = (cts \/ out \in Served) /\ pfApi' = IF out \in Served THEN 10 ELSE pfApi
  /\ Traffic(out, cts', "plain")
  /\ Goto(IF out = "ok" THEN "init" ELSE "after")
  /\ UNCHANGED <<dev, pfUp, pfTop, pfTcs, pfLink, rst, hwVars, linkVars, queues, bitVars,
                 recent, svcVars>>

\* ixgbe_init_hw_vf
InitHw ==
  /\ seq = "init"
  /\ stopped' = FALSE
  /\ Goto("neg")
  /\ UNCHANGED <<dev, pfVars, mbxVars, api, newer, feats, muted, getlink, linkVars, queues,
                 bitVars, recent, svcVars, events>>

\* Mutant: the first answer of any kind ends the search.
NegotiatedAny(out) == out \in {"ok", "nack"}

\* ixgbevf_negotiate_api_version: the reply is this request's, and a success
Negotiated(out) == out = "ok"

TriedAll == idx = Len(Versions)

\* ixgbevf_hv_negotiate_api_version_vf
HvNegotiated(v) == v = 10

\* One turn of the loop of ixgbevf_negotiate_api, under mbx_lock from the first to the
\* features.  Hyper-V accepts version 1.0, and sends no message.
NegotiateApi(out) ==
  /\ seq = "neg" /\ (idx = 1 => MbxFree)
  /\ LET v == Versions[idx]
     IN  IF Hv
           THEN /\ out = "lost" /\ UNCHANGED <<mbxVars, pfVars, events, api>>
                /\ IF HvNegotiated(v) THEN seq' = "feat" /\ idx' = 1
                                      ELSE idx' = idx + 1 /\ UNCHANGED seq
           ELSE /\ Request(out, v <= pfTop)
                /\ pfApi' = IF out \in Served THEN v ELSE pfApi
                /\ UNCHANGED <<pfUp, pfTop, pfTcs, pfLink, cts>>
                /\ IF Negotiated(out) \/ TriedAll
                     THEN seq' = "feat" /\ idx' = 1
                     ELSE idx' = idx + 1 /\ UNCHANGED seq
                /\ api' = IF Negotiated(out) THEN v ELSE api
  /\ UNCHANGED <<dev, newer, feats, muted, stopped, getlink, linkVars, queues, bitVars, recent,
                 kind, svcVars>>

\* ixgbe_upgrade_mbx_params_vf
Upgrade(f) == newer' = (newer \/ f) /\ muted' = (muted /\ ~f)

\* ixgbevf_negotiate_features_vf: the word read with a control message is the request's own
NegotiateFeatures(out) == Request(out, TRUE) /\ feats' = (out \in {"ok"} \cup Crossed)

\* ixgbevf_set_features: only API 1.7 asks; below 1.7 the features stay as they were, 1.5 adds
\* the new mailbox.
SetFeatures(out) ==
  /\ seq = "feat"
  /\ IF api = 17
       THEN NegotiateFeatures(out)
       ELSE /\ out = "lost" /\ feats' = (feats \/ api = 15)
            /\ UNCHANGED <<mbxVars, events>>
  /\ Upgrade(feats')
  /\ Goto("after")
  /\ UNCHANGED <<dev, pfVars, api, stopped, getlink, linkVars, queues, bitVars, recent,
                 svcVars>>

\* The end of ixgbevf_reset, and where its callers go on: ixgbevf_up, the new vectors of a
\* queue reset, or ixgbevf_open, which gives up if the adapter is still stopped.
AfterReset ==
  /\ seq = "after"
  /\ recent' = TRUE
  /\ Goto(IF kind = "queue" THEN "queues"
          ELSE IF kind = "open" /\ stopped THEN "end" ELSE "dcb")
  /\ UNCHANGED <<dev, pfVars, mbxVars, hwVars, linkVars, queues, bitVars, svcVars, events>>

\* ixgbevf_get_queues: not before API 1.1
AskQueues(out) ==
  /\ MbxFree
  /\ IF api >= 11 THEN Request(out, TRUE)
                  ELSE out = "lost" /\ UNCHANGED <<mbxVars, events>>

\* ixgbevf_init_interrupt_scheme, ixgbevf_set_num_queues, then ixgbevf_open
SetNumQueues(out) ==
  /\ seq = "queues"
  /\ AskQueues(out)
  /\ queues' = IF api < 11 \/ out # "ok" THEN "one" ELSE IF pfTcs THEN "tcs" ELSE "rss"
  /\ seq' = (IF stopped THEN "reset" ELSE "dcb") /\ kind' = "open" /\ UNCHANGED idx
  /\ UNCHANGED <<dev, pfVars, hwVars, linkVars, bitVars, recent, svcVars>>

\* ixgbevf_configure_dcb: another layout silences the mailbox and asks for a queue reset.
ConfigureDcb(out) ==
  /\ seq = "dcb"
  /\ AskQueues(out)
  /\ IF api >= 11 /\ out = "ok" /\ pfTcs /\ queues # "tcs"
       THEN muted' = TRUE /\ queueReq' = TRUE
       ELSE UNCHANGED <<muted, queueReq>>
  /\ Goto("filters")
  /\ UNCHANGED <<dev, pfVars, api, newer, feats, stopped, getlink, linkVars, queues, down,
                 resetting, resetReq, recent, svcVars>>

\* The rest of ixgbevf_configure, and set_rar: filter requests (see Filters), here one.
SendFilters(out) ==
  /\ seq = "filters" /\ MbxFree
  /\ IF Hv THEN out = "lost" /\ UNCHANGED <<mbxVars, events>>
           ELSE Request(out, TRUE)
  /\ Goto("linkstate")
  /\ UNCHANGED <<dev, pfVars, hwVars, linkVars, queues, bitVars, recent, svcVars>>

\* ixgbe_get_link_state_vf, without mbx_lock; PFs before API 1.6 do not know the request.
\* A control message is no refusal: the word read is the request's own 0, or the reply's.
GetLinkState(out) ==
  /\ seq = "linkstate"
  /\ Request(out, pfTop >= 16)
  /\ linkState' = IF out \in {"ok", "pingReply"} THEN TRUE
                  ELSE IF out = "ping" THEN FALSE ELSE linkState
  /\ Goto("up")
  /\ UNCHANGED <<dev, pfVars, hwVars, linkUp, carrier, queues, bitVars, recent, svcVars>>

\* ixgbevf_up_complete from the clearing of DOWN on
UpComplete ==
  /\ seq = "up"
  /\ down' = FALSE /\ getlink' = TRUE /\ irq' = FALSE
  /\ Goto("end")
  /\ UNCHANGED <<dev, pfVars, word, unread, rst, api, newer, feats, muted, stopped, linkVars,
                 queues, resetting, resetReq, queueReq, recent, svcVars, events>>

\* RESETTING is cleared and rtnl dropped; the service task, if it was this one, goes on.
End ==
  /\ seq = "end"
  /\ resetting' = FALSE
  /\ seq' = "idle" /\ kind' = "none" /\ idx' = 1
  /\ svc' = IF svc = "inqueue" THEN "reset" ELSE IF svc = "inreset" THEN "watch" ELSE svc
  /\ UNCHANGED <<dev, pfVars, mbxVars, hwVars, linkVars, queues, down, resetReq, queueReq,
                 recent, sched, events>>

-----------------------------------------------------------------------------
(* The service task.                                                       *)

\* ixgbevf_service_event_schedule, by the timer (which runs unless the adapter is down)
ServiceTimer ==
  /\ ~down /\ svc = "idle" /\ ~sched
  /\ sched' = TRUE
  /\ UNCHANGED <<dev, pfVars, mbxVars, hwVars, linkVars, queues, bitVars, recent, seqVars, svc,
                 events>>

\* ixgbevf_msix_other
MiscIrq ==
  /\ irq /\ ~down
  /\ irq' = FALSE /\ getlink' = TRUE
  /\ sched' = (sched \/ svc = "idle")
  /\ UNCHANGED <<dev, pfVars, word, unread, rst, api, newer, feats, muted, stopped, linkVars,
                 queues, bitVars, recent, seqVars, svc, events>>

\* Mutant: the test of RESETTING is the wrong way round.
QueueResetInverted == queueReq /\ ~down /\ resetting

QueueResetDue == queueReq /\ ~down /\ ~resetting

\* ixgbevf_queue_reset_subtask up to rtnl_lock: the request is gone before the bits are
\* looked at.
QueueReset ==
  /\ svc = "idle" /\ sched
  /\ sched' = FALSE /\ queueReq' = FALSE
  /\ svc' = IF QueueResetDue THEN "queuelock" ELSE "reset"
  /\ UNCHANGED <<dev, pfVars, mbxVars, hwVars, linkVars, queues, down, resetting, resetReq,
                 recent, seqVars, events>>

\* rtnl_lock, ixgbevf_close (which does nothing to an adapter that is down), ...
QueueResetLocked ==
  /\ svc = "queuelock" /\ seq = "idle"
  /\ svc' = "inqueue" /\ kind' = "queue" /\ idx' = 1
  /\ down' = TRUE
  /\ seq' = IF down THEN "queues" ELSE "down"
  /\ UNCHANGED <<dev, pfVars, mbxVars, hwVars, linkVars, queues, resetting, resetReq, queueReq,
                 recent, sched, events>>

\* ixgbevf_reset_subtask
ResetSubtask ==
  /\ svc = "reset"
  /\ resetReq' = FALSE
  /\ svc' = IF resetReq THEN "resetlock" ELSE "watch"
  /\ UNCHANGED <<dev, pfVars, mbxVars, hwVars, linkVars, queues, down, resetting, queueReq,
                 recent, seqVars, sched, events>>

ResetLocked ==
  /\ svc = "resetlock" /\ seq = "idle"
  /\ IF down \/ resetting
       THEN svc' = "watch" /\ UNCHANGED <<seqVars, down, resetting>>
       ELSE svc' = "inreset" /\ Begin("reinit")
  /\ UNCHANGED <<dev, pfVars, mbxVars, hwVars, linkVars, queues, resetReq, queueReq, recent,
                 sched, events>>

\* ixgbevf_watchdog_subtask, first lines
Watchdog ==
  /\ svc = "watch"
  /\ svc' = IF down \/ resetting THEN "idle" ELSE "check"
  /\ UNCHANGED <<dev, pfVars, mbxVars, hwVars, linkVars, queues, bitVars, recent, seqVars, sched,
                 events>>

\* ixgbevf_watchdog_update_link after check_link has returned
LinkChecked(up, err) ==
  /\ linkUp' = (up /\ ~(err /\ ~recent))
  /\ resetReq' = (resetReq \/ (err /\ ~recent))
  /\ svc' = "carrier"

\* no reset seen, no silenced mailbox
StillUp == ~getlink /\ ~rst /\ ~muted

\* ixgbevf_hv_check_mac_link_e6xx may fail to read the link state, and then leaves the
\* answer as it was
HvLinkUnread ==
  /\ getlink /\ events > 0 /\ events' = events - 1
  /\ UNCHANGED getlink /\ LinkChecked(linkUp, TRUE)

\* ixgbevf_hv_check_mac_link_vf
CheckLinkHv(fails) ==
  /\ svc = "check" /\ Hv
  /\ IF fails
       THEN HvLinkUnread
       ELSE /\ getlink' = (getlink /\ ~pfLink) /\ LinkChecked(~getlink', FALSE)
            /\ UNCHANGED events
  /\ UNCHANGED <<dev, pfVars, mbxVars, api, newer, feats, muted, stopped, linkState, carrier,
                 queues, down, resetting, queueReq, recent, seqVars, sched>>

\* ixgbe_read_vflinks, or SPEED and UP of the register that the device has
ReadVflinks == pfLink

\* ixgbe_check_mac_link_vf up to the mailbox read, under mbx_lock.  The link is known to
\* be up, the register says, or E610 asks an older PF in vain: that error stays, and
\* whatever the register says it goes on.
CheckLinkQuick ==
  /\ svc = "check" /\ ~Hv /\ seq \notin {"neg", "feat"}
  /\ CheckForRst
  /\ \/ StillUp /\ UNCHANGED getlink /\ LinkChecked(TRUE, FALSE)
     \/ /\ ~StillUp /\ dev = "vf" /\ getlink' = TRUE
        /\ IF ReadVflinks THEN svc' = "linkread" /\ UNCHANGED <<linkUp, resetReq>>
                     ELSE LinkChecked(FALSE, FALSE)
     \/ /\ ~StillUp /\ dev = "e610" /\ api < 16 /\ getlink' = TRUE
        /\ svc' = "linkreadErr" /\ UNCHANGED <<linkUp, resetReq>>
  /\ UNCHANGED <<dev, pfVars, word, unread, irq, api, newer, feats, muted, stopped, linkState,
                 carrier, queues, down, resetting, queueReq, recent, seqVars, sched, events>>

\* E610 asks the PF (ixgbevf_get_pf_link_state); no answer is no error.
CheckLinkAsk(out) ==
  /\ svc = "check" /\ dev = "e610" /\ api >= 16 /\ seq \notin {"neg", "feat"}
  /\ ~StillUp
  /\ getlink' = TRUE /\ CheckForRst
  /\ Possible(out, FALSE, TRUE) /\ Traffic(out, cts, "cts")
  /\ IF pfLink /\ out \in {"ok", "pingReply"}
       THEN svc' = "linkread" /\ UNCHANGED <<linkUp, resetReq>>
       ELSE LinkChecked(FALSE, out \in {"nack", "nonack"})
  /\ UNCHANGED <<dev, pfVars, api, newer, feats, muted, stopped, linkState, carrier, queues, down,
                 resetting, queueReq, recent, seqVars, sched>>

\* the read fails: no message (newer operations), or no lock without a timeout (legacy)
NoMessage == IF newer THEN ~unread ELSE muted

\* Mutant: a refusal is recognised only with CTS.
LostCtsNever == word = "nonack" /\ word = "cts"

\* "msg is not CTS and is NACK we must have lost CTS status"
LostCts == word = "nonack"

\* The mailbox read of ixgbe_check_mac_link_vf, and what its message says: the PF is
\* talking, or has forgotten the VF.
LinkRead ==
  LET refused == pfUp /\ ~cts
      before == svc = "linkreadErr"
  IN
  /\ svc \in {"linkread", "linkreadErr"}
  /\ IF NoMessage
       THEN /\ getlink' = (getlink /\ api < 15)
            /\ LinkChecked(~getlink', before)
            /\ UNCHANGED <<word, unread, irq>>
       ELSE /\ word' = IF refused THEN "nonack" ELSE word
            /\ unread' = (refused \/ (unread /\ ~newer))
            /\ irq' = (irq \/ refused)
            /\ getlink' = (getlink /\ (word # "cts" \/ muted))
            /\ LinkChecked(~getlink', before \/ LostCts \/ (word = "cts" /\ muted))
  /\ UNCHANGED <<dev, pfVars, rst, api, newer, feats, muted, stopped, linkState, carrier, queues,
                 down, resetting, queueReq, recent, seqVars, sched, events>>

\* Mutant: the carrier is only ever taken away.
CarrierKept == carrier /\ linkUp /\ linkState

CarrierDue == linkUp /\ linkState

\* ixgbevf_watchdog_link_is_up, ixgbevf_watchdog_link_is_down
SetCarrier ==
  /\ svc = "carrier"
  /\ carrier' = CarrierDue
  /\ svc' = "idle"
  /\ UNCHANGED <<dev, pfVars, mbxVars, hwVars, linkUp, linkState, queues, bitVars, recent,
                 seqVars, sched, events>>

\* time_after(jiffies, last_reset + 10 * HZ) becomes true
TenSeconds ==
  /\ recent /\ seq = "idle" /\ recent' = FALSE
  /\ UNCHANGED <<dev, pfVars, mbxVars, hwVars, linkVars, queues, bitVars, seqVars, svcVars, events>>

-----------------------------------------------------------------------------
(* The PF driver (external).  Its pings carry CTS while the VF has it.      *)

Post(header) == word' = header /\ unread' = TRUE /\ irq' = TRUE

PfDown ==
  /\ ~Hv /\ pfUp /\ events > 0 /\ events' = events - 1
  /\ pfUp' = FALSE /\ cts' = FALSE /\ rst' = TRUE
  /\ Post("plain")
  /\ UNCHANGED <<dev, pfTop, pfTcs, pfLink, pfApi, hwVars, linkVars, queues, bitVars, recent,
                 seqVars, svcVars>>

\* It comes back, of another version perhaps, and with or without traffic classes.
PfBack(top, tcs) ==
  /\ ~pfUp
  /\ pfUp' = TRUE /\ pfTop' = top /\ pfTcs' = tcs /\ pfApi' = 10
  /\ Post("plain")
  /\ UNCHANGED <<dev, pfLink, cts, rst, hwVars, linkVars, queues, bitVars, recent, seqVars,
                 svcVars, events>>

PfLinkChange ==
  /\ pfUp /\ events > 0 /\ events' = events - 1
  /\ pfLink' = ~pfLink
  /\ IF Hv THEN irq' = TRUE /\ UNCHANGED <<word, unread>>
           ELSE Post(IF cts THEN "cts" ELSE "plain")
  /\ UNCHANGED <<dev, pfUp, pfTop, pfTcs, cts, pfApi, rst, hwVars, linkVars, queues, bitVars,
                 recent, seqVars, svcVars>>

-----------------------------------------------------------------------------
SeqStep ==
  \/ DownCarrier \/ ResetHw \/ InitHw \/ AfterReset \/ UpComplete \/ End
  \/ \E out \in Outcomes :
       \/ VfReset(out) \/ NegotiateApi(out) \/ SetFeatures(out) \/ SetNumQueues(out)
       \/ ConfigureDcb(out) \/ SendFilters(out) \/ GetLinkState(out)

SvcStep ==
  \/ QueueReset \/ QueueResetLocked \/ ResetSubtask \/ ResetLocked \/ Watchdog
  \/ CheckLinkQuick \/ LinkRead \/ SetCarrier
  \/ \E fails \in BOOLEAN : CheckLinkHv(fails)
  \/ \E out \in Outcomes : CheckLinkAsk(out)

Pf ==
  \/ PfDown \/ PfLinkChange
  \/ \E top \in Tops, tcs \in BOOLEAN : PfBack(top, tcs)

Next ==
  SeqStep \/ SvcStep \/ UserReinit \/ UserReopen \/ ServiceTimer \/ MiscIrq \/ TenSeconds \/ Pf

Spec == Init /\ [][Next]_vars

\* The holder of rtnl and the service task run; the timer fires every two seconds, and
\* ten seconds pass; interrupts are delivered.
Fairness ==
  WF_vars(SeqStep) /\ WF_vars(SvcStep) /\ WF_vars(ServiceTimer) /\ WF_vars(MiscIrq)
  /\ WF_vars(TenSeconds)
FairSpec == Spec /\ Fairness

-----------------------------------------------------------------------------
(* Properties.                                                             *)

\* Type invariant of the session.
TypeOK ==
  /\ {pfUp, pfTcs, pfLink, cts, unread, rst, irq, newer, feats, muted, stopped, getlink, linkUp,
      linkState, carrier, down, resetting, resetReq, queueReq, recent, sched} \subseteq BOOLEAN
  /\ dev \in Dev /\ pfTop \in Tops
  /\ {api, pfApi} \subseteq {Versions[i] : i \in DOMAIN Versions}
  /\ word \in {"cts", "nonack", "plain"}
  /\ queues \in {"one", "rss", "tcs"}
  /\ seq \in {"idle", "down", "reset", "vfreset", "init", "neg", "feat", "after", "queues", "dcb",
              "filters", "linkstate", "up", "end"}
  /\ kind \in {"none", "reinit", "queue", "open"} /\ idx \in DOMAIN Versions
  /\ svc \in {"idle", "queuelock", "inqueue", "reset", "resetlock", "inreset", "watch", "check",
              "linkread", "linkreadErr", "carrier"}
  /\ events \in 0 .. MaxEvents

\* A version above 1.0 is one the PF has agreed to in this very session: replies lost or
\* taken for others in the loop of ixgbevf_negotiate_api do not leave the two apart.
ApiAgreed == ~Hv /\ cts /\ ~stopped /\ api # 10 => pfApi = api

\* A mailbox that ixgbevf_configure_dcb has silenced speaks again, once the reset that
\* goes with it is over and its request still stands: "wait for watchdog to come around
\* and bail us out".
MuteEnds == (muted /\ queueReq /\ seq = "idle") ~> ~muted

\* nobody is bringing the interface up again
LeftDown == down /\ seq = "idle"

\* the last request was never answered, and lies in the buffer
Unanswered == word = "plain" /\ ~unread

\* A PF that has restarted and so refuses the VF's messages has them again, although all
\* it can do is to refuse: the watchdog of a VF that is up finds out, and resets.
SessionRestored ==
  (pfUp /\ ~cts /\ pfLink /\ ~Hv) ~> (cts \/ ~pfUp \/ ~pfLink \/ LeftDown \/ Unanswered)

\* With the link and the PF there, ixgbevf_watchdog_subtask turns the carrier on, unless
\* a legacy reader finds its own last request in the buffer, the newer operations are
\* left over from a PF that knew them (3051), or the mailbox was silenced and
\* the queue reset has been forgotten (MuteEnds).
CarrierComes ==
  (pfUp /\ pfLink) ~>
    \/ carrier \/ ~pfUp \/ ~pfLink \/ ~linkState \/ LeftDown
    \/ word = "plain" /\ ~newer /\ ~Hv
    \/ newer /\ api < 15
    \/ muted /\ ~queueReq

\* The two drivers never act on different ideas of the version they speak, however often
\* ixgbevf_negotiate_api is cut short.
SessionInv == TypeOK /\ ApiAgreed
=============================================================================
