------------------------------- MODULE Filters ------------------------------
(***************************************************************************)
(* What the VF has the PF filter for it: receive mode, multicast and       *)
(* unicast addresses, VLANs, its MAC address and the largest frame.  The   *)
(* stack changes its address lists under netif_addr_lock; everything else, *)
(* and the reset after which the PF has forgotten all of it, runs under    *)
(* rtnl.  Every request takes mbx_lock, and may be refused, lost, served   *)
(* without an answer, or refused behind a control message that is read in  *)
(* place of the refusal.  The PF and the stack are external.               *)
(***************************************************************************)
EXTENDS Integers, Sequences, FiniteSets

CONSTANTS
  Addrs,      \* multicast addresses, and unicast addresses
  Vids,       \* VLANs
  McMax,      \* how many multicast addresses fit into a message (30)
  MaxChanges, \* bound on what the stack and the administrator change
  MaxFaults   \* bound on requests that go wrong

ASSUME FiltersAssumption ==
  /\ IsFiniteSet(Addrs) /\ IsFiniteSet(Vids)
  /\ McMax \in Nat \ {0} /\ MaxChanges \in Nat /\ MaxFaults \in Nat

\* xcast modes IXGBEVF_XCAST_MODE_NONE .. PROMISC
XcastModes == 0 .. 3
\* frame sizes, and the stack's two contexts
Sizes == {1, 2}
Threads == {"rtnl", "addr"}
Macs == {"own", "other", "admin"}

VARIABLES
  hostApi,                     \* API version agreed on, or 0 under Hyper-V; never changes
  api,                         \* hw->api_version
  rxFlags, mcList, ucList, devAddr, mtu,          \* the net_device
  vlansUp,                     \* VLANs the stack was told are set
  activeVlans, macAddr, permAddr,                 \* the adapter
  pfMode, pfMc, pfUc, pfVlans, pfMac, pfFixed, pfMax,  \* the PF's filters for this VF
  fpc, job, cnt, xmode, pos,   \* per thread: place, why; captured count and mode; walk
  vidsLeft,                    \* VLANs that ixgbevf_restore_vlan still has to add
  mbxOwner,                    \* who has mbx_lock across steps
  stale,                       \* per thread: the list changed after its length had been read
  apart,                       \* where PF and VF may differ: a request has gone wrong
  changes, faults

netVars == <<rxFlags, mcList, ucList, devAddr, mtu, vlansUp>>
drvVars == <<api, activeVlans, macAddr, permAddr>>
pfFilters == <<pfMode, pfMc, pfUc, pfVlans, pfMac, pfFixed, pfMax>>
walkVars == <<fpc, job, cnt, xmode, pos, vidsLeft, mbxOwner>>
filterVars == <<hostApi, netVars, drvVars, pfFilters, walkVars, stale, apart, changes, faults>>

HyperV == hostApi = 0

\* the versions that ixgbevf_negotiate_api may settle on
Versions == {0, 10, 11, 12, 13, 15, 16, 17}

\* An interface that is up and configured, with nothing but its address.
FiltersInit(apis) ==
  /\ hostApi \in apis /\ api = hostApi
  /\ rxFlags = 1 /\ mcList = <<>> /\ ucList = <<>> /\ devAddr = "own" /\ mtu = 1
  /\ vlansUp = {}
  /\ activeVlans = {} /\ macAddr = "own" /\ permAddr = "own"
  /\ pfMode = (IF hostApi \in {0, 10, 11} THEN 0 ELSE 1) /\ pfMc = {} /\ pfUc = {}
  /\ pfVlans = {} /\ pfMac = "own" /\ pfFixed = FALSE /\ pfMax = 1
  /\ fpc = [t \in Threads |-> "idle"] /\ job = "none"
  /\ cnt = [t \in Threads |-> 0] /\ xmode = [t \in Threads |-> 0]
  /\ pos = [t \in Threads |-> 0]
  /\ vidsLeft = {} /\ mbxOwner = "none" /\ apart = IF hostApi < 12 THEN {"mode"} ELSE {}
  /\ stale = [t \in Threads |-> FALSE]
  /\ changes = MaxChanges /\ faults = MaxFaults

-----------------------------------------------------------------------------
(* A request: ixgbevf_write_msg_read_ack and the look at its reply.        *)

\* ok: acted on; nack: refused; lost: not taken; late: acted on, no answer; crossed:
\* refused, but a control message is taken for the reply
Replies == {"ok", "nack", "lost", "late", "crossed"}
Acted(out) == out \in {"ok", "late"}
Believed(out) == out \in {"ok", "crossed"}

Reply(out, accepted) ==
  /\ Acted(out) => accepted
  /\ LET usual == out = IF accepted THEN "ok" ELSE "nack"
     IN  (usual \/ faults > 0) /\ faults' = IF usual THEN faults ELSE faults - 1

\* no message is sent: Hyper-V, or a version that has no such request
Unsent(out) == out = "lost" /\ UNCHANGED faults

\* a request that replaces what PF and VF agree on, and one that adds to it
Settles(what, wrong) == apart' = IF wrong THEN apart \cup {what} ELSE apart \ {what}
Diverges(what, wrong) == apart' = IF wrong THEN apart \cup {what} ELSE apart

MbxUnlocked == mbxOwner = "none"

-----------------------------------------------------------------------------
(* ixgbevf_set_rx_mode, called by the stack or by ixgbevf_configure.       *)

At(t, label) == fpc' = [fpc EXCEPT ![t] = label]

\* dev_set_rx_mode holds netif_addr_lock, ixgbevf_configure does not
ByStack(t) == t = "addr" \/ job = "mode"

\* Flags and length of the multicast list are read before mbx_lock is taken.
RxModeRead(t) ==
  /\ fpc[t] = "read" /\ (ByStack("rtnl") => fpc["addr"] = "idle" \/ t = "addr")
  /\ xmode' = [xmode EXCEPT ![t] = rxFlags]
  /\ cnt' = [cnt EXCEPT ![t] = Len(mcList)]
  /\ stale' = [stale EXCEPT ![t] = FALSE]
  /\ At(t, "xcast")
  /\ UNCHANGED <<hostApi, netVars, drvVars, pfFilters, job, pos, vidsLeft, mbxOwner, apart,
                 changes, faults>>

\* ixgbevf_update_xcast_mode: not before API 1.2, and there without promiscuous mode
XcastSent(t) == api >= 13 \/ (api = 12 /\ xmode[t] <= 2)

RxModeXcast(t, out) ==
  /\ fpc[t] = "xcast" /\ MbxUnlocked
  /\ mbxOwner' = t
  /\ IF XcastSent(t)
       THEN /\ Reply(out, TRUE)
            /\ pfMode' = IF Acted(out) THEN xmode[t] ELSE pfMode
            /\ Settles("mode", ~Acted(out))
       ELSE Unsent(out) /\ UNCHANGED pfMode /\ Settles("mode", TRUE)
  /\ At(t, "mc")
  /\ UNCHANGED <<hostApi, netVars, drvVars, pfMc, pfUc, pfVlans, pfMac, pfFixed, pfMax, job, cnt,
                 xmode, pos, vidsLeft, stale, changes>>

\* "if there are more than 30 ... punt the extras"
McCount(t) == IF cnt[t] > McMax THEN McMax ELSE cnt[t]

\* ixgbevf_addr_list_itr walks the list, which by now may be longer than it was, or
\* shorter: then it follows what has been freed.
McSent(t) ==
  IF McCount(t) > Len(mcList) THEN {s \in SUBSET Addrs : Cardinality(s) <= McCount(t)}
  ELSE {{mcList[i] : i \in 1 .. McCount(t)}}

\* ixgbe_update_mc_addr_list_vf
RxModeMc(t, out) ==
  /\ fpc[t] = "mc"
  /\ IF HyperV
       THEN Unsent(out) /\ UNCHANGED <<pfMc, apart>>
       ELSE /\ Reply(out, TRUE)
            /\ pfMc' \in IF Acted(out) THEN McSent(t) ELSE {pfMc}
            /\ Settles("mc", ~Acted(out) \/ stale[t])
  /\ pos' = [pos EXCEPT ![t] = 0]
  /\ At(t, "uc")
  /\ UNCHANGED <<hostApi, netVars, drvVars, pfMode, pfUc, pfVlans, pfMac, pfFixed, pfMax, job,
                 cnt, xmode, vidsLeft, mbxOwner, stale, changes>>

\* ++count
UcIndex(t) == pos[t] + 1

\* what the PF does with SET_MACVLAN: index 1 starts a new list, 0 clears it
UcTaken(index, addr) ==
  IF index = 0 THEN {} ELSE IF index = 1 THEN {addr} ELSE pfUc \cup {addr}

\* ixgbevf_set_uc_addr_vf: the PF, if the message reaches it and it agrees, has the list
\* that goes with the index; a refusal is reported, and the caller does not look.
SetUcAddr(taken, first, out) ==
  /\ Reply(out, TRUE)
  /\ pfUc' = IF Acted(out) THEN taken ELSE pfUc
  /\ IF first THEN Settles("uc", ~Acted(out)) ELSE Diverges("uc", ~Acted(out))

\* One turn of ixgbevf_write_uc_addr_list; the list is walked as it is now.  An empty one
\* is sent as index 0.
RxModeUc(t, out) ==
  /\ fpc[t] = "uc" /\ (pos[t] < Len(ucList) \/ (pos[t] = 0 /\ ucList = <<>>))
  /\ LET taken == IF ucList = <<>> THEN {} ELSE UcTaken(UcIndex(t), ucList[pos[t] + 1])
     IN  IF HyperV
           THEN Unsent(out) /\ UNCHANGED <<pfUc, apart>>
           ELSE SetUcAddr(taken, pos[t] = 0, out)
  /\ pos' = [pos EXCEPT ![t] = @ + 1]
  /\ UNCHANGED <<hostApi, netVars, drvVars, pfMode, pfMc, pfVlans, pfMac, pfFixed, pfMax, fpc,
                 job, cnt, xmode, vidsLeft, mbxOwner, stale, changes>>

\* The walk is over, mbx_lock released; ixgbevf_configure goes on with the VLANs.
RxModeDone(t) ==
  /\ fpc[t] = "uc" /\ pos[t] >= Len(ucList) /\ (ucList = <<>> => pos[t] > 0)
  /\ mbxOwner' = "none"
  /\ pos' = [pos EXCEPT ![t] = 0]
  /\ cnt' = [cnt EXCEPT ![t] = 0] /\ xmode' = [xmode EXCEPT ![t] = 0]
  /\ At(t, IF t = "rtnl" /\ job = "config" THEN "vlans" ELSE "idle")
  /\ vidsLeft' = IF t = "rtnl" /\ job = "config" THEN activeVlans ELSE vidsLeft
  /\ UNCHANGED <<hostApi, netVars, drvVars, pfFilters, job, stale, apart, changes, faults>>

-----------------------------------------------------------------------------
(* The stack's changes.                                                    *)

\* somebody inside ixgbevf_set_rx_mode with netif_addr_lock
AddrLocked == fpc["addr"] # "idle" \/ (job = "mode" /\ fpc["rtnl"] \in {"xcast", "mc", "uc"})

Change == changes > 0 /\ changes' = changes - 1

\* whoever has read the length of the multicast list and not sent it
CountedChange(t) == fpc[t] \in {"xcast", "mc"}

\* dev_mc_add, dev_mc_del: the list changes, and ixgbevf_set_rx_mode is called.
McChange(list) ==
  /\ ~AddrLocked /\ Change
  /\ mcList' = list
  /\ stale' = [t \in Threads |-> stale[t] \/ CountedChange(t)]
  /\ At("addr", "read")
  /\ UNCHANGED <<hostApi, rxFlags, ucList, devAddr, mtu, vlansUp, drvVars, pfFilters, job, cnt,
                 xmode, pos, vidsLeft, mbxOwner, apart, faults>>

McAdd(a) == (\A i \in DOMAIN mcList : mcList[i] # a) /\ McChange(Append(mcList, a))
McDel == mcList # <<>> /\ McChange(Tail(mcList))

\* dev_uc_add, dev_uc_del; a walk under way may go on from anywhere if its place is freed
UcChange(list, places) ==
  /\ ~AddrLocked /\ Change
  /\ ucList' = list
  /\ \E p \in places : pos' = [pos EXCEPT !["rtnl"] = p]
  /\ At("addr", "read")
  /\ UNCHANGED <<hostApi, rxFlags, mcList, devAddr, mtu, vlansUp, drvVars, pfFilters, job, cnt,
                 xmode, vidsLeft, mbxOwner, stale, apart, faults>>

UcAdd(a) ==
  (\A i \in DOMAIN ucList : ucList[i] # a) /\ UcChange(Append(ucList, a), {pos["rtnl"]})
UcDel ==
  /\ ucList # <<>>
  /\ UcChange(Tail(ucList), IF fpc["rtnl"] = "uc" THEN 0 .. Len(ucList) ELSE {pos["rtnl"]})

RtnlFree == fpc["rtnl"] = "idle"

\* dev_change_flags
SetFlags(mode) ==
  /\ RtnlFree /\ Change /\ mode # rxFlags
  /\ rxFlags' = mode
  /\ job' = "mode" /\ At("rtnl", "read")
  /\ UNCHANGED <<hostApi, mcList, ucList, devAddr, mtu, vlansUp, drvVars, pfFilters, cnt, xmode,
                 pos, vidsLeft, mbxOwner, stale, apart, faults>>

\* ixgbe_set_vfta_vf
SetVfta(vid, on, out) ==
  IF HyperV
    THEN Unsent(out) /\ UNCHANGED pfVlans
    ELSE /\ Reply(out, TRUE)
         /\ pfVlans' = IF ~Acted(out) THEN pfVlans
                       ELSE IF on THEN pfVlans \cup {vid} ELSE pfVlans \ {vid}

\* ixgbevf_vlan_rx_add_vid called by the stack
VlanAdd(vid, out) ==
  /\ RtnlFree /\ MbxUnlocked /\ vid \notin vlansUp /\ Change
  /\ SetVfta(vid, TRUE, out)
  /\ activeVlans' = IF Believed(out) THEN activeVlans \cup {vid} ELSE activeVlans
  /\ vlansUp' = IF Believed(out) THEN vlansUp \cup {vid} ELSE vlansUp
  /\ Diverges("vlan", Acted(out) # Believed(out))
  /\ UNCHANGED <<hostApi, rxFlags, mcList, ucList, devAddr, mtu, api, macAddr, permAddr, pfMode,
                 pfMc, pfUc, pfMac, pfFixed, pfMax, walkVars, stale>>

\* ixgbevf_vlan_rx_kill_vid: whatever the PF says, the VLAN is gone
VlanKill(vid, out) ==
  /\ RtnlFree /\ MbxUnlocked /\ vid \in vlansUp /\ Change
  /\ SetVfta(vid, FALSE, out)
  /\ activeVlans' = activeVlans \ {vid} /\ vlansUp' = vlansUp \ {vid}
  /\ Diverges("vlan", ~Acted(out))
  /\ UNCHANGED <<hostApi, rxFlags, mcList, ucList, devAddr, mtu, api, macAddr, permAddr, pfMode,
                 pfMc, pfUc, pfMac, pfFixed, pfMax, walkVars, stale>>

-----------------------------------------------------------------------------
(* MAC address and frame size.                                             *)

\* ixgbe_get_mac_addr_vf: "if nacked the address was rejected, use perm_addr"
Refused == permAddr

\* ixgbe_set_rar_vf and ixgbevf_hv_set_rar_vf: the PF refuses any but the administrator's
SetRar(addr, out) ==
  IF HyperV
    THEN (out = IF addr = permAddr THEN "ok" ELSE "lost") /\ UNCHANGED <<pfMac, faults>>
    ELSE Reply(out, ~pfFixed \/ addr = pfMac) /\ pfMac' = IF Acted(out) THEN addr ELSE pfMac

\* ixgbevf_set_mac
SetMac(addr, out) ==
  /\ RtnlFree /\ MbxUnlocked /\ Change
  /\ SetRar(addr, out)
  /\ IF Believed(out)
       THEN macAddr' = addr /\ permAddr' = addr /\ devAddr' = addr
       ELSE /\ macAddr' = IF out = "nack" THEN Refused ELSE macAddr
            /\ UNCHANGED <<permAddr, devAddr>>
  /\ Diverges("mac", Acted(out) # Believed(out))
  /\ UNCHANGED <<hostApi, api, rxFlags, mcList, ucList, mtu, vlansUp, activeVlans, pfMode, pfMc,
                 pfUc, pfVlans, pfFixed, pfMax, walkVars, stale>>

\* ixgbevf_hv_set_rlpml_vf or-s the size into the register; the sizes are single bits
HvLimit(size) == IF size = pfMax THEN pfMax ELSE 3

\* ixgbevf_rlpml_set_vf
SetRlpml(size, out) ==
  IF HyperV
    THEN out = "ok" /\ pfMax' = HvLimit(size) /\ UNCHANGED faults
    ELSE Reply(out, TRUE) /\ pfMax' = IF Acted(out) THEN size ELSE pfMax

\* ixgbevf_change_mtu: first the PF is told, then the interface is restarted.
ChangeMtu(size, out) ==
  /\ RtnlFree /\ MbxUnlocked /\ Change
  /\ SetRlpml(size, out)
  /\ IF Believed(out)
       THEN mtu' = size /\ job' = "config" /\ At("rtnl", "reset")
       ELSE UNCHANGED <<mtu, job, fpc>>
  /\ Diverges("mtu", Acted(out) # Believed(out))
  /\ UNCHANGED <<hostApi, rxFlags, mcList, ucList, devAddr, vlansUp, drvVars, pfMode, pfMc, pfUc,
                 pfVlans, pfMac, pfFixed, cnt, xmode, pos, vidsLeft, mbxOwner, stale>>

-----------------------------------------------------------------------------
(* ixgbevf_reset, ixgbevf_configure and ixgbevf_up_complete, under rtnl.   *)

\* ixgbevf_reinit_locked
Reinit ==
  /\ RtnlFree
  /\ job' = "config" /\ At("rtnl", "reset")
  /\ UNCHANGED <<hostApi, netVars, drvVars, pfFilters, cnt, xmode, pos, vidsLeft, mbxOwner, stale,
                 apart, changes, faults>>

\* ixgbe_reset_hw_vf: the PF forgets the filters and tells the address it has for the VF;
\* a refusal says that it has none.
ResetHw(out) ==
  IF HyperV
    THEN Unsent(out) /\ UNCHANGED <<pfMode, pfMc, pfUc, pfVlans, pfMax, permAddr, apart>>
    ELSE /\ Reply(out, TRUE)
         /\ IF out = "lost"
              THEN UNCHANGED <<pfMode, pfMc, pfUc, pfVlans, pfMax, permAddr, apart>>
              ELSE /\ pfMode' = 0 /\ pfMc' = {} /\ pfUc' = {} /\ pfVlans' = {} /\ pfMax' = 1
                   /\ permAddr' = IF out = "ok" THEN pfMac ELSE permAddr
                   /\ apart' = apart \ ({"vlan"} \cup IF out = "ok" THEN {"mac"} ELSE {})

\* ixgbevf_reset: with an answer, ixgbe_init_hw_vf takes perm_addr for the adapter's address
\* and the version is negotiated again; without, it stays at 1.0.
CfgReset(out) ==
  /\ fpc["rtnl"] = "reset" /\ out # "crossed"
  /\ ResetHw(out)
  /\ IF HyperV \/ out \in {"ok", "nack"} THEN macAddr' = permAddr' /\ api' = hostApi
                                        ELSE macAddr' = macAddr /\ api' = 10
  /\ devAddr' = macAddr'
  /\ At("rtnl", "read")
  /\ UNCHANGED <<hostApi, rxFlags, mcList, ucList, mtu, vlansUp, activeVlans, pfMac, pfFixed, job,
                 cnt, xmode, pos, vidsLeft, mbxOwner, stale, changes>>

\* Mutant: only the VLANs the PF still has are sent again.
RestoredKnown == vidsLeft \cap pfVlans

Restored == vidsLeft

\* One turn of ixgbevf_restore_vlan
CfgVlan(vid, out) ==
  /\ fpc["rtnl"] = "vlans" /\ MbxUnlocked /\ vid \in Restored
  /\ SetVfta(vid, TRUE, out)
  /\ vidsLeft' = vidsLeft \ {vid}
  /\ Diverges("vlan", ~Acted(out))
  /\ UNCHANGED <<hostApi, netVars, drvVars, pfMode, pfMc, pfUc, pfMac, pfFixed, pfMax, fpc, job,
                 cnt, xmode, pos, mbxOwner, stale, changes>>

MaxFrame == mtu

\* ixgbevf_configure_rx; an error is only logged
CfgRlpml(out) ==
  /\ fpc["rtnl"] = "vlans" /\ MbxUnlocked /\ Restored = {}
  /\ vidsLeft' = {}
  /\ SetRlpml(MaxFrame, out)
  /\ Settles("mtu", ~Acted(out))
  /\ At("rtnl", "rar")
  /\ UNCHANGED <<hostApi, netVars, drvVars, pfMode, pfMc, pfUc, pfVlans, pfMac, pfFixed, job, cnt,
                 xmode, pos, mbxOwner, stale, changes>>

\* ixgbevf_up_complete
CfgRar(out) ==
  /\ fpc["rtnl"] = "rar" /\ MbxUnlocked
  /\ SetRar(macAddr, out)
  /\ macAddr' = IF out = "nack" THEN Refused ELSE macAddr
  /\ Diverges("mac", out \notin {"ok", "nack"})
  /\ job' = "none" /\ At("rtnl", "idle")
  /\ UNCHANGED <<hostApi, api, netVars, activeVlans, permAddr, pfMode, pfMc, pfUc, pfVlans,
                 pfFixed, pfMax, cnt, xmode, pos, vidsLeft, mbxOwner, stale, changes>>

\* The administrator gives the VF an address (external); it learns of it by its next reset.
PfSetMac ==
  /\ ~HyperV /\ Change
  /\ pfMac' = "admin" /\ pfFixed' = TRUE
  /\ apart' = apart \cup {"mac"}
  /\ UNCHANGED <<hostApi, netVars, drvVars, pfMode, pfMc, pfUc, pfVlans, pfMax, walkVars, stale,
                 faults>>

-----------------------------------------------------------------------------
SetRxMode(t) ==
  \/ RxModeRead(t) \/ RxModeDone(t)
  \/ \E out \in Replies : RxModeXcast(t, out) \/ RxModeMc(t, out) \/ RxModeUc(t, out)

StackCalls ==
  \/ \E a \in Addrs : McAdd(a) \/ UcAdd(a)
  \/ McDel \/ UcDel
  \/ \E mode \in XcastModes : SetFlags(mode)
  \/ \E vid \in Vids, out \in Replies : VlanAdd(vid, out) \/ VlanKill(vid, out)
  \/ \E addr \in Macs, out \in Replies : SetMac(addr, out)
  \/ \E size \in Sizes, out \in Replies : ChangeMtu(size, out)

Reconfigure ==
  \/ Reinit
  \/ \E out \in Replies : CfgReset(out) \/ CfgRlpml(out) \/ CfgRar(out)
  \/ \E vid \in Vids, out \in Replies : CfgVlan(vid, out)

FiltersNext == (\E t \in Threads : SetRxMode(t)) \/ StackCalls \/ Reconfigure \/ PfSetMac

FiltersSpec == FiltersInit(Versions) /\ [][FiltersNext]_filterVars

-----------------------------------------------------------------------------
(* Properties.                                                             *)

\* Type invariant of the filters.
FiltersTypeOK ==
  /\ hostApi \in Versions /\ api \in Versions
  /\ {rxFlags, pfMode, xmode["rtnl"], xmode["addr"]} \subseteq XcastModes
  /\ {mcList[i] : i \in DOMAIN mcList} \cup {ucList[i] : i \in DOMAIN ucList} \subseteq Addrs
  /\ {devAddr, macAddr, permAddr, pfMac} \subseteq Macs
  /\ activeVlans \cup vlansUp \cup pfVlans \cup vidsLeft \subseteq Vids
  /\ pfMc \cup pfUc \subseteq Addrs /\ Cardinality(pfMc) <= McMax
  /\ mtu \in Sizes /\ pfMax \in 1 .. 3 /\ pfFixed \in BOOLEAN
  /\ fpc \in [Threads -> {"idle", "read", "xcast", "mc", "uc", "reset", "vlans", "rar"}]
  /\ job \in {"none", "mode", "config"} /\ mbxOwner \in Threads \cup {"none"}
  /\ stale \in [Threads -> BOOLEAN] /\ apart \subseteq {"mode", "mc", "uc", "vlan", "mtu", "mac"}
  /\ changes \in 0 .. MaxChanges /\ faults \in 0 .. MaxFaults

Quiet == ~HyperV /\ \A t \in Threads : fpc[t] = "idle"

\* "This routine is responsible for configuring the hardware for proper multicast mode
\* and configuring requested unicast filters": with nobody in ixgbevf_set_rx_mode, the
\* PF filters by the stack's flags and lists, also when a restart and a change of the
\* lists ran side by side; but for requests that failed, and for a multicast list that
\* changed between the reading of its length and its sending (2895, 2911).
FiltersMatch ==
  Quiet =>
    /\ "mode" \notin apart => pfMode = rxFlags
    /\ "mc" \notin apart => pfMc = {mcList[i] : i \in {j \in DOMAIN mcList : j <= McMax}}
    /\ "uc" \notin apart => pfUc = {ucList[i] : i \in DOMAIN ucList}

\* active_vlans brings back after a reset what the stack was told is set, and nothing it
\* has removed.
VlansMatch == Quiet /\ "vlan" \notin apart => pfVlans = vlansUp /\ activeVlans = vlansUp

\* After a restart the adapter and the PF have the same address, the administrator's if
\* he has set one, and a refused change leaves them with it; so does the net_device.
MacFollows ==
  RtnlFree /\ "mac" \notin apart =>
    /\ macAddr = IF HyperV THEN permAddr ELSE pfMac
    /\ devAddr = macAddr

\* Frames of the MTU in force are let through.
FrameFits == RtnlFree /\ "mtu" \notin apart => pfMax >= mtu

\* The PF holds for the VF what the stack was told it holds, through refusals, crossing
\* messages, changes under way and resets.
FiltersHeld == FiltersTypeOK /\ FiltersMatch /\ VlansMatch /\ MacFollows /\ FrameFits
=============================================================================
