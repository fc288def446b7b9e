--------------------------- MODULE FiltersProofs ----------------------------
(***************************************************************************)
(* Filters, for every number of addresses and VLANs, every limit of a      *)
(* message and any sequence of changes and faults: the PF holds what the   *)
(* stack was told it holds.                                                *)
(***************************************************************************)
EXTENDS Filters, FiniteSetTheorems, TLAPS

\* What the PF is to have: as many multicast addresses as fit, and the unicast addresses
\* up to the one that the walk has come to.
McWanted == {mcList[i] : i \in {j \in DOMAIN mcList : j <= McMax}}
UcUpTo(n) == {ucList[i] : i \in {j \in DOMAIN ucList : j <= n}}

Labels == {"idle", "read", "xcast", "mc", "uc", "reset", "vlans", "rar"}
Parts == {"mode", "mc", "uc", "vlan", "mtu", "mac"}

\* Types, by variable.
ListTypes ==
  /\ mcList \in Seq(Addrs) /\ ucList \in Seq(Addrs)
  /\ pfMc \subseteq Addrs /\ Cardinality(pfMc) <= McMax /\ pfUc \subseteq Addrs
  /\ cnt \in [Threads -> Nat] /\ pos \in [Threads -> Nat] /\ stale \in [Threads -> BOOLEAN]
OtherTypes ==
  /\ hostApi \in Versions /\ api \in Versions
  /\ rxFlags \in XcastModes /\ pfMode \in XcastModes /\ xmode \in [Threads -> XcastModes]
  /\ devAddr \in Macs /\ macAddr \in Macs /\ permAddr \in Macs /\ pfMac \in Macs
  /\ activeVlans \subseteq Vids /\ vlansUp \subseteq Vids /\ pfVlans \subseteq Vids
  /\ vidsLeft \subseteq Vids
  /\ mtu \in Sizes /\ pfMax \in 1 .. 3 /\ pfFixed \in BOOLEAN
  /\ fpc \in [Threads -> Labels] /\ job \in {"none", "mode", "config"}
  /\ mbxOwner \in Threads \cup {"none"} /\ apart \subseteq Parts
  /\ changes \in 0 .. MaxChanges /\ faults \in 0 .. MaxFaults

\* Who is where: mbx_lock is held from the receive mode to the end of the walk, and the
\* stack's two contexts do not meet in ixgbevf_set_rx_mode.
PlaceInv ==
  /\ fpc["addr"] \in {"idle", "read", "xcast", "mc", "uc"}
  /\ fpc["rtnl"] \in {"reset", "vlans", "rar"} => job = "config"
  /\ fpc["rtnl"] = "idle" => job # "config"
  /\ fpc["rtnl"] \in {"read", "xcast", "mc", "uc"} => job # "none"
  /\ \A t \in Threads : fpc[t] \in {"mc", "uc"} <=> mbxOwner = t
  /\ job = "mode" /\ fpc["rtnl"] \in {"xcast", "mc", "uc"} => fpc["addr"] = "idle"

\* Somebody is still to send what comes at one of these places.
Awaited(places) == fpc["rtnl"] = "reset" \/ \E t \in Threads : fpc[t] \in places

\* The flags that are about to be sent are the stack's, or it is about to send them again.
ModeInv ==
  /\ \A t \in Threads :
       fpc[t] = "xcast" =>
         \/ xmode[t] = rxFlags
         \/ t = "addr" /\ fpc["rtnl"] = "read" /\ job = "mode"
  /\ ~Awaited({"read", "xcast"}) /\ "mode" \notin apart => pfMode = rxFlags

\* The length that was read is the list's, or known to be stale.
McInv ==
  /\ \A t \in Threads : fpc[t] \in {"xcast", "mc"} /\ ~stale[t] => cnt[t] = Len(mcList)
  /\ ~HyperV /\ ~Awaited({"read", "xcast", "mc"}) /\ "mc" \notin apart => pfMc = McWanted

\* The walk that nobody will repeat has sent the list as far as it has come.
UcInv ==
  ~HyperV /\ ~Awaited({"read", "xcast", "mc"}) /\ "uc" \notin apart =>
    /\ (\A t \in Threads : fpc[t] # "uc") => pfUc = {ucList[i] : i \in DOMAIN ucList}
    /\ \A t \in Threads : fpc[t] = "uc" /\ pos[t] > 0 => pfUc = UcUpTo(pos[t])

\* Between a reset and the end of ixgbevf_restore_vlan the PF has some of the VLANs.
VlanInv ==
  /\ activeVlans = vlansUp
  /\ ~HyperV /\ "vlan" \notin apart =>
       /\ pfVlans \subseteq activeVlans
       /\ job # "config" \/ fpc["rtnl"] \in {"reset", "rar"} => pfVlans = activeVlans
       /\ fpc["rtnl"] = "vlans" => activeVlans \ vidsLeft \subseteq pfVlans
  /\ fpc["rtnl"] = "vlans" => vidsLeft \subseteq activeVlans

\* Also the address to fall back to is the PF's.
MacInv ==
  "mac" \notin apart =>
    /\ macAddr = permAddr /\ devAddr = permAddr
    /\ ~HyperV => pfMac = permAddr

\* Between a reset and ixgbevf_configure_rx the limit is the PF's default.
SizeInv ==
  "mtu" \notin apart /\ (job # "config" \/ fpc["rtnl"] = "rar") => pfMax >= mtu

FiltersIInv ==
  ListTypes /\ OtherTypes /\ PlaceInv /\ ModeInv /\ McInv /\ UcInv /\ VlanInv /\ MacInv /\ SizeInv

-----------------------------------------------------------------------------
(* What the requests do.                                                   *)

\* A fault uses up one of those that may happen.
LEMMA FaultsBounded ==
  ASSUME faults \in 0 .. MaxFaults, NEW out, NEW accepted, Reply(out, accepted)
  PROVE  faults' \in 0 .. MaxFaults
BY FiltersAssumption DEF Reply

\* A message holds no more multicast addresses than fit, whatever its walk has come across.
LEMMA McSentFits ==
  ASSUME ListTypes, NEW t \in Threads, NEW s \in McSent(t)
  PROVE  s \subseteq Addrs /\ Cardinality(s) <= McMax
<1> DEFINE k == McCount(t)
<1>1. k \in 0 .. McMax
  BY FiltersAssumption DEF ListTypes, McCount
<1> HIDE DEF k
<1>2. CASE k > Len(mcList)
  <2>1. Cardinality(s) <= k /\ s \subseteq Addrs
    BY <1>2 DEF McSent, k
  <2>2. IsFiniteSet(s)
    BY <2>1, FS_Subset, FiltersAssumption
  <2> QED BY <1>1, <2>1, <2>2, FS_CardinalityType, FiltersAssumption
<1>3. CASE ~(k > Len(mcList))
  <2>1. s = {mcList[i] : i \in 1 .. k} /\ k <= Len(mcList)
    BY <1>1, <1>3 DEF McSent, k, ListTypes
  <2>2. s \subseteq Addrs
    BY <1>1, <2>1 DEF ListTypes
  <2> DEFINE f == [i \in 1 .. k |-> mcList[i]]
  <2>3. f \in Surjection(1 .. k, s)
    BY <2>1 DEF Surjection
  <2>4. IsFiniteSet(1 .. k) /\ Cardinality(1 .. k) = k
    BY <1>1, FS_Interval
  <2>5. IsFiniteSet(s) /\ Cardinality(s) <= k
    BY <2>3, <2>4, FS_Surjection
  <2> QED BY <1>1, <2>2, <2>5, FS_CardinalityType, FiltersAssumption
<1> QED BY <1>2, <1>3

\* With the length of the list as it is, the message holds what is wanted of it.
LEMMA McSentWanted ==
  ASSUME ListTypes, NEW t \in Threads, cnt[t] = Len(mcList)
  PROVE  McSent(t) = {McWanted}
<1> DEFINE k == McCount(t)
<1>1. k \in Nat /\ k <= Len(mcList) /\ 1 .. k = {j \in DOMAIN mcList : j <= McMax}
  BY FiltersAssumption DEF ListTypes, McCount
<1>2. McSent(t) = {{mcList[i] : i \in 1 .. k}}
  BY <1>1 DEF McSent, ListTypes
<1> QED BY <1>1, <1>2 DEF McWanted

\* The next address of the walk.
LEMMA UcNext ==
  ASSUME ListTypes, NEW n \in Nat, n < Len(ucList)
  PROVE  /\ UcUpTo(n + 1) = UcUpTo(n) \cup {ucList[n + 1]}
         /\ n = 0 => UcUpTo(n) = {}
         /\ ucList[n + 1] \in Addrs
BY DEF ListTypes, UcUpTo

LEMMA UcAll ==
  ASSUME ListTypes, NEW n \in Nat, n >= Len(ucList)
  PROVE  UcUpTo(n) = {ucList[i] : i \in DOMAIN ucList}
BY DEF ListTypes, UcUpTo

-----------------------------------------------------------------------------
(* The steps.                                                              *)

\* Flags and length are read: from now on, this call is to send them.
LEMMA RxModeReadKeeps ==
  ASSUME FiltersIInv, NEW t \in Threads, RxModeRead(t)
  PROVE  FiltersIInv'
<1> USE FiltersAssumption DEF FiltersIInv, RxModeRead, At, ByStack, Replies, netVars, drvVars,
      pfFilters, walkVars
<1>1. ListTypes'
  BY DEF ListTypes, Threads
<1>2. OtherTypes'
  BY DEF OtherTypes, Threads, Labels, Parts, Sizes, Macs, XcastModes, Versions, PlaceInv
<1>3. PlaceInv'
  BY DEF PlaceInv, Threads, OtherTypes, Labels
<1>4. ModeInv'
  BY DEF ModeInv, Threads, Awaited, OtherTypes, Labels, PlaceInv
<1>5. McInv'
  BY DEF McInv, Threads, Awaited, HyperV, McWanted, OtherTypes, Labels, PlaceInv, ListTypes
<1>6. UcInv'
  BY DEF UcInv, Threads, Awaited, HyperV, UcUpTo, OtherTypes, Labels, PlaceInv, ListTypes
<1>7. VlanInv'
  BY DEF VlanInv, Threads, HyperV, OtherTypes, Labels, PlaceInv
<1>8. MacInv'
  BY DEF MacInv, HyperV, OtherTypes, Labels, PlaceInv
<1>9. SizeInv'
  BY DEF SizeInv, Threads, OtherTypes, Labels, PlaceInv, Sizes
<1> QED BY <1>1, <1>2, <1>3, <1>4, <1>5, <1>6, <1>7, <1>8, <1>9

\* The flags are sent as they were read; if they are old, rtnl comes after.
LEMMA RxModeXcastKeeps ==
  ASSUME FiltersIInv, NEW t \in Threads, NEW out \in Replies, RxModeXcast(t, out)
  PROVE  FiltersIInv'
<1> USE FiltersAssumption DEF FiltersIInv, RxModeXcast, At, MbxUnlocked, XcastSent, Unsent,
      Settles, Reply, Acted, Replies, netVars, drvVars, pfFilters, walkVars
<1>1. ListTypes'
  BY DEF ListTypes, Threads
<1>2. OtherTypes'
  <2>1. faults' \in 0 .. MaxFaults
    BY FaultsBounded DEF OtherTypes
  <2>2. apart' \subseteq Parts
    BY DEF OtherTypes, Parts
  <2>3. fpc' \in [Threads -> Labels] /\ pfMode' \in XcastModes
    BY DEF OtherTypes, Labels
  <2> QED BY <2>1, <2>2, <2>3 DEF OtherTypes
<1>3. PlaceInv'
  BY DEF PlaceInv, Threads, OtherTypes, Labels
<1>4. ModeInv'
  BY DEF ModeInv, Threads, Awaited, OtherTypes, Labels, PlaceInv
<1>5. McInv'
  BY DEF McInv, Threads, Awaited, HyperV, McWanted, OtherTypes, Labels, PlaceInv, ListTypes
<1>6. UcInv'
  BY DEF UcInv, Threads, Awaited, HyperV, UcUpTo, OtherTypes, Labels, PlaceInv, ListTypes
<1>7. VlanInv'
  BY DEF VlanInv, Threads, HyperV, OtherTypes, Labels, PlaceInv
<1>8. MacInv'
  BY DEF MacInv, HyperV, OtherTypes, Labels, PlaceInv
<1>9. SizeInv'
  BY DEF SizeInv, Threads, OtherTypes, Labels, PlaceInv, Sizes
<1> QED BY <1>1, <1>2, <1>3, <1>4, <1>5, <1>6, <1>7, <1>8, <1>9

\* The multicast list is sent, or known to be apart.
LEMMA RxModeMcKeeps ==
  ASSUME FiltersIInv, NEW t \in Threads, NEW out \in Replies, RxModeMc(t, out)
  PROVE  FiltersIInv'
<1> USE FiltersAssumption DEF FiltersIInv, RxModeMc, At, Unsent, Settles, HyperV, Reply,
      Acted, Replies, netVars, drvVars, pfFilters, walkVars
<1>1. ListTypes'
  <2>1. pfMc' \subseteq Addrs /\ Cardinality(pfMc') <= McMax
    BY McSentFits DEF ListTypes
  <2> QED BY <2>1 DEF ListTypes, Threads
<1>2. OtherTypes'
  <2>1. faults' \in 0 .. MaxFaults
    BY FaultsBounded DEF OtherTypes
  <2>2. apart' \subseteq Parts
    BY DEF OtherTypes, Parts
  <2>3. fpc' \in [Threads -> Labels]
    BY DEF OtherTypes, Labels
  <2> QED BY <2>1, <2>2, <2>3 DEF OtherTypes
<1>3. PlaceInv'
  BY DEF PlaceInv, Threads, OtherTypes, Labels
<1>4. ModeInv'
  BY DEF ModeInv, Threads, Awaited, OtherTypes, Labels, PlaceInv
<1>5. McInv'
  <2>1. McWanted' = McWanted
    BY DEF McWanted
  <2>2. ~HyperV /\ "mc" \notin apart' => pfMc' = McWanted
    BY McSentWanted DEF McInv
  <2>3. \A u \in Threads : fpc'[u] \in {"xcast", "mc"} /\ ~stale'[u] => cnt'[u] = Len(mcList')
    BY DEF McInv, OtherTypes
  <2> QED BY <2>1, <2>2, <2>3 DEF McInv
<1>6. UcInv'
  BY DEF UcInv, Threads, Awaited, UcUpTo, OtherTypes, Labels, PlaceInv, ListTypes
<1>7. VlanInv'
  BY DEF VlanInv, Threads, OtherTypes, Labels, PlaceInv
<1>8. MacInv'
  BY DEF MacInv, OtherTypes, Labels, PlaceInv
<1>9. SizeInv'
  BY DEF SizeInv, Threads, OtherTypes, Labels, PlaceInv, Sizes
<1> QED BY <1>1, <1>2, <1>3, <1>4, <1>5, <1>6, <1>7, <1>8, <1>9

\* One more unicast address is with the PF.
LEMMA RxModeUcKeeps ==
  ASSUME FiltersIInv, NEW t \in Threads, NEW out \in Replies, RxModeUc(t, out)
  PROVE  FiltersIInv'
<1> USE FiltersAssumption DEF FiltersIInv, RxModeUc, Unsent, Settles, Diverges, HyperV,
      SetUcAddr, UcTaken, UcIndex, Reply, Acted, Replies, netVars, drvVars, pfFilters,
      walkVars
<1>1. ListTypes'
  BY DEF ListTypes, Threads
<1>2. OtherTypes'
  <2>1. faults' \in 0 .. MaxFaults
    BY FaultsBounded DEF OtherTypes
  <2>2. apart' \subseteq Parts
    BY DEF OtherTypes, Parts
  <2> QED BY <2>1, <2>2 DEF OtherTypes
<1>3. PlaceInv'
  BY DEF PlaceInv, Threads, OtherTypes, Labels
<1>4. ModeInv'
  BY DEF ModeInv, Threads, Awaited, OtherTypes, Labels, PlaceInv
<1>5. McInv'
  BY DEF McInv, Threads, Awaited, McWanted, OtherTypes, Labels, PlaceInv, ListTypes
<1>6. UcInv'
  <2>1. pos[t] \in Nat /\ pos'[t] = pos[t] + 1 /\ mbxOwner = t /\ ucList \in Seq(Addrs)
    BY DEF ListTypes, PlaceInv
  <2>2. SUFFICES ASSUME ~HyperV, ~Awaited({"read", "xcast", "mc"}), "uc" \notin apart'
                 PROVE  pfUc' = UcUpTo(pos[t] + 1)
    <3>1. \A u \in Threads : fpc[u] = "uc" => u = t
      BY <2>1 DEF PlaceInv
    <3>2. (~Awaited({"read", "xcast", "mc"}))' => ~Awaited({"read", "xcast", "mc"})
      BY DEF Awaited
    <3> QED BY <2>1, <2>2, <3>1, <3>2 DEF UcInv, UcUpTo
  <2>3. pos[t] = 0 => Acted(out)
    BY <2>1, <2>2
  <2>4. CASE ucList = <<>>
    BY <2>1, <2>2, <2>3, <2>4 DEF UcUpTo
  <2>5. CASE ucList # <<>> /\ pos[t] = 0
    BY <2>1, <2>2, <2>3, <2>5, UcNext DEF UcUpTo
  <2>6. CASE ucList # <<>> /\ pos[t] > 0
    <3>1. "uc" \notin apart /\ pfUc = UcUpTo(pos[t]) /\ Acted(out)
      BY <2>1, <2>2, <2>6 DEF UcInv
    <3>2. pos[t] < Len(ucList) /\ pfUc' = pfUc \cup {ucList[pos[t] + 1]}
      BY <2>1, <2>2, <2>6, <3>1
    <3> QED BY <2>1, <3>1, <3>2, UcNext
  <2> QED BY <2>1, <2>4, <2>5, <2>6
<1>7. VlanInv'
  BY DEF VlanInv, Threads, OtherTypes, Labels, PlaceInv
<1>8. MacInv'
  BY DEF MacInv, OtherTypes, Labels, PlaceInv
<1>9. SizeInv'
  BY DEF SizeInv, Threads, OtherTypes, Labels, PlaceInv, Sizes
<1> QED BY <1>1, <1>2, <1>3, <1>4, <1>5, <1>6, <1>7, <1>8, <1>9

\* The walk has come to the end of the list, and releases mbx_lock.
LEMMA RxModeDoneKeeps ==
  ASSUME FiltersIInv, NEW t \in Threads, RxModeDone(t)
  PROVE  FiltersIInv'
<1> USE FiltersAssumption DEF FiltersIInv, RxModeDone, At, Replies, netVars, drvVars,
      pfFilters, walkVars
<1>1. ListTypes'
  BY DEF ListTypes, Threads
<1>2. OtherTypes'
  BY DEF OtherTypes, Threads, Labels, Parts, Sizes, Macs, XcastModes, Versions, PlaceInv
<1>3. PlaceInv'
  BY DEF PlaceInv, Threads, OtherTypes, Labels
<1>4. ModeInv'
  BY DEF ModeInv, Threads, Awaited, OtherTypes, Labels, PlaceInv
<1>5. McInv'
  BY DEF McInv, Threads, Awaited, HyperV, McWanted, OtherTypes, Labels, PlaceInv, ListTypes
<1>6. UcInv'
  BY DEF UcInv, Threads, Awaited, HyperV, UcUpTo, OtherTypes, Labels, PlaceInv, ListTypes
<1>7. VlanInv'
  BY DEF VlanInv, Threads, HyperV, OtherTypes, Labels, PlaceInv
<1>8. MacInv'
  BY DEF MacInv, HyperV, OtherTypes, Labels, PlaceInv
<1>9. SizeInv'
  BY DEF SizeInv, Threads, OtherTypes, Labels, PlaceInv, Sizes
<1> QED BY <1>1, <1>2, <1>3, <1>4, <1>5, <1>6, <1>7, <1>8, <1>9

\* A change of the multicast list calls ixgbevf_set_rx_mode, and so does its reversal.
LEMMA McAddKeeps ==
  ASSUME FiltersIInv, NEW a \in Addrs, McAdd(a)
  PROVE  FiltersIInv'
<1> USE FiltersAssumption DEF FiltersIInv, McAdd, McChange, AddrLocked, Change, CountedChange,
      At, Replies, netVars, drvVars, pfFilters, walkVars
<1>1. ListTypes'
  BY DEF ListTypes, Threads
<1>2. OtherTypes'
  BY DEF OtherTypes, Threads, Labels, Parts, Sizes, Macs, XcastModes, Versions, PlaceInv
<1>3. PlaceInv'
  BY DEF PlaceInv, Threads, OtherTypes, Labels
<1>4. ModeInv'
  BY DEF ModeInv, Threads, Awaited, OtherTypes, Labels, PlaceInv
<1>5. McInv'
  BY DEF McInv, Threads, Awaited, HyperV, McWanted, OtherTypes, Labels, PlaceInv, ListTypes
<1>6. UcInv'
  BY DEF UcInv, Threads, Awaited, HyperV, UcUpTo, OtherTypes, Labels, PlaceInv, ListTypes
<1>7. VlanInv'
  BY DEF VlanInv, Threads, HyperV, OtherTypes, Labels, PlaceInv
<1>8. MacInv'
  BY DEF MacInv, HyperV, OtherTypes, Labels, PlaceInv
<1>9. SizeInv'
  BY DEF SizeInv, Threads, OtherTypes, Labels, PlaceInv, Sizes
<1> QED BY <1>1, <1>2, <1>3, <1>4, <1>5, <1>6, <1>7, <1>8, <1>9

LEMMA McDelKeeps ==
  ASSUME FiltersIInv, McDel
  PROVE  FiltersIInv'
<1> USE FiltersAssumption DEF FiltersIInv, McDel, McChange, AddrLocked, Change, CountedChange,
      At, Replies, netVars, drvVars, pfFilters, walkVars
<1>1. ListTypes'
  BY DEF ListTypes, Threads
<1>2. OtherTypes'
  BY DEF OtherTypes, Threads, Labels, Parts, Sizes, Macs, XcastModes, Versions, PlaceInv
<1>3. PlaceInv'
  BY DEF PlaceInv, Threads, OtherTypes, Labels
<1>4. ModeInv'
  BY DEF ModeInv, Threads, Awaited, OtherTypes, Labels, PlaceInv
<1>5. McInv'
  BY DEF McInv, Threads, Awaited, HyperV, McWanted, OtherTypes, Labels, PlaceInv, ListTypes
<1>6. UcInv'
  BY DEF UcInv, Threads, Awaited, HyperV, UcUpTo, OtherTypes, Labels, PlaceInv, ListTypes
<1>7. VlanInv'
  BY DEF VlanInv, Threads, HyperV, OtherTypes, Labels, PlaceInv
<1>8. MacInv'
  BY DEF MacInv, HyperV, OtherTypes, Labels, PlaceInv
<1>9. SizeInv'
  BY DEF SizeInv, Threads, OtherTypes, Labels, PlaceInv, Sizes
<1> QED BY <1>1, <1>2, <1>3, <1>4, <1>5, <1>6, <1>7, <1>8, <1>9

\* A change of the unicast list does so too, also below a walk under way.
LEMMA UcAddKeeps ==
  ASSUME FiltersIInv, NEW a \in Addrs, UcAdd(a)
  PROVE  FiltersIInv'
<1> USE FiltersAssumption DEF FiltersIInv, UcAdd, UcChange, AddrLocked, Change, At, Replies,
      netVars, drvVars, pfFilters, walkVars
<1>1. ListTypes'
  BY DEF ListTypes, Threads
<1>2. OtherTypes'
  BY DEF OtherTypes, Threads, Labels, Parts, Sizes, Macs, XcastModes, Versions, PlaceInv
<1>3. PlaceInv'
  BY DEF PlaceInv, Threads, OtherTypes, Labels
<1>4. ModeInv'
  BY DEF ModeInv, Threads, Awaited, OtherTypes, Labels, PlaceInv
<1>5. McInv'
  BY DEF McInv, Threads, Awaited, HyperV, McWanted, OtherTypes, Labels, PlaceInv, ListTypes
<1>6. UcInv'
  BY DEF UcInv, Threads, Awaited, HyperV, UcUpTo, OtherTypes, Labels, PlaceInv, ListTypes
<1>7. VlanInv'
  BY DEF VlanInv, Threads, HyperV, OtherTypes, Labels, PlaceInv
<1>8. MacInv'
  BY DEF MacInv, HyperV, OtherTypes, Labels, PlaceInv
<1>9. SizeInv'
  BY DEF SizeInv, Threads, OtherTypes, Labels, PlaceInv, Sizes
<1> QED BY <1>1, <1>2, <1>3, <1>4, <1>5, <1>6, <1>7, <1>8, <1>9

LEMMA UcDelKeeps ==
  ASSUME FiltersIInv, UcDel
  PROVE  FiltersIInv'
<1> USE FiltersAssumption DEF FiltersIInv, UcDel, UcChange, AddrLocked, Change, At, Replies,
      netVars, drvVars, pfFilters, walkVars
<1>1. ListTypes'
  BY DEF ListTypes, Threads
<1>2. OtherTypes'
  BY DEF OtherTypes, Threads, Labels, Parts, Sizes, Macs, XcastModes, Versions, PlaceInv
<1>3. PlaceInv'
  BY DEF PlaceInv, Threads, OtherTypes, Labels
<1>4. ModeInv'
  BY DEF ModeInv, Threads, Awaited, OtherTypes, Labels, PlaceInv
<1>5. McInv'
  BY DEF McInv, Threads, Awaited, HyperV, McWanted, OtherTypes, Labels, PlaceInv, ListTypes
<1>6. UcInv'
  BY DEF UcInv, Threads, Awaited, HyperV, UcUpTo, OtherTypes, Labels, PlaceInv, ListTypes
<1>7. VlanInv'
  BY DEF VlanInv, Threads, HyperV, OtherTypes, Labels, PlaceInv
<1>8. MacInv'
  BY DEF MacInv, HyperV, OtherTypes, Labels, PlaceInv
<1>9. SizeInv'
  BY DEF SizeInv, Threads, OtherTypes, Labels, PlaceInv, Sizes
<1> QED BY <1>1, <1>2, <1>3, <1>4, <1>5, <1>6, <1>7, <1>8, <1>9

\* The flags change under rtnl only, after which they are sent.
LEMMA SetFlagsKeeps ==
  ASSUME FiltersIInv, NEW mode \in XcastModes, SetFlags(mode)
  PROVE  FiltersIInv'
<1> USE FiltersAssumption DEF FiltersIInv, SetFlags, RtnlFree, Change, At, Replies, netVars,
      drvVars, pfFilters, walkVars
<1>1. ListTypes'
  BY DEF ListTypes, Threads
<1>2. OtherTypes'
  BY DEF OtherTypes, Threads, Labels, Parts, Sizes, Macs, XcastModes, Versions, PlaceInv
<1>3. PlaceInv'
  BY DEF PlaceInv, Threads, OtherTypes, Labels
<1>4. ModeInv'
  BY DEF ModeInv, Threads, Awaited, OtherTypes, Labels, PlaceInv
<1>5. McInv'
  BY DEF McInv, Threads, Awaited, HyperV, McWanted, OtherTypes, Labels, PlaceInv, ListTypes
<1>6. UcInv'
  BY DEF UcInv, Threads, Awaited, HyperV, UcUpTo, OtherTypes, Labels, PlaceInv, ListTypes
<1>7. VlanInv'
  BY DEF VlanInv, Threads, HyperV, OtherTypes, Labels, PlaceInv
<1>8. MacInv'
  BY DEF MacInv, HyperV, OtherTypes, Labels, PlaceInv
<1>9. SizeInv'
  BY DEF SizeInv, Threads, OtherTypes, Labels, PlaceInv, Sizes
<1> QED BY <1>1, <1>2, <1>3, <1>4, <1>5, <1>6, <1>7, <1>8, <1>9

\* The stack is told of a VLAN what the adapter remembers of it.
LEMMA VlanAddKeeps ==
  ASSUME FiltersIInv, NEW vid \in Vids, NEW out \in Replies, VlanAdd(vid, out)
  PROVE  FiltersIInv'
<1> USE FiltersAssumption DEF FiltersIInv, VlanAdd, RtnlFree, Change, SetVfta, Diverges,
      Believed, HyperV, Unsent, Reply, Acted, Replies, netVars, drvVars, pfFilters, walkVars
<1>1. ListTypes'
  BY DEF ListTypes, Threads
<1>2. OtherTypes'
  BY DEF OtherTypes, Threads, Labels, Parts, Sizes, Macs, XcastModes, Versions, PlaceInv
<1>3. PlaceInv'
  BY DEF PlaceInv, Threads, OtherTypes, Labels
<1>4. ModeInv'
  BY DEF ModeInv, Threads, Awaited, OtherTypes, Labels, PlaceInv
<1>5. McInv'
  BY DEF McInv, Threads, Awaited, McWanted, OtherTypes, Labels, PlaceInv, ListTypes
<1>6. UcInv'
  BY DEF UcInv, Threads, Awaited, UcUpTo, OtherTypes, Labels, PlaceInv, ListTypes
<1>7. VlanInv'
  BY DEF VlanInv, Threads, OtherTypes, Labels, PlaceInv
<1>8. MacInv'
  BY DEF MacInv, OtherTypes, Labels, PlaceInv
<1>9. SizeInv'
  BY DEF SizeInv, Threads, OtherTypes, Labels, PlaceInv, Sizes
<1> QED BY <1>1, <1>2, <1>3, <1>4, <1>5, <1>6, <1>7, <1>8, <1>9

LEMMA VlanKillKeeps ==
  ASSUME FiltersIInv, NEW vid \in Vids, NEW out \in Replies, VlanKill(vid, out)
  PROVE  FiltersIInv'
<1> USE FiltersAssumption DEF FiltersIInv, VlanKill, RtnlFree, Change, SetVfta, Diverges,
      Believed, HyperV, Unsent, Reply, Acted, Replies, netVars, drvVars, pfFilters, walkVars
<1>1. ListTypes'
  BY DEF ListTypes, Threads
<1>2. OtherTypes'
  BY DEF OtherTypes, Threads, Labels, Parts, Sizes, Macs, XcastModes, Versions, PlaceInv
<1>3. PlaceInv'
  BY DEF PlaceInv, Threads, OtherTypes, Labels
<1>4. ModeInv'
  BY DEF ModeInv, Threads, Awaited, OtherTypes, Labels, PlaceInv
<1>5. McInv'
  BY DEF McInv, Threads, Awaited, McWanted, OtherTypes, Labels, PlaceInv, ListTypes
<1>6. UcInv'
  BY DEF UcInv, Threads, Awaited, UcUpTo, OtherTypes, Labels, PlaceInv, ListTypes
<1>7. VlanInv'
  BY DEF VlanInv, Threads, OtherTypes, Labels, PlaceInv
<1>8. MacInv'
  BY DEF MacInv, OtherTypes, Labels, PlaceInv
<1>9. SizeInv'
  BY DEF SizeInv, Threads, OtherTypes, Labels, PlaceInv, Sizes
<1> QED BY <1>1, <1>2, <1>3, <1>4, <1>5, <1>6, <1>7, <1>8, <1>9

\* A refused address is replaced by perm_addr, which is the PF's.
LEMMA SetMacKeeps ==
  ASSUME FiltersIInv, NEW addr \in Macs, NEW out \in Replies, SetMac(addr, out)
  PROVE  FiltersIInv'
<1> USE FiltersAssumption DEF FiltersIInv, SetMac, RtnlFree, Change, SetRar, Refused,
      Diverges, Believed, HyperV, Reply, Acted, Replies, netVars, drvVars, pfFilters, walkVars
<1>1. ListTypes'
  BY DEF ListTypes, Threads
<1>2. OtherTypes'
  BY DEF OtherTypes, Threads, Labels, Parts, Sizes, Macs, XcastModes, Versions, PlaceInv
<1>3. PlaceInv'
  BY DEF PlaceInv, Threads, OtherTypes, Labels
<1>4. ModeInv'
  BY DEF ModeInv, Threads, Awaited, OtherTypes, Labels, PlaceInv
<1>5. McInv'
  BY DEF McInv, Threads, Awaited, McWanted, OtherTypes, Labels, PlaceInv, ListTypes
<1>6. UcInv'
  BY DEF UcInv, Threads, Awaited, UcUpTo, OtherTypes, Labels, PlaceInv, ListTypes
<1>7. VlanInv'
  BY DEF VlanInv, Threads, OtherTypes, Labels, PlaceInv
<1>8. MacInv'
  BY DEF MacInv, OtherTypes, Labels, PlaceInv
<1>9. SizeInv'
  BY DEF SizeInv, Threads, OtherTypes, Labels, PlaceInv, Sizes
<1> QED BY <1>1, <1>2, <1>3, <1>4, <1>5, <1>6, <1>7, <1>8, <1>9

\* A new frame size is with the PF before it is in force.
LEMMA ChangeMtuKeeps ==
  ASSUME FiltersIInv, NEW size \in Sizes, NEW out \in Replies, ChangeMtu(size, out)
  PROVE  FiltersIInv'
<1> USE FiltersAssumption DEF FiltersIInv, ChangeMtu, RtnlFree, Change, SetRlpml, HvLimit, At,
      Diverges, Believed, HyperV, Reply, Acted, Replies, netVars, drvVars, pfFilters, walkVars
<1>1. ListTypes'
  BY DEF ListTypes, Threads
<1>2. OtherTypes'
  BY DEF OtherTypes, Threads, Labels, Parts, Sizes, Macs, XcastModes, Versions, PlaceInv
<1>3. PlaceInv'
  BY DEF PlaceInv, Threads, OtherTypes, Labels
<1>4. ModeInv'
  BY DEF ModeInv, Threads, Awaited, OtherTypes, Labels, PlaceInv
<1>5. McInv'
  BY DEF McInv, Threads, Awaited, McWanted, OtherTypes, Labels, PlaceInv, ListTypes
<1>6. UcInv'
  BY DEF UcInv, Threads, Awaited, UcUpTo, OtherTypes, Labels, PlaceInv, ListTypes
<1>7. VlanInv'
  BY DEF VlanInv, Threads, OtherTypes, Labels, PlaceInv
<1>8. MacInv'
  BY DEF MacInv, OtherTypes, Labels, PlaceInv
<1>9. SizeInv'
  BY DEF SizeInv, Threads, OtherTypes, Labels, PlaceInv, Sizes
<1> QED BY <1>1, <1>2, <1>3, <1>4, <1>5, <1>6, <1>7, <1>8, <1>9

\* A restart sends everything again.
LEMMA ReinitKeeps ==
  ASSUME FiltersIInv, Reinit
  PROVE  FiltersIInv'
<1> USE FiltersAssumption DEF FiltersIInv, Reinit, RtnlFree, At, Replies, netVars, drvVars,
      pfFilters, walkVars
<1>1. ListTypes'
  BY DEF ListTypes, Threads
<1>2. OtherTypes'
  BY DEF OtherTypes, Threads, Labels, Parts, Sizes, Macs, XcastModes, Versions, PlaceInv
<1>3. PlaceInv'
  BY DEF PlaceInv, Threads, OtherTypes, Labels
<1>4. ModeInv'
  BY DEF ModeInv, Threads, Awaited, OtherTypes, Labels, PlaceInv
<1>5. McInv'
  BY DEF McInv, Threads, Awaited, HyperV, McWanted, OtherTypes, Labels, PlaceInv, ListTypes
<1>6. UcInv'
  BY DEF UcInv, Threads, Awaited, HyperV, UcUpTo, OtherTypes, Labels, PlaceInv, ListTypes
<1>7. VlanInv'
  BY DEF VlanInv, Threads, HyperV, OtherTypes, Labels, PlaceInv
<1>8. MacInv'
  BY DEF MacInv, HyperV, OtherTypes, Labels, PlaceInv
<1>9. SizeInv'
  BY DEF SizeInv, Threads, OtherTypes, Labels, PlaceInv, Sizes
<1> QED BY <1>1, <1>2, <1>3, <1>4, <1>5, <1>6, <1>7, <1>8, <1>9

\* After a reset all is to be sent again, and the address is the PF's.
LEMMA CfgResetKeeps ==
  ASSUME FiltersIInv, NEW out \in Replies, CfgReset(out)
  PROVE  FiltersIInv'
<1> USE FiltersAssumption DEF FiltersIInv, CfgReset, ResetHw, At, HyperV, Unsent, Reply,
      Acted, Replies, netVars, drvVars, pfFilters, walkVars
<1>1. ListTypes'
  <2>1. Cardinality(pfMc') <= McMax /\ pfMc' \subseteq Addrs
    <3>1. Cardinality({}) <= McMax
      BY FS_EmptySet, FiltersAssumption
    <3> QED BY <3>1 DEF ListTypes
  <2> QED BY <2>1 DEF ListTypes
<1>2. OtherTypes'
  <2>1. faults' \in 0 .. MaxFaults
    BY FaultsBounded DEF OtherTypes
  <2>2. permAddr' \in Macs /\ macAddr' \in Macs /\ devAddr' \in Macs /\ api' \in Versions
    BY DEF OtherTypes, Versions
  <2>3. pfMode' \in XcastModes /\ pfMax' \in 1 .. 3 /\ pfVlans' \subseteq Vids
    BY DEF OtherTypes, XcastModes
  <2>4. fpc' \in [Threads -> Labels] /\ apart' \subseteq Parts
    BY DEF OtherTypes, Labels
  <2> QED BY <2>1, <2>2, <2>3, <2>4 DEF OtherTypes
<1>3. PlaceInv'
  BY DEF PlaceInv, Threads, OtherTypes, Labels
<1>4. ModeInv'
  BY DEF ModeInv, Threads, Awaited, OtherTypes, Labels, PlaceInv
<1>5. McInv'
  BY DEF McInv, Threads, Awaited, McWanted, OtherTypes, Labels, PlaceInv, ListTypes
<1>6. UcInv'
  BY DEF UcInv, Threads, Awaited, UcUpTo, OtherTypes, Labels, PlaceInv, ListTypes
<1>7. VlanInv'
  BY DEF VlanInv, Threads, OtherTypes, Labels, PlaceInv
<1>8. MacInv'
  BY DEF MacInv, OtherTypes, Labels, PlaceInv
<1>9. SizeInv'
  BY DEF SizeInv, Threads, OtherTypes, Labels, PlaceInv, Sizes
<1> QED BY <1>1, <1>2, <1>3, <1>4, <1>5, <1>6, <1>7, <1>8, <1>9

\* A VLAN is brought back.
LEMMA CfgVlanKeeps ==
  ASSUME FiltersIInv, NEW vid \in Vids, NEW out \in Replies, CfgVlan(vid, out)
  PROVE  FiltersIInv'
<1> USE FiltersAssumption DEF FiltersIInv, CfgVlan, Restored, SetVfta, Diverges, HyperV,
      Unsent, Reply, Acted, Replies, netVars, drvVars, pfFilters, walkVars
<1>1. ListTypes'
  BY DEF ListTypes, Threads
<1>2. OtherTypes'
  BY DEF OtherTypes, Threads, Labels, Parts, Sizes, Macs, XcastModes, Versions, PlaceInv
<1>3. PlaceInv'
  BY DEF PlaceInv, Threads, OtherTypes, Labels
<1>4. ModeInv'
  BY DEF ModeInv, Threads, Awaited, OtherTypes, Labels, PlaceInv
<1>5. McInv'
  BY DEF McInv, Threads, Awaited, McWanted, OtherTypes, Labels, PlaceInv, ListTypes
<1>6. UcInv'
  BY DEF UcInv, Threads, Awaited, UcUpTo, OtherTypes, Labels, PlaceInv, ListTypes
<1>7. VlanInv'
  BY DEF VlanInv, Threads, OtherTypes, Labels, PlaceInv
<1>8. MacInv'
  BY DEF MacInv, OtherTypes, Labels, PlaceInv
<1>9. SizeInv'
  BY DEF SizeInv, Threads, OtherTypes, Labels, PlaceInv, Sizes
<1> QED BY <1>1, <1>2, <1>3, <1>4, <1>5, <1>6, <1>7, <1>8, <1>9

\* All VLANs are back; the frame size is sent.
LEMMA CfgRlpmlKeeps ==
  ASSUME FiltersIInv, NEW out \in Replies, CfgRlpml(out)
  PROVE  FiltersIInv'
<1> USE FiltersAssumption DEF FiltersIInv, CfgRlpml, Restored, MaxFrame, SetRlpml, HvLimit,
      Settles, At, HyperV, Reply, Acted, Replies, netVars, drvVars, pfFilters, walkVars
<1>1. ListTypes'
  BY DEF ListTypes, Threads
<1>2. OtherTypes'
  BY DEF OtherTypes, Threads, Labels, Parts, Sizes, Macs, XcastModes, Versions, PlaceInv
<1>3. PlaceInv'
  BY DEF PlaceInv, Threads, OtherTypes, Labels
<1>4. ModeInv'
  BY DEF ModeInv, Threads, Awaited, OtherTypes, Labels, PlaceInv
<1>5. McInv'
  BY DEF McInv, Threads, Awaited, McWanted, OtherTypes, Labels, PlaceInv, ListTypes
<1>6. UcInv'
  BY DEF UcInv, Threads, Awaited, UcUpTo, OtherTypes, Labels, PlaceInv, ListTypes
<1>7. VlanInv'
  BY DEF VlanInv, Threads, OtherTypes, Labels, PlaceInv
<1>8. MacInv'
  BY DEF MacInv, OtherTypes, Labels, PlaceInv
<1>9. SizeInv'
  BY DEF SizeInv, Threads, OtherTypes, Labels, PlaceInv, Sizes
<1> QED BY <1>1, <1>2, <1>3, <1>4, <1>5, <1>6, <1>7, <1>8, <1>9

\* The address is sent; the restart is over.
LEMMA CfgRarKeeps ==
  ASSUME FiltersIInv, NEW out \in Replies, CfgRar(out)
  PROVE  FiltersIInv'
<1> USE FiltersAssumption DEF FiltersIInv, CfgRar, SetRar, Refused, Diverges, At, HyperV,
      Reply, Acted, Replies, netVars, drvVars, pfFilters, walkVars
<1>1. ListTypes'
  BY DEF ListTypes, Threads
<1>2. OtherTypes'
  BY DEF OtherTypes, Threads, Labels, Parts, Sizes, Macs, XcastModes, Versions, PlaceInv
<1>3. PlaceInv'
  BY DEF PlaceInv, Threads, OtherTypes, Labels
<1>4. ModeInv'
  BY DEF ModeInv, Threads, Awaited, OtherTypes, Labels, PlaceInv
<1>5. McInv'
  BY DEF McInv, Threads, Awaited, McWanted, OtherTypes, Labels, PlaceInv, ListTypes
<1>6. UcInv'
  BY DEF UcInv, Threads, Awaited, UcUpTo, OtherTypes, Labels, PlaceInv, ListTypes
<1>7. VlanInv'
  BY DEF VlanInv, Threads, OtherTypes, Labels, PlaceInv
<1>8. MacInv'
  BY DEF MacInv, OtherTypes, Labels, PlaceInv
<1>9. SizeInv'
  BY DEF SizeInv, Threads, OtherTypes, Labels, PlaceInv, Sizes
<1> QED BY <1>1, <1>2, <1>3, <1>4, <1>5, <1>6, <1>7, <1>8, <1>9

\* The administrator's address makes PF and VF differ until the next reset.
LEMMA PfSetMacKeeps ==
  ASSUME FiltersIInv, PfSetMac
  PROVE  FiltersIInv'
<1> USE FiltersAssumption DEF FiltersIInv, PfSetMac, Change, HyperV, Replies, netVars,
      drvVars, pfFilters, walkVars
<1>1. ListTypes'
  BY DEF ListTypes, Threads
<1>2. OtherTypes'
  BY DEF OtherTypes, Threads, Labels, Parts, Sizes, Macs, XcastModes, Versions, PlaceInv
<1>3. PlaceInv'
  BY DEF PlaceInv, Threads, OtherTypes, Labels
<1>4. ModeInv'
  BY DEF ModeInv, Threads, Awaited, OtherTypes, Labels, PlaceInv
<1>5. McInv'
  BY DEF McInv, Threads, Awaited, McWanted, OtherTypes, Labels, PlaceInv, ListTypes
<1>6. UcInv'
  BY DEF UcInv, Threads, Awaited, UcUpTo, OtherTypes, Labels, PlaceInv, ListTypes
<1>7. VlanInv'
  BY DEF VlanInv, Threads, OtherTypes, Labels, PlaceInv
<1>8. MacInv'
  BY DEF MacInv, OtherTypes, Labels, PlaceInv
<1>9. SizeInv'
  BY DEF SizeInv, Threads, OtherTypes, Labels, PlaceInv, Sizes
<1> QED BY <1>1, <1>2, <1>3, <1>4, <1>5, <1>6, <1>7, <1>8, <1>9

-----------------------------------------------------------------------------
(* The theorem.                                                            *)

LEMMA FiltersStart ==
  ASSUME FiltersInit(Versions)
  PROVE  FiltersIInv
<1> USE FiltersAssumption DEF FiltersInit
<1>1. ListTypes
  <2>1. Cardinality({}) = 0
    BY FS_EmptySet
  <2> QED BY <2>1 DEF ListTypes
<1>2. OtherTypes
  <2>1. apart \subseteq Parts /\ pfMode \in XcastModes
    BY DEF Parts, XcastModes
  <2>2. fpc \in [Threads -> Labels] /\ xmode \in [Threads -> XcastModes]
    BY DEF Labels, XcastModes
  <2>3. rxFlags \in XcastModes /\ mtu \in Sizes /\ pfMax \in 1 .. 3
        /\ changes \in 0 .. MaxChanges /\ faults \in 0 .. MaxFaults
    BY DEF XcastModes, Sizes
  <2>4. /\ devAddr \in Macs /\ macAddr \in Macs /\ permAddr \in Macs /\ pfMac \in Macs
        /\ job \in {"none", "mode", "config"} /\ mbxOwner \in Threads \cup {"none"}
        /\ hostApi \in Versions /\ api \in Versions
    BY DEF Macs
  <2>5. pfFixed \in BOOLEAN
    BY Zenon
  <2> QED BY <2>1, <2>2, <2>3, <2>4, <2>5 DEF OtherTypes
<1>3. PlaceInv /\ ModeInv /\ VlanInv /\ MacInv /\ SizeInv
  BY DEF PlaceInv, ModeInv, VlanInv, MacInv, SizeInv, Threads, Versions, HyperV
<1>4. McInv /\ UcInv
  BY DEF McInv, UcInv, McWanted, UcUpTo, Threads
<1> QED BY <1>1, <1>2, <1>3, <1>4 DEF FiltersIInv

LEMMA FiltersStep ==
  ASSUME FiltersIInv, [FiltersNext]_filterVars
  PROVE  FiltersIInv'
<1>1. ASSUME NEW t \in Threads, SetRxMode(t) PROVE FiltersIInv'
  BY <1>1, RxModeReadKeeps, RxModeXcastKeeps, RxModeMcKeeps, RxModeUcKeeps, RxModeDoneKeeps
     DEF SetRxMode
<1>2. CASE StackCalls
  BY <1>2, McAddKeeps, McDelKeeps, UcAddKeeps, UcDelKeeps, SetFlagsKeeps, VlanAddKeeps,
     VlanKillKeeps, SetMacKeeps, ChangeMtuKeeps
     DEF StackCalls
<1>3. CASE Reconfigure
  BY <1>3, ReinitKeeps, CfgResetKeeps, CfgVlanKeeps, CfgRlpmlKeeps, CfgRarKeeps
     DEF Reconfigure
<1>4. CASE UNCHANGED filterVars
  BY <1>4 DEF FiltersIInv, ListTypes, OtherTypes, PlaceInv, ModeInv, McInv, UcInv, VlanInv,
     MacInv, SizeInv, Awaited, HyperV, McWanted, UcUpTo, filterVars, netVars, drvVars,
     pfFilters, walkVars
<1> QED BY <1>1, <1>2, <1>3, <1>4, PfSetMacKeeps DEF FiltersNext

LEMMA FiltersIInvHeld ==
  ASSUME FiltersIInv
  PROVE  FiltersHeld
<1> USE DEF FiltersIInv
<1>1. FiltersTypeOK
  <2>1. {mcList[i] : i \in DOMAIN mcList} \cup {ucList[i] : i \in DOMAIN ucList} \subseteq Addrs
    BY DEF ListTypes
  <2>2. {rxFlags, pfMode, xmode["rtnl"], xmode["addr"]} \subseteq XcastModes
    BY DEF OtherTypes, Threads
  <2> QED BY <2>1, <2>2 DEF FiltersTypeOK, ListTypes, OtherTypes, Labels, Parts
<1>2. FiltersMatch
  BY DEF FiltersMatch, Quiet, ModeInv, McInv, UcInv, McWanted, Awaited, Threads
<1>3. VlansMatch
  BY DEF VlansMatch, Quiet, VlanInv, PlaceInv, Threads
<1>4. MacFollows /\ FrameFits
  BY DEF MacFollows, FrameFits, RtnlFree, MacInv, SizeInv, PlaceInv
<1> QED BY <1>1, <1>2, <1>3, <1>4 DEF FiltersHeld

\* Through refusals, lost and crossing messages, changes of the lists under a walk and resets,
\* the PF filters what ixgbevf_set_rx_mode, ixgbevf_vlan_rx_add_vid, ixgbevf_set_mac and
\* ixgbevf_change_mtu told the stack it does, for any number of addresses, VLANs and changes.
THEOREM PfHoldsTheFilters == FiltersSpec => []FiltersHeld
<1>1. FiltersInit(Versions) => FiltersIInv
  BY FiltersStart
<1>2. FiltersIInv /\ [FiltersNext]_filterVars => FiltersIInv'
  BY FiltersStep
<1>3. FiltersIInv => FiltersHeld
  BY FiltersIInvHeld
<1> QED BY <1>1, <1>2, <1>3, PTL DEF FiltersSpec
=============================================================================
