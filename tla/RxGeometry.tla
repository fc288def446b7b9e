----------------------------- MODULE RxGeometry -----------------------------
(***************************************************************************)
(* Receive buffers against frame sizes.  A buffer is half of a page (or of *)
(* two); with build_skb the headroom and the skb_shared_info lie in it     *)
(* too.  What the hardware may write depends on VFSRRCTL, on RLPML, which  *)
(* the 82599 does not have, and on what the PF lets through.  The MTU, the *)
(* legacy-rx flag and XDP programs come and go under rtnl, on interfaces   *)
(* that are up and on such that are down.  Sizes are in bytes, for pages   *)
(* of 4096.                                                                *)
(***************************************************************************)
EXTENDS Integers

CONSTANTS
  Mtus,       \* MTUs that are tried
  PfFrames    \* largest frames that the PF, or a later setting of it, lets through

ASSUME RxGeometryAssumption == Mtus \subseteq Nat /\ PfFrames \subseteq Nat

\* ETH_HLEN + ETH_FCS_LEN, VLAN_HLEN, IXGBE_MAX_JUMBO_FRAME_SIZE
FrameOverhead == 18
VlanTag == 4
MaxJumbo == 16128
\* NET_SKB_PAD + NET_IP_ALIGN; skb_shared_info, aligned
SkbPad == 64
SharedInfo == 320
\* IXGBEVF_MAX_FRAME_BUILD_SKB
MaxFrameBuildSkb == 2048 - SharedInfo - SkbPad

VARIABLES
  is82599,            \* hw->mac.type = ixgbe_mac_82599_vf
  gmtu, legacyRx,     \* netdev->mtu, IXGBEVF_FLAGS_LEGACY_RX
  gprog, gup,         \* an XDP program is attached; the interface is up
  build, large,       \* __IXGBEVF_RX_BUILD_SKB_ENABLED, __IXGBEVF_RX_3K_BUFFER
  bsize, rlpml,       \* packet buffer size in VFSRRCTL; VFRXDCTL.RLPML, 0 if not enabled
  pfFrame             \* largest frame the PF lets through

geoVars == <<is82599, gmtu, legacyRx, gprog, gup, build, large, bsize, rlpml, pfFrame>>

\* A probed device, closed.
RxGeometryInit(macs, frames) ==
  /\ is82599 \in macs /\ gmtu = 1500 /\ legacyRx = FALSE /\ gprog = FALSE /\ gup = FALSE
  /\ build = FALSE /\ large = FALSE /\ bsize = 0 /\ rlpml = 0
  /\ pfFrame \in frames

Least(a, b) == IF a < b THEN a ELSE b

-----------------------------------------------------------------------------
(* The rings.                                                              *)

\* max_frame <= IXGBEVF_MAX_FRAME_BUILD_SKB
NeedsLarge(mtu) == mtu + FrameOverhead > MaxFrameBuildSkb

\* ixgbevf_set_rx_buffer_len
BuildSkb(legacy) == ~legacy

\* ... and its second flag
LargeBuffer(mtu, legacy) == ~legacy /\ NeedsLarge(mtu)

\* Mutant: always the larger size.
SrrctlFixed(isLarge) == 3072

\* ixgbevf_configure_srrctl
SrrctlSize(isLarge) == IF isLarge THEN 3072 ELSE 2048

\* ixgbevf_configure_rx_ring: "cap rlpml at both the MTU and the SKB buffer size"
Rlpml(mtu, isBuild, isLarge) ==
  LET max == mtu + FrameOverhead
  IN  IF isBuild /\ ~isLarge THEN Least(max, MaxFrameBuildSkb) ELSE max

\* ixgbevf_configure_rx, with the settings that hold from now on
ConfigureRx(mtu, legacy) ==
  /\ build' = BuildSkb(legacy) /\ large' = LargeBuffer(mtu, legacy)
  /\ bsize' = SrrctlSize(large')
  /\ rlpml' = IF is82599 THEN 0 ELSE Rlpml(mtu, build', large')

\* the interface restarts if it is up
RestartIfUp(mtu, legacy) ==
  IF gup THEN ConfigureRx(mtu, legacy) ELSE UNCHANGED <<build, large, bsize, rlpml>>

\* ixgbevf_rx_bufsz and ixgbevf_rx_pg_size
RxBufsz == IF large THEN 3072 ELSE IF build THEN MaxFrameBuildSkb ELSE 2048
RxPgSize == IF large THEN 8192 ELSE 4096

-----------------------------------------------------------------------------
(* Operations, all under rtnl.                                             *)

GeoOpen ==
  /\ ~gup /\ gup' = TRUE
  /\ ConfigureRx(gmtu, legacyRx)
  /\ UNCHANGED <<is82599, gmtu, legacyRx, gprog, pfFrame>>

\* the rings keep their flags
GeoClose ==
  /\ gup /\ gup' = FALSE
  /\ UNCHANGED <<is82599, gmtu, legacyRx, gprog, build, large, bsize, rlpml, pfFrame>>

\* "prevent MTU being changed to a size unsupported by XDP"
MtuFree == ~gprog

\* ixgbevf_change_mtu; the PF agrees
GeoChangeMtu(mtu) ==
  /\ MtuFree /\ mtu >= 68 /\ mtu + FrameOverhead <= MaxJumbo /\ mtu # gmtu
  /\ gmtu' = mtu
  /\ RestartIfUp(mtu, legacyRx)
  /\ UNCHANGED <<is82599, legacyRx, gprog, gup, pfFrame>>

\* ixgbevf_set_priv_flags
SetPrivFlags ==
  /\ legacyRx' = ~legacyRx
  /\ RestartIfUp(gmtu, ~legacyRx)
  /\ UNCHANGED <<is82599, gmtu, gprog, gup, pfFrame>>

\* "verify ixgbevf ring attributes are sufficient for XDP"
XdpFits == gmtu + FrameOverhead + VlanTag <= RxBufsz

\* ixgbevf_xdp_setup, attaching or detaching: the rings are made anew
XdpSetup ==
  /\ XdpFits /\ gprog' = ~gprog
  /\ IF gup THEN ConfigureRx(gmtu, legacyRx)
            ELSE build' = FALSE /\ large' = FALSE /\ UNCHANGED <<bsize, rlpml>>
  /\ UNCHANGED <<is82599, gmtu, legacyRx, gup, pfFrame>>

\* The PF, or another VF by its request, changes what is let through (external).
PfFrameChange(size) ==
  /\ size # pfFrame /\ pfFrame' = size
  /\ UNCHANGED <<is82599, gmtu, legacyRx, gprog, gup, build, large, bsize, rlpml>>

RxGeometryNext ==
  \/ GeoOpen \/ GeoClose \/ SetPrivFlags \/ XdpSetup
  \/ \E mtu \in Mtus : GeoChangeMtu(mtu)
  \/ \E size \in PfFrames : PfFrameChange(size)

RxGeometrySpec == RxGeometryInit(BOOLEAN, PfFrames) /\ [][RxGeometryNext]_geoVars

-----------------------------------------------------------------------------
(* Properties.                                                             *)

\* Type invariant of the receive geometry.
RxGeometryTypeOK ==
  /\ {is82599, legacyRx, gprog, gup, build, large} \subseteq BOOLEAN
  /\ gmtu + FrameOverhead <= MaxJumbo /\ bsize \in {0, 2048, 3072}
  /\ rlpml \in 0 .. MaxJumbo /\ (large => build)

\* the longest frame that reaches the buffers, and what of it goes into one of them
Accepted == IF rlpml = 0 THEN pfFrame ELSE Least(rlpml, pfFrame)
WrittenAt == IF build THEN SkbPad ELSE 0
Room == RxPgSize \div 2 - IF build THEN SharedInfo ELSE 0
Holds == WrittenAt + Least(bsize, Accepted) <= Room

\* The 82599 has no RLPML: there nothing but the PF keeps frames to the size asked of it
\* (set_rlpml) when the rings were configured.
FramesLimited == ~is82599 \/ pfFrame <= gmtu + FrameOverhead

\* The hardware never writes past a buffer, nor over the skb_shared_info that build_skb
\* puts behind the data: with RLPML whatever the PF lets through, on the 82599 as long as
\* the PF lets through no more than this VF asked for.
BufferHolds == gup /\ FramesLimited => Holds

\* An XDP program sees whole frames: while one is attached a frame fits into one buffer.
\* (Not so when legacy-rx is set underneath it, ethtool.c 2105, which nothing checks.)
XdpWhole == gup /\ gprog /\ FramesLimited /\ ~legacyRx => Accepted <= bsize

\* The interface receives what its MTU promises.
MtuReceived == gup /\ ~is82599 => rlpml >= gmtu + FrameOverhead
=============================================================================
