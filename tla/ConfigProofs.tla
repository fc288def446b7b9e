---------------------------- MODULE ConfigProofs ----------------------------
(* That what probing, opening and ethtool set up is whole, for every number *)
(* of rings, queues, vectors, processors and table entries, every size of   *)
(* ring and every MTU: an inductive invariant for each of the four units,   *)
(* step by step, and what it implies.                                       *)
EXTENDS Configuration, FiniteSetTheorems, WellFoundedInduction, TLAPS

-----------------------------------------------------------------------------
(* Receive buffers.                                                        *)

\* What the rings were configured with follows from the settings in force; with an XDP
\* program attached the MTU fits the largest buffer and stays as it is.
GeoTypes ==
  /\ is82599 \in BOOLEAN /\ legacyRx \in BOOLEAN /\ gprog \in BOOLEAN /\ gup \in BOOLEAN
  /\ build \in BOOLEAN /\ large \in BOOLEAN
  /\ gmtu \in 0 .. MaxJumbo - FrameOverhead /\ pfFrame \in Nat
  /\ bsize \in {0, 2048, 3072} /\ rlpml \in 0 .. MaxJumbo /\ (large => build)
ConfiguredFor(mtu, legacy) ==
  /\ (build <=> ~legacy) /\ (large <=> LargeBuffer(mtu, legacy))
  /\ bsize = SrrctlSize(large)
  /\ rlpml = IF is82599 THEN 0 ELSE Rlpml(mtu, build, large)
GeoIInv ==
  /\ GeoTypes
  /\ gup => ConfiguredFor(gmtu, legacyRx)
  /\ gprog => gmtu + FrameOverhead + VlanTag <= 3072

LEMMA RlpmlBounded ==
  ASSUME NEW mtu \in 0 .. MaxJumbo - FrameOverhead, NEW isBuild, NEW isLarge
  PROVE  Rlpml(mtu, isBuild, isLarge) \in 0 .. MaxJumbo
<1>1. mtu + FrameOverhead \in 0 .. MaxJumbo
  BY DEF FrameOverhead, MaxJumbo
<1>2. MaxFrameBuildSkb \in 0 .. MaxJumbo
  BY DEF MaxFrameBuildSkb, SharedInfo, SkbPad, MaxJumbo
<1>3. \A x, y : Least(x, y) = x \/ Least(x, y) = y
  BY DEF Least
<1>4. \/ Rlpml(mtu, isBuild, isLarge) = Least(mtu + FrameOverhead, MaxFrameBuildSkb)
      \/ Rlpml(mtu, isBuild, isLarge) = mtu + FrameOverhead
  BY DEF Rlpml
<1> QED BY <1>1, <1>2, <1>3, <1>4

LEMMA ConfigureRxRight ==
  ASSUME NEW mtu \in 0 .. MaxJumbo - FrameOverhead, NEW legacy \in BOOLEAN,
         is82599 \in BOOLEAN, ConfigureRx(mtu, legacy)
  PROVE  /\ build' \in BOOLEAN /\ large' \in BOOLEAN /\ (large' => build')
         /\ bsize' \in {0, 2048, 3072} /\ rlpml' \in 0 .. MaxJumbo
         /\ (build' <=> ~legacy) /\ (large' <=> LargeBuffer(mtu, legacy))
         /\ bsize' = SrrctlSize(large')
         /\ rlpml' = IF is82599 THEN 0 ELSE Rlpml(mtu, build', large')
<1>1. build' = ~legacy /\ large' = LargeBuffer(mtu, legacy)
  BY DEF ConfigureRx, BuildSkb
<1>2. build' \in BOOLEAN /\ (build' <=> ~legacy)
  BY <1>1
<1>3. large' \in BOOLEAN /\ (large' <=> LargeBuffer(mtu, legacy))
  BY <1>1 DEF LargeBuffer
<1>4. large' => build'
  BY <1>2, <1>3 DEF LargeBuffer
<1>5. bsize' = SrrctlSize(large') /\ bsize' \in {0, 2048, 3072}
  BY DEF ConfigureRx, SrrctlSize
<1>6. rlpml' = IF is82599 THEN 0 ELSE Rlpml(mtu, build', large')
  BY DEF ConfigureRx
<1>7. Rlpml(mtu, build', large') \in 0 .. MaxJumbo
  BY RlpmlBounded
<1>8. rlpml' \in 0 .. MaxJumbo
  <2>1. CASE is82599
    <3>1. rlpml' = 0
      BY <1>6, <2>1
    <3> QED BY <3>1 DEF MaxJumbo
  <2>2. CASE ~is82599
    <3>1. rlpml' = Rlpml(mtu, build', large')
      BY <1>6, <2>2
    <3> QED BY <1>7, <3>1
  <2> QED BY <2>1, <2>2
<1> QED BY <1>2, <1>3, <1>4, <1>5, <1>6, <1>8

LEMMA GeoConfigured ==
  ASSUME NEW mtu \in 0 .. MaxJumbo - FrameOverhead, NEW legacy \in BOOLEAN,
         GeoTypes, ConfigureRx(mtu, legacy), UNCHANGED <<is82599>>,
         gmtu' = mtu, legacyRx' = legacy, gprog' \in BOOLEAN, gup' \in BOOLEAN, pfFrame' = pfFrame
  PROVE  GeoTypes' /\ ConfiguredFor(gmtu, legacyRx)'
<1>1. is82599 \in BOOLEAN
  BY DEF GeoTypes
<1>2. /\ build' \in BOOLEAN /\ large' \in BOOLEAN /\ (large' => build')
      /\ bsize' \in {0, 2048, 3072} /\ rlpml' \in 0 .. MaxJumbo
      /\ (build' <=> ~legacy) /\ (large' <=> LargeBuffer(mtu, legacy))
      /\ bsize' = SrrctlSize(large')
      /\ rlpml' = IF is82599 THEN 0 ELSE Rlpml(mtu, build', large')
  BY <1>1, ConfigureRxRight
<1>3. GeoTypes'
  BY <1>2 DEF GeoTypes
<1>4. ConfiguredFor(gmtu, legacyRx)'
  BY <1>2 DEF ConfiguredFor
<1> QED BY <1>3, <1>4

LEMMA GeoStep == ASSUME GeoIInv, [RxGeometryNext]_geoVars PROVE GeoIInv'
<1> USE RxGeometryAssumption
<1>0. /\ GeoTypes /\ gmtu \in 0 .. MaxJumbo - FrameOverhead /\ legacyRx \in BOOLEAN
      /\ gup \in BOOLEAN /\ gprog \in BOOLEAN
  BY DEF GeoIInv, GeoTypes
<1>1. CASE GeoOpen
  <2>1. gup' \in BOOLEAN /\ gprog' \in BOOLEAN /\ UNCHANGED <<is82599, gmtu, legacyRx, gprog, pfFrame>>
        /\ ConfigureRx(gmtu, legacyRx)
    BY <1>0, <1>1 DEF GeoOpen
  <2>2. GeoTypes' /\ ConfiguredFor(gmtu, legacyRx)'
    BY <1>0, <2>1, GeoConfigured
  <2> QED BY <2>1, <2>2 DEF GeoIInv
<1>2. CASE GeoClose
  <2>1. ~gup' /\ gup' \in BOOLEAN
        /\ UNCHANGED <<is82599, gmtu, legacyRx, gprog, build, large, bsize, rlpml, pfFrame>>
    BY <1>2 DEF GeoClose
  <2> QED BY <2>1 DEF GeoIInv, GeoTypes
<1>3. CASE SetPrivFlags
  <2>1. legacyRx' \in BOOLEAN /\ legacyRx' = ~legacyRx /\ (~legacyRx) \in BOOLEAN
    BY <1>0, <1>3 DEF SetPrivFlags
  <2>2. ASSUME gup PROVE GeoIInv'
    <3>1. ConfigureRx(gmtu, ~legacyRx) /\ UNCHANGED <<is82599, gmtu, gprog, gup, pfFrame>>
          /\ gprog' \in BOOLEAN /\ gup' \in BOOLEAN
      BY <1>0, <1>3, <2>2 DEF SetPrivFlags, RestartIfUp
    <3>2. GeoTypes' /\ ConfiguredFor(gmtu, legacyRx)'
      BY <1>0, <2>1, <3>1, GeoConfigured
    <3> QED BY <3>1, <3>2 DEF GeoIInv
  <2>3. ASSUME ~gup PROVE GeoIInv'
    <3>1. ~gup' /\ UNCHANGED <<is82599, gmtu, gprog, gup, pfFrame, build, large, bsize, rlpml>>
      BY <1>3, <2>3 DEF SetPrivFlags, RestartIfUp
    <3> QED BY <2>1, <3>1 DEF GeoIInv, GeoTypes
  <2> QED BY <2>2, <2>3
<1>4. CASE XdpSetup
  <2>1. gprog' \in BOOLEAN /\ gmtu + FrameOverhead + VlanTag <= 3072
    BY <1>0, <1>4 DEF XdpSetup, XdpFits, RxBufsz, MaxFrameBuildSkb, FrameOverhead, VlanTag,
                      SharedInfo, SkbPad
  <2>2. ASSUME gup PROVE GeoIInv'
    BY <1>0, <1>4, <2>1, <2>2, GeoConfigured DEF XdpSetup, GeoIInv
  <2>3. ASSUME ~gup PROVE GeoIInv'
    <3>1. ~gup' /\ UNCHANGED <<is82599, gmtu, legacyRx, gup, pfFrame, bsize, rlpml>>
          /\ ~build' /\ ~large' /\ build' \in BOOLEAN /\ large' \in BOOLEAN
      BY <1>4, <2>3 DEF XdpSetup
    <3> QED BY <2>1, <3>1 DEF GeoIInv, GeoTypes
  <2> QED BY <2>2, <2>3
<1>5. ASSUME NEW mtu \in Mtus, GeoChangeMtu(mtu) PROVE GeoIInv'
  <2>0. mtu \in Nat /\ mtu + FrameOverhead <= MaxJumbo
    BY <1>5 DEF GeoChangeMtu
  <2>1. mtu \in 0 .. MaxJumbo - FrameOverhead /\ gmtu' = mtu /\ ~gprog /\ ~gprog'
    BY <1>5, <2>0 DEF GeoChangeMtu, MtuFree, MaxJumbo, FrameOverhead
  <2>2. ASSUME gup PROVE GeoIInv'
    BY <1>0, <1>5, <2>1, <2>2, GeoConfigured DEF GeoChangeMtu, RestartIfUp, GeoIInv
  <2>3. ASSUME ~gup PROVE GeoIInv'
    <3>1. ~gup' /\ UNCHANGED <<is82599, legacyRx, gprog, gup, pfFrame, build, large, bsize, rlpml>>
      BY <1>5, <2>3 DEF GeoChangeMtu, RestartIfUp
    <3> QED BY <2>1, <3>1 DEF GeoIInv, GeoTypes
  <2> QED BY <2>2, <2>3
<1>6. ASSUME NEW size \in PfFrames, PfFrameChange(size) PROVE GeoIInv'
  BY <1>6 DEF PfFrameChange, GeoIInv, GeoTypes, ConfiguredFor
<1>7. CASE UNCHANGED geoVars
  BY <1>7 DEF geoVars, GeoIInv, GeoTypes, ConfiguredFor
<1> QED BY <1>1, <1>2, <1>3, <1>4, <1>5, <1>6, <1>7 DEF RxGeometryNext

LEMMA GeoImplied ==
  ASSUME GeoIInv PROVE RxGeometryTypeOK /\ BufferHolds /\ XdpWhole /\ MtuReceived
<1> USE DEF MaxJumbo, FrameOverhead, MaxFrameBuildSkb, SharedInfo, SkbPad, VlanTag
<1>1. RxGeometryTypeOK
  BY DEF RxGeometryTypeOK, GeoIInv, GeoTypes
<1>0. /\ build \in BOOLEAN /\ large \in BOOLEAN /\ is82599 \in BOOLEAN /\ gmtu \in Nat /\ pfFrame \in Nat /\ (large => build)
      /\ gprog => gmtu + FrameOverhead + VlanTag <= 3072
  BY DEF GeoIInv, GeoTypes
<1>2. ASSUME gup
      PROVE  /\ ~is82599 => rlpml >= gmtu + 18
             /\ FramesLimited => Accepted \in Nat /\ Accepted <= gmtu + 18
             /\ bsize = (IF large THEN 3072 ELSE 2048)
             /\ ~large /\ build => gmtu + 18 <= 1664
             /\ (build <=> ~legacyRx)
  <2>0. ConfiguredFor(gmtu, legacyRx)
    BY <1>2 DEF GeoIInv
  <2>1. (build <=> ~legacyRx) /\ (large <=> (~legacyRx /\ NeedsLarge(gmtu)))
    BY <2>0 DEF ConfiguredFor, LargeBuffer
  <2>2. bsize = (IF large THEN 3072 ELSE 2048)
    BY <2>0 DEF ConfiguredFor, SrrctlSize
  <2>3. ~large /\ build => gmtu + 18 <= 1664
    BY <1>0, <2>1 DEF NeedsLarge
  <2>4. CASE is82599
    <3>1. rlpml = 0
      BY <2>0, <2>4 DEF ConfiguredFor
    <3>2. FramesLimited => Accepted \in Nat /\ Accepted <= gmtu + 18
      BY <1>0, <2>4, <3>1 DEF Accepted, FramesLimited
    <3> QED BY <2>1, <2>2, <2>3, <2>4, <3>2
  <2>5. CASE ~is82599
    <3>1. rlpml = Rlpml(gmtu, build, large)
      BY <2>0, <2>5 DEF ConfiguredFor
    <3>2. rlpml \in Nat /\ rlpml >= gmtu + 18 /\ rlpml > 0 /\ rlpml <= gmtu + 18
      BY <1>0, <2>1, <3>1 DEF Rlpml, Least, NeedsLarge
    <3>3. Accepted \in Nat /\ Accepted <= gmtu + 18
      BY <1>0, <3>2 DEF Accepted, Least
    <3> QED BY <2>1, <2>2, <2>3, <3>2, <3>3
  <2> QED BY <1>0, <2>4, <2>5
<1>3. BufferHolds
  <2>1. SUFFICES ASSUME gup, FramesLimited PROVE Holds
    BY DEF BufferHolds
  <2>2. Accepted \in Nat /\ bsize \in Nat /\ Accepted <= gmtu + 18
        /\ bsize = (IF large THEN 3072 ELSE 2048) /\ (~large /\ build => gmtu + 18 <= 1664)
    BY <1>2, <2>1
  <2>3. Least(bsize, Accepted) <= bsize /\ Least(bsize, Accepted) <= Accepted /\ Least(bsize, Accepted) \in Nat
    BY <2>2 DEF Least
  <2>4. Room = (IF large THEN 4096 ELSE 2048) - (IF build THEN 320 ELSE 0)
    BY DEF Room, RxPgSize
  <2> HIDE DEF MaxFrameBuildSkb, SharedInfo, SkbPad
  <2>5. WrittenAt = IF build THEN 64 ELSE 0
    BY DEF WrittenAt, SkbPad
  <2> QED BY <1>0, <2>2, <2>3, <2>4, <2>5 DEF Holds
<1>4. XdpWhole
  <2>1. SUFFICES ASSUME gup, gprog, FramesLimited, ~legacyRx PROVE Accepted <= bsize
    BY DEF XdpWhole
  <2>2. gmtu + 22 <= 3072
    BY <1>0, <2>1
  <2> QED BY <1>0, <1>2, <2>1, <2>2
<1>5. MtuReceived
  BY <1>2 DEF MtuReceived
<1> QED BY <1>1, <1>3, <1>4, <1>5

LEMMA GeoInit == ASSUME RxGeometryInit(BOOLEAN, PfFrames) PROVE GeoIInv
<1>1. is82599 \in BOOLEAN /\ pfFrame \in Nat
  BY RxGeometryAssumption DEF RxGeometryInit
<1>2. /\ gmtu = 1500 /\ legacyRx = FALSE /\ gprog = FALSE /\ gup = FALSE
      /\ build = FALSE /\ large = FALSE /\ bsize = 0 /\ rlpml = 0
  BY DEF RxGeometryInit
<1>3. legacyRx \in BOOLEAN /\ gprog \in BOOLEAN /\ gup \in BOOLEAN /\ build \in BOOLEAN /\ large \in BOOLEAN
  BY <1>2
<1>4. GeoTypes
  BY <1>1, <1>2, <1>3 DEF GeoTypes, MaxJumbo, FrameOverhead
<1> QED BY <1>2, <1>4 DEF GeoIInv

-----------------------------------------------------------------------------
(* Receive side scaling.                                                   *)

Udp == {"udp4", "udp6"}

\* What holds of the RSS state between any two calls.
RssTypes ==
  /\ rssMac \in {"82599", "x550"} /\ rxQueues \in QueueCounts
  /\ udpFlags \subseteq Udp /\ vfmrqc \subseteq AlwaysHashed \cup Udp
  /\ rqpl \in BOOLEAN /\ programmed \in BOOLEAN /\ hashesLeft \in 0 .. MaxHashes
  /\ rxfh \in [indir : BOOLEAN, key : BOOLEAN, err : BOOLEAN, keyOf : {"none", "adapter", "pf"}]
  /\ pfReta \in [Entries -> 0 .. 3]
TableIs ==
  /\ (rqpl <=> rxQueues > 1)
  /\ indirTbl = (IF Newer THEN Spread(rxQueues) ELSE [i \in Entries |-> 0])
  /\ vfreta = Packed(indirTbl)
Shown ==
  reported # <<>> =>
    \A i \in Entries :
      reported[i] = IF Newer THEN indirTbl[i] ELSE IF rqpl THEN pfReta[i] % 2 ELSE 0
RoundTrips ==
  /\ askedHash \in [HashedFlows -> SUBSET HashBits]
  /\ Newer => \A f \in HashedFlows :
       askedHash[f] = Hosts \cup IF f \in {"tcp4", "tcp6"} \/ f \in udpFlags THEN Ports ELSE {}
RssIInv == RssTypes /\ TableIs /\ Shown /\ HashProgrammed /\ RoundTrips /\ RxfhWhole

LEMMA DivMod ==
  ASSUME NEW x \in Nat, NEW n \in Nat \ {0}
  PROVE  /\ x \div n \in Nat /\ x % n \in 0 .. n - 1 /\ x = n * (x \div n) + (x % n)
OBVIOUS

LEMMA ModIs ==
  ASSUME NEW n \in Nat \ {0}, NEW k \in Nat, NEW r \in 0 .. n - 1
  PROVE  (n * k + r) % n = r
OBVIOUS

LEMMA SpreadInRange ==
  ASSUME NEW n \in 1 .. 255
  PROVE  /\ Spread(n) \in [Entries -> 0 .. 255]
         /\ \A i \in Entries : Spread(n)[i] = i % n /\ i % n \in 0 .. n - 1
<1>1. \A i \in Entries : i % n \in 0 .. n - 1
  BY RssAssumption, DivMod DEF Entries
<1> QED BY <1>1 DEF Spread

Word(a, b, c, d) == a + 256 * b + 65536 * c + 16777216 * d

LEMMA EntryIsUnpacked ==
  ASSUME NEW tbl \in [Entries -> 0 .. 255], vfreta = Packed(tbl)
  PROVE  /\ \A i \in Entries : Entry(i) = tbl[i]
         /\ \A r \in DOMAIN vfreta : vfreta[r] >= 0
<1>0. RetaSize \in Nat /\ RetaSize = 4 * (RetaSize \div 4) /\ RetaSize \div 4 \in Nat
  BY RssAssumption
<1>1. ASSUME NEW r \in 0 .. (RetaSize \div 4) - 1
      PROVE  /\ vfreta[r] \in Nat
             /\ (vfreta[r] \div 1) % 256 = tbl[4 * r] /\ (vfreta[r] \div 256) % 256 = tbl[4 * r + 1]
             /\ (vfreta[r] \div 65536) % 256 = tbl[4 * r + 2]
             /\ (vfreta[r] \div 16777216) % 256 = tbl[4 * r + 3]
  <2>1. 4 * r \in Entries /\ 4 * r + 1 \in Entries /\ 4 * r + 2 \in Entries /\ 4 * r + 3 \in Entries
    BY <1>0 DEF Entries
  <2>2. /\ tbl[4 * r] \in 0 .. 255 /\ tbl[4 * r + 1] \in 0 .. 255
        /\ tbl[4 * r + 2] \in 0 .. 255 /\ tbl[4 * r + 3] \in 0 .. 255
    BY <2>1
  <2>3. vfreta[r] = Word(tbl[4 * r], tbl[4 * r + 1], tbl[4 * r + 2], tbl[4 * r + 3])
    BY DEF Packed, Word
  <2> DEFINE a == tbl[4 * r]  b == tbl[4 * r + 1]  c == tbl[4 * r + 2]  d == tbl[4 * r + 3]
             w == vfreta[r]
  <2>4. a \in 0 .. 255 /\ b \in 0 .. 255 /\ c \in 0 .. 255 /\ d \in 0 .. 255
        /\ w = a + 256 * b + 65536 * c + 16777216 * d
    BY <2>2, <2>3 DEF Word
  <2>5. /\ w \in Nat /\ (w \div 1) % 256 = a /\ (w \div 256) % 256 = b
        /\ (w \div 65536) % 256 = c /\ (w \div 16777216) % 256 = d
    <3> HIDE DEF a, b, c, d, w
    <3>1. w \in Nat
      BY ONLY <2>4
    <3>2. (w \div 1) % 256 = a
      <4>1. w \div 1 = w /\ w = 256 * (b + 256 * c + 65536 * d) + a
        BY ONLY <2>4, <3>1
      <4> QED BY ONLY <2>4, <4>1
    <3>3. (w \div 256) % 256 = b
      <4>1. w \div 256 = b + 256 * c + 65536 * d
        BY ONLY <2>4
      <4> QED BY ONLY <2>4, <4>1
    <3>4. (w \div 65536) % 256 = c
      <4>1. w \div 65536 = c + 256 * d
        BY ONLY <2>4
      <4> QED BY ONLY <2>4, <4>1
    <3>5. (w \div 16777216) % 256 = d
      <4>1. w \div 16777216 = d
        BY ONLY <2>4
      <4> QED BY ONLY <2>4, <4>1
    <3> QED BY ONLY <3>1, <3>2, <3>3, <3>4, <3>5
  <2> QED BY <2>5
<1>2. ASSUME NEW i \in Entries PROVE Entry(i) = tbl[i]
  <2>1. PICK r \in 0 .. (RetaSize \div 4) - 1, m \in 0 .. 3 :
          i = 4 * r + m /\ i \div 4 = r /\ i % 4 = m
    BY <1>0 DEF Entries
  <2>2. Entry(i) = (vfreta[r] \div Byte(m)) % 256
    BY <2>1 DEF Entry
  <2>3. CASE m = 0
    <3>1. Byte(m) = 1 /\ i = 4 * r
      BY <2>1, <2>3 DEF Byte
    <3> QED BY <1>1, <2>2, <3>1
  <2>4. CASE m = 1
    <3>1. Byte(m) = 256 /\ i = 4 * r + 1
      BY <2>1, <2>4 DEF Byte
    <3> QED BY <1>1, <2>2, <3>1
  <2>5. CASE m = 2
    <3>1. Byte(m) = 65536 /\ i = 4 * r + 2
      BY <2>1, <2>5 DEF Byte
    <3> QED BY <1>1, <2>2, <3>1
  <2>6. CASE m = 3
    <3>1. Byte(m) = 16777216 /\ i = 4 * r + 3
      BY <2>1, <2>6 DEF Byte
    <3> QED BY <1>1, <2>2, <3>1
  <2> QED BY <2>3, <2>4, <2>5, <2>6
<1>3. DOMAIN vfreta = 0 .. (RetaSize \div 4) - 1
  BY DEF Packed
<1> QED BY <1>1, <1>2, <1>3

\* The entries that name a queue; going round and round gives no queue two more than another.
Share(n, q) == {i \in Entries : i % n = q}

LEMMA ShareFinite ==
  ASSUME NEW n \in 1 .. 255, NEW q \in 0 .. n - 1
  PROVE  IsFiniteSet(Share(n, q)) /\ Cardinality(Share(n, q)) \in Nat
<1>1. IsFiniteSet(Entries)
  BY RssAssumption, FS_Interval DEF Entries
<1>2. IsFiniteSet(Share(n, q))
  BY <1>1, FS_Subset DEF Share
<1> QED BY <1>2, FS_CardinalityType

LEMMA ShareMember ==
  ASSUME NEW n \in 1 .. 255, NEW q \in 0 .. n - 1, NEW i \in Share(n, q)
  PROVE  i \in 0 .. RetaSize - 1 /\ \E k \in Nat : i = n * k + q /\ n * k \in Nat
<1>1. i \in 0 .. RetaSize - 1 /\ i \in Nat /\ i % n = q
  BY RssAssumption DEF Share, Entries
<1>2. n \in Nat \ {0}
  OBVIOUS
<1> DEFINE k == i \div n
<1>3. k \in Nat /\ i = n * k + (i % n)
  BY ONLY <1>1, <1>2, DivMod
<1> HIDE DEF k
<1>4. n * k \in Nat
  BY <1>2, <1>3
<1> QED BY <1>1, <1>3, <1>4

LEMMA MemberOfShare ==
  ASSUME NEW n \in 1 .. 255, NEW q \in 0 .. n - 1, NEW k \in Nat, n * k + q < RetaSize
  PROVE  n * k + q \in Share(n, q)
<1>1. n \in Nat \ {0} /\ RetaSize \in Nat
  BY RssAssumption
<1>2. (n * k + q) % n = q
  BY ONLY <1>1, q \in 0 .. n - 1, k \in Nat, ModIs
<1>3. n * k \in Nat
  BY <1>1
<1>4. n * k + q \in Entries
  BY <1>1, <1>3 DEF Entries
<1> QED BY <1>2, <1>4 DEF Share

LEMMA SharesEven ==
  ASSUME NEW n \in 1 .. 255, NEW p \in 0 .. n - 1, NEW q \in 0 .. n - 1
  PROVE  Cardinality(Share(n, p)) <= Cardinality(Share(n, q)) + 1
<1>0. /\ IsFiniteSet(Share(n, q)) /\ Cardinality(Share(n, q)) \in Nat
      /\ IsFiniteSet(Share(n, p)) /\ Cardinality(Share(n, p)) \in Nat
      /\ \A i \in Share(n, p) : i \in Int
  <2>1. \A i \in Share(n, p) : i \in 0 .. RetaSize - 1
    BY DEF Share, Entries
  <2>2. \A i \in Share(n, p) : i \in Int
    BY <2>1, RssAssumption
  <2> QED BY <2>2, ShareFinite
<1>1. CASE q <= p
  <2> DEFINE f == [i \in Share(n, p) |-> i - (p - q)]
  <2>1. ASSUME NEW i \in Share(n, p) PROVE i - (p - q) \in Share(n, q)
    <3>1. PICK k \in Nat : i = n * k + p /\ n * k \in Nat /\ i \in 0 .. RetaSize - 1
      BY ShareMember
    <3>2. i - (p - q) = n * k + q /\ n * k + q < RetaSize
      BY <1>1, <3>1, RssAssumption
    <3> QED BY <3>2, MemberOfShare
  <2>2. f \in Injection(Share(n, p), Share(n, q))
    <3>1. f \in [Share(n, p) -> Share(n, q)]
      BY <2>1
    <3>2. \A i, j \in Share(n, p) : f[i] = f[j] => i = j
      BY <1>0
    <3> QED BY <3>1, <3>2 DEF Injection, IsInjective
  <2> HIDE DEF f
  <2>3. Cardinality(Share(n, p)) <= Cardinality(Share(n, q))
    BY <1>0, <2>2, FS_Injection
  <2> QED BY <1>0, <2>3
<1>2. CASE q > p
  <2> DEFINE S == Share(n, p) \ {p}
             f == [i \in S |-> i - ((n - q) + p)]
  <2>1. ASSUME NEW i \in S PROVE i - ((n - q) + p) \in Share(n, q)
    <3>1. PICK k \in Nat : i = n * k + p /\ n * k \in Nat /\ i \in 0 .. RetaSize - 1
      BY ShareMember
    <3>2. k # 0
      <4> SUFFICES ASSUME k = 0 PROVE FALSE
        OBVIOUS
      <4> QED BY <3>1
    <3> DEFINE l == k - 1
    <3>3. l \in Nat /\ k = l + 1
      BY <3>2
    <3> HIDE DEF l
    <3>4. n * k = n * l + n /\ n * l \in Nat
      BY <3>3
    <3>5. i - ((n - q) + p) = n * l + q /\ n * l + q < RetaSize
      BY <1>2, <3>1, <3>4, RssAssumption
    <3> QED BY <3>3, <3>5, MemberOfShare
  <2>2. f \in Injection(S, Share(n, q))
    <3>1. f \in [S -> Share(n, q)]
      BY <2>1
    <3>2. \A i, j \in S : f[i] = f[j] => i = j
      BY <1>0
    <3> QED BY <3>1, <3>2 DEF Injection, IsInjective
  <2>3. Cardinality(S) <= Cardinality(Share(n, q))
    <3> HIDE DEF f, S
    <3> QED BY <1>0, <2>2, FS_Injection
  <2>4. CASE p \in Share(n, p)
    <3>1. Cardinality(S) = Cardinality(Share(n, p)) - 1
      BY <1>0, <2>4, FS_RemoveElement
    <3> HIDE DEF S
    <3> QED BY <1>0, <2>3, <3>1
  <2>5. CASE p \notin Share(n, p)
    <3>1. S = Share(n, p)
      BY <2>5
    <3> HIDE DEF S
    <3> QED BY <1>0, <2>3, <3>1
  <2> QED BY <2>4, <2>5
<1> QED BY <1>1, <1>2

LEMMA CountIs ==
  ASSUME NEW n \in QueueCounts
  PROVE  n \in 1 .. 255 /\ 0 \in Entries
BY RssAssumption DEF Entries

LEMMA TableTyped ==
  ASSUME RssTypes, TableIs PROVE indirTbl \in [Entries -> 0 .. 255]
<1>1. rxQueues \in 1 .. 255
  BY CountIs DEF RssTypes
<1>2. CASE Newer
  BY <1>1, <1>2, SpreadInRange DEF TableIs
<1>3. CASE ~Newer
  BY <1>3 DEF TableIs
<1> QED BY <1>2, <1>3

LEMMA RssImplied ==
  ASSUME RssIInv
  PROVE  RssTypeOK /\ TableSpreads /\ HashProgrammed /\ HashRoundTrip /\ TableReported /\ RxfhWhole
<1>0. RssTypes /\ TableIs /\ indirTbl \in [Entries -> 0 .. 255] /\ rxQueues \in 1 .. 255
  BY TableTyped, CountIs DEF RssIInv, RssTypes
<1>1. /\ \A i \in Entries : Entry(i) = indirTbl[i]
      /\ \A r \in DOMAIN vfreta : vfreta[r] >= 0
  BY <1>0, EntryIsUnpacked DEF TableIs
<1>2. RssTypeOK
  BY <1>0, <1>1 DEF RssTypes, RssTypeOK, Udp
<1>3. TableSpreads
  <2> SUFFICES ASSUME Newer
               PROVE  /\ \A i \in Entries : Entry(i) = indirTbl[i] /\ indirTbl[i] < rxQueues
                      /\ \A p, q \in 0 .. rxQueues - 1 :
                           Cardinality({i \in Entries : indirTbl[i] = p})
                             <= Cardinality({i \in Entries : indirTbl[i] = q}) + 1
    BY DEF TableSpreads
  <2>1. \A i \in Entries : indirTbl[i] = i % rxQueues /\ i % rxQueues \in 0 .. rxQueues - 1
    BY <1>0, SpreadInRange DEF TableIs
  <2>2. ASSUME NEW q \in 0 .. rxQueues - 1
        PROVE  {i \in Entries : indirTbl[i] = q} = Share(rxQueues, q)
    BY <2>1 DEF Share
  <2>3. \A i \in Entries : indirTbl[i] < rxQueues
    BY <1>0, <2>1
  <2>4. ASSUME NEW p \in 0 .. rxQueues - 1, NEW q \in 0 .. rxQueues - 1
        PROVE  Cardinality({i \in Entries : indirTbl[i] = p})
                 <= Cardinality({i \in Entries : indirTbl[i] = q}) + 1
    BY <1>0, <2>2, SharesEven
  <2> QED BY <1>1, <2>3, <2>4
<1>4. HashRoundTrip
  BY DEF RssIInv, RoundTrips, HashRoundTrip, HashOpts
<1>5. TableReported
  BY <1>1 DEF RssIInv, Shown, TableReported
<1> QED BY <1>2, <1>3, <1>4, <1>5 DEF RssIInv

LEMMA RssInitHolds ==
  ASSUME RssInit(RssMacs, RssApis, QueueCounts, 1 .. 4) PROVE RssIInv
<1>1. RssTypes
  <2>1. pfReta \in [Entries -> 0 .. 3]
    <3>1. PICK k \in 1 .. 4 : pfReta = [i \in Entries |-> i % k]
      BY DEF RssInit
    <3>2. \A i \in Entries : i % k \in 0 .. 3
      BY RssAssumption DEF Entries
    <3> QED BY <3>1, <3>2
  <2>2. rqpl \in BOOLEAN /\ programmed \in BOOLEAN
    <3>1. rqpl = (rxQueues > 1) /\ programmed = FALSE
      BY DEF RssInit, Rqpl
    <3>2. rqpl \in BOOLEAN
      <4>1. CASE rxQueues > 1
        BY <3>1, <4>1
      <4>2. CASE ~(rxQueues > 1)
        BY <3>1, <4>2
      <4> QED BY <4>1, <4>2
    <3> QED BY <3>1, <3>2
  <2>3. vfmrqc \subseteq AlwaysHashed \cup Udp
    BY DEF RssInit, ConfiguredHash
  <2>4. rxfh \in [indir : BOOLEAN, key : BOOLEAN, err : BOOLEAN, keyOf : {"none", "adapter", "pf"}]
    BY DEF RssInit, NoRxfh
  <2> QED BY <2>1, <2>2, <2>3, <2>4, RssAssumption DEF RssInit, RssTypes
<1>2. TableIs
  BY DEF RssInit, TableIs, Rqpl
<1>3. Shown /\ RxfhWhole
  BY DEF RssInit, Shown, RxfhWhole, NoRxfh
<1>4. HashProgrammed
  BY DEF RssInit, HashProgrammed, ConfiguredHash
<1>5. RoundTrips
  BY DEF RssInit, RoundTrips, HashedFlows, HashBits, Hosts, Ports
<1> QED BY <1>1, <1>2, <1>3, <1>4, <1>5 DEF RssIInv

LEMMA ConfigureRssKeeps ==
  ASSUME RssIInv, NEW n \in QueueCounts, ConfigureRss(n) PROVE RssIInv'
<1> USE DEF RssIInv
<1>1. RssTypes'
  <2>1. rqpl' \in BOOLEAN /\ programmed' \in BOOLEAN
    <3>1. rqpl' = (n > 1) /\ (programmed' = FALSE \/ programmed' = programmed)
      BY DEF ConfigureRss, Rqpl
    <3>2. programmed' \in BOOLEAN
      BY <3>1 DEF RssTypes
    <3>3. CASE n > 1
      BY <3>1, <3>2, <3>3
    <3>4. CASE ~(n > 1)
      BY <3>1, <3>2, <3>4
    <3> QED BY <3>3, <3>4
  <2>2. vfmrqc' \subseteq AlwaysHashed \cup Udp
    BY DEF ConfigureRss, ConfiguredHash, RssTypes
  <2>3. rxfh' \in [indir : BOOLEAN, key : BOOLEAN, err : BOOLEAN, keyOf : {"none", "adapter", "pf"}]
    BY DEF ConfigureRss, NoRxfh
  <2>4. hashesLeft' \in 0 .. MaxHashes
    BY RssAssumption DEF ConfigureRss, RssTypes
  <2> QED BY <2>1, <2>2, <2>3, <2>4 DEF ConfigureRss, RssTypes
<1>2. TableIs'
  BY DEF ConfigureRss, TableIs, Rqpl, Newer
<1>3. Shown' /\ RxfhWhole'
  BY DEF ConfigureRss, Shown, RxfhWhole, NoRxfh
<1>4. HashProgrammed'
  BY DEF ConfigureRss, HashProgrammed, ConfiguredHash, Newer
<1>5. RoundTrips'
  BY DEF ConfigureRss, RoundTrips, Newer
<1> QED BY <1>1, <1>2, <1>3, <1>4, <1>5

LEMMA SetRssHashOptKeeps ==
  ASSUME RssIInv, NEW flow \in Flows, NEW data \in SUBSET HashBits, SetRssHashOpt(flow, data)
  PROVE  RssIInv'
<1> USE DEF RssIInv
<1> DEFINE flags == UdpAfter(flow, data)
<1>1. flags \subseteq Udp
  BY DEF UdpAfter, RssTypes, Udp
<1>2. /\ udpFlags' \subseteq Udp /\ vfmrqc' \subseteq AlwaysHashed \cup Udp /\ programmed' \in BOOLEAN
  BY <1>1 DEF SetRssHashOpt, RssTypes, Hashed
<1>3. hashesLeft' \in 0 .. MaxHashes
  BY RssAssumption DEF SetRssHashOpt, RssTypes
<1>4. RssTypes'
  BY <1>2, <1>3 DEF SetRssHashOpt, RssTypes
<1>5. TableIs' /\ Shown' /\ RxfhWhole'
  BY DEF SetRssHashOpt, TableIs, Shown, RxfhWhole, Newer
<1>6. HashProgrammed'
  <2>1. CASE Settable(flow, data) /\ flags # udpFlags
    <3>1. udpFlags' = flags /\ vfmrqc' = AlwaysHashed \cup flags /\ programmed' = TRUE
      BY <1>1, <2>1 DEF SetRssHashOpt, Hashed, AlwaysHashed, Udp, RssTypes
    <3> QED BY <3>1 DEF HashProgrammed, Newer
  <2>2. CASE ~(Settable(flow, data) /\ flags # udpFlags)
    <3>1. UNCHANGED <<udpFlags, vfmrqc, programmed, rssMac>>
      BY <2>2 DEF SetRssHashOpt
    <3> QED BY <3>1 DEF HashProgrammed, Newer
  <2> QED BY <2>1, <2>2
<1>7. RoundTrips'
  <2>1. CASE Settable(flow, data)
    <3>1. /\ Hosts \subseteq data /\ "vlan" \notin data /\ flow \in HashedFlows /\ Newer
          /\ udpFlags' = flags /\ askedHash' = [askedHash EXCEPT ![flow] = data] /\ Newer'
      BY <2>1 DEF SetRssHashOpt, Settable, HashedFlows, Newer
    <3>2. askedHash' \in [HashedFlows -> SUBSET HashBits]
      BY <3>1 DEF RoundTrips
    <3>3. ASSUME NEW f \in HashedFlows
          PROVE  askedHash'[f] = Hosts \cup IF f \in {"tcp4", "tcp6"} \/ f \in udpFlags' THEN Ports ELSE {}
      <4>1. CASE f # flow
        <5>1. f \in udpFlags' <=> f \in udpFlags
          BY <3>1, <4>1 DEF UdpAfter
        <5> QED BY <3>1, <4>1, <5>1 DEF RoundTrips
      <4>2. CASE f = flow
        <5>1. askedHash'[f] = data
          BY <3>1, <4>2 DEF RoundTrips
        <5>2. CASE flow \in {"tcp4", "tcp6"}
          BY <2>1, <3>1, <4>2, <5>1, <5>2 DEF Settable, Hosts, Ports, HashBits
        <5>3. CASE flow \in {"udp4", "udp6"}
          BY <2>1, <3>1, <4>2, <5>1, <5>3 DEF Settable, Hosts, Ports, HashBits, UdpAfter
        <5>4. CASE flow \in {"other4", "other6"}
          <6>1. flow \notin udpFlags'
            BY <1>1, <3>1, <5>4 DEF Udp
          <6> QED BY <2>1, <3>1, <4>2, <5>1, <5>4, <6>1 DEF Settable, Hosts, Ports, HashBits
        <5> QED BY <2>1, <5>2, <5>3, <5>4 DEF Settable
      <4> QED BY <4>1, <4>2
    <3> QED BY <3>2, <3>3 DEF RoundTrips
  <2>2. CASE ~Settable(flow, data)
    BY <2>2 DEF SetRssHashOpt, RoundTrips, Newer
  <2> QED BY <2>1, <2>2
<1> QED BY <1>4, <1>5, <1>6, <1>7

LEMMA GetRxfhKeeps ==
  ASSUME RssIInv, NEW indir \in BOOLEAN, NEW key \in BOOLEAN,
         NEW tout \in RetaReplies, NEW kout \in RetaReplies, GetRxfh(indir, key, tout, kout)
  PROVE  RssIInv'
<1> USE DEF RssIInv
<1>0. indirTbl \in [Entries -> 0 .. 255] /\ 0 \in Entries /\ (rqpl <=> rxQueues > 1)
      /\ pfReta \in [Entries -> 0 .. 3]
  BY TableTyped, CountIs DEF RssTypes, TableIs
<1>1. rxfh' \in [indir : BOOLEAN, key : BOOLEAN, err : BOOLEAN, keyOf : {"none", "adapter", "pf"}]
  <2>1. CASE Newer
    <3>1. rxfh' = [indir |-> indir, key |-> key, err |-> FALSE, keyOf |-> IF key THEN "adapter" ELSE "none"]
      BY <2>1 DEF GetRxfh
    <3> QED BY <3>1
  <2>2. CASE ~Newer
    <3> DEFINE read == indir => RetaAsked /\ tout = "reply"
               turn == key /\ KeyTurn(read)
               e == IF turn THEN ~KeyRead(kout) ELSE ~read
    <3>1. rxfh' = [indir |-> indir, key |-> key, err |-> e,
                   keyOf |-> IF turn /\ KeyRead(kout) THEN "pf" ELSE "none"]
      BY <2>2 DEF GetRxfh
    <3>2. e \in BOOLEAN
      OBVIOUS
    <3> HIDE DEF e, turn, read
    <3> QED BY <3>1, <3>2
  <2> QED BY <2>1, <2>2
<1>2. RssTypes'
  BY <1>1 DEF GetRxfh, RssTypes
<1>3. TableIs' /\ HashProgrammed' /\ RoundTrips'
  BY DEF GetRxfh, TableIs, HashProgrammed, RoundTrips, Newer
<1>4. indirTbl # <<>> /\ Decoded # <<>>
  BY <1>0 DEF Decoded
<1>5. CASE Newer
  <2>1. Shown'
    BY <1>0, <1>5 DEF GetRxfh, Shown, Newer
  <2>2. RxfhWhole'
    BY <1>4, <1>5 DEF GetRxfh, RxfhWhole, Newer
  <2> QED BY <1>2, <1>3, <2>1, <2>2
<1>6. CASE ~Newer
  <2>1. \A i \in Entries : Decoded[i] = IF rqpl THEN pfReta[i] % 2 ELSE 0
    BY <1>0 DEF Decoded, RetaMask
  <2>2. Shown'
    BY <1>6, <2>1 DEF GetRxfh, Shown, Newer
  <2>3. RxfhWhole'
    BY <1>4, <1>6 DEF GetRxfh, RxfhWhole, Newer, KeyTurn
  <2> QED BY <1>2, <1>3, <2>2, <2>3
<1> QED BY <1>2, <1>3, <1>5, <1>6

LEMMA RssStep == ASSUME RssIInv, [RssNext]_rssVars PROVE RssIInv'
<1>1. CASE UNCHANGED rssVars
  BY <1>1 DEF rssVars, RssIInv, RssTypes, TableIs, Shown, HashProgrammed, RoundTrips, RxfhWhole, Newer
<1> QED BY <1>1, ConfigureRssKeeps, SetRssHashOptKeeps, GetRxfhKeeps DEF RssNext

-----------------------------------------------------------------------------
(* Queues, vectors and interrupts.                                         *)

PfGivesQueues == TxQueues \cap {1, 3} = {}

\* vectors that have their queues
Filled == Cardinality(DOMAIN vector)

QueueTypes ==
  /\ qsetup \in {"none", "counted", "vectors", "ready", "irqs", "msix", "refused"}
  /\ xdpProg \in BOOLEAN /\ entries \in BOOLEAN /\ cpus \in Nat \ {0} /\ maxTx \in 2 .. 8
  /\ num \in [Kinds -> 0 .. 8] /\ left \in [Kinds -> 0 .. 8] /\ next \in [Kinds -> 0 .. 8]
  /\ numVec \in 0 .. 8
QueueIdle ==
  qsetup \in {"none", "counted"} =>
    vector = NoMap /\ txReg = NoMap /\ irqs = {} /\ ~entries /\ numVec = 0
QueueShape ==
  qsetup # "none" =>
    num["rx"] \in 1 .. 8 /\ num["tx"] \in 1 .. num["rx"] /\ num["tx"] + num["xdp"] <= maxTx
BuildCounts ==
  /\ numVec \in 1 .. 8 /\ Filled \in 0 .. numVec /\ DOMAIN vector = Upto(Filled)
  /\ \A k \in Kinds : next[k] + left[k] = num[k]
  /\ left["rx"] >= Rest
  /\ Rest = 0 => \A k \in Kinds : left[k] = 0
  /\ (qsetup = "vectors" <=> Rest > 0)
BuildVectors ==
  /\ \A v \in DOMAIN vector : \A k \in Kinds : vector[v][k] \subseteq Upto(next[k])
  /\ \A v \in DOMAIN vector : vector[v]["rx"] # {}
  /\ \A k \in Kinds : \A q \in Upto(next[k]) : \E v \in DOMAIN vector : q \in vector[v][k]
  /\ \A v, w \in DOMAIN vector : v # w => \A k \in Kinds : vector[v][k] \cap vector[w][k] = {}
BuildRegs ==
  /\ DOMAIN txReg = ({"tx"} \X Upto(next["tx"])) \cup ({"xdp"} \X Upto(next["xdp"]))
  /\ \A r \in DOMAIN txReg : txReg[r] \in 0 .. next["tx"] + next["xdp"] - 1
  /\ \A r, s \in DOMAIN txReg : txReg[r] = txReg[s] => r = s
Build == qsetup \in {"vectors", "ready", "irqs", "msix"} => BuildCounts /\ BuildVectors /\ BuildRegs
Routed == \A v \in DOMAIN vector : \A p \in Written(v) : ivar[p] = v
IrqsRight ==
  /\ qsetup \notin {"irqs", "msix"} => irqs = {}
  /\ qsetup \in {"irqs", "msix"} => irqs = DOMAIN vector \cup {numVec}
  /\ qsetup = "msix" => miscVec = numVec /\ eims = DOMAIN vector \cup {numVec} /\ Routed
QueueIInv == QueueTypes /\ QueueIdle /\ QueueShape /\ Build /\ IrqsRight

\* The vectors of a scheme that was refused a handler, and what becomes of them.
StrayInv ==
  /\ strays \in Nat /\ uncounted \in Nat
  /\ qsetup = "refused" =>
       /\ numVec = 0 /\ Filled \in Nat
       /\ \A v \in DOMAIN vector : \A k \in Kinds : vector[v][k] \subseteq Queues(k)
  /\ uncounted = strays + (IF qsetup = "refused" THEN Filled ELSE 0)

LEMMA CeilDivRight ==
  ASSUME NEW a \in 0 .. 8, NEW b \in 1 .. 8
  PROVE  /\ CeilDiv(a, b) \in 0 .. a /\ (b = 1 => CeilDiv(a, b) = a)
         /\ (a >= b => CeilDiv(a, b) >= 1 /\ a - CeilDiv(a, b) >= b - 1)
<1>1. CASE b = 1
  BY <1>1 DEF CeilDiv
<1>2. CASE b = 2
  BY <1>2 DEF CeilDiv
<1>3. CASE b = 3
  BY <1>3 DEF CeilDiv
<1>4. CASE b = 4
  BY <1>4 DEF CeilDiv
<1>5. CASE b = 5
  BY <1>5 DEF CeilDiv
<1>6. CASE b = 6
  BY <1>6 DEF CeilDiv
<1>7. CASE b = 7
  BY <1>7 DEF CeilDiv
<1>8. CASE b = 8
  BY <1>8 DEF CeilDiv
<1> QED BY <1>1, <1>2, <1>3, <1>4, <1>5, <1>6, <1>7, <1>8

LEMMA PlaceInjective ==
  ASSUME NEW p \in Nat, NEW q \in Nat, NEW d \in {0, 1}, NEW e \in {0, 1}, Place(p, d) = Place(q, e)
  PROVE  p = q /\ d = e
BY DEF Place

LEMMA QueueInitHolds == ASSUME QueueInit(Cpus) PROVE QueueIInv
<1>1. QueueTypes
  <2>1. cpus \in Nat \ {0}
    BY QueueAssumption DEF QueueInit
  <2>2. xdpProg \in BOOLEAN /\ entries \in BOOLEAN
    <3>1. xdpProg = FALSE /\ entries = FALSE
      BY DEF QueueInit
    <3> QED BY <3>1
  <2> QED BY <2>1, <2>2 DEF QueueInit, QueueTypes, NoQueues
<1> QED BY <1>1 DEF QueueInit, QueueIInv, QueueIdle, QueueShape, Build, IrqsRight

LEMMA SetNumQueuesKeeps ==
  ASSUME QueueIInv, PfGivesQueues, NEW tcs \in Classes, NEW allowed \in TxQueues,
         NEW answered \in BOOLEAN, SetNumQueues(tcs, allowed, answered)
  PROVE  QueueIInv'
<1>1. allowed \in {2, 4, 5, 6, 7, 8} /\ tcs \in 0 .. 8 /\ tcs <= allowed
  BY QueueAssumption DEF PfGivesQueues, SetNumQueues
<1>2. /\ num' \in [Kinds -> 0 .. 8] /\ maxTx' \in 2 .. 8
      /\ num'["rx"] \in 1 .. 8 /\ num'["tx"] \in 1 .. num'["rx"] /\ num'["tx"] + num'["xdp"] <= maxTx'
  <2>0. maxTx \in 2 .. 8 /\ cpus \in Nat \ {0} /\ xdpProg \in BOOLEAN
    BY DEF QueueIInv, QueueTypes
  <2>1. CASE ~answered
    <3>1. num' = BaseCase /\ maxTx' = maxTx
      BY <2>1 DEF SetNumQueues
    <3>2. BaseCase \in [Kinds -> 0 .. 8]
      BY DEF BaseCase, Kinds
    <3> QED BY <2>0, <3>1, <3>2 DEF BaseCase
  <2>2. CASE answered /\ tcs > 1
    <3>1. num' = [BaseCase EXCEPT !["rx"] = tcs] /\ maxTx' = allowed
      BY <2>2 DEF SetNumQueues, Counted
    <3>2. num' \in [Kinds -> 0 .. 8] /\ num'["rx"] = tcs /\ num'["tx"] = 1 /\ num'["xdp"] = 0
      BY <1>1, <3>1 DEF BaseCase, Kinds
    <3> QED BY <1>1, <2>2, <3>1, <3>2
  <2>3. CASE answered /\ ~(tcs > 1)
    <3> DEFINE r == RssQueues(allowed)
    <3>1. num' = [tx |-> r, rx |-> r, xdp |-> IF xdpProg THEN r ELSE 0] /\ maxTx' = allowed
      BY <2>3 DEF SetNumQueues, Counted
    <3>2. r \in 1 .. 2 /\ (IF xdpProg THEN r + r <= allowed ELSE r <= allowed)
      BY <1>1, <2>0 DEF RssQueues, Smaller, MaxRss
    <3> HIDE DEF r
    <3>3. num' \in [Kinds -> 0 .. 8] /\ num'["rx"] = r /\ num'["tx"] = r /\ num'["xdp"] = IF xdpProg THEN r ELSE 0
      BY <3>1, <3>2 DEF Kinds
    <3> QED BY <1>1, <3>1, <3>2, <3>3
  <2> QED BY <2>1, <2>2, <2>3
<1>3. qsetup = "none" /\ qsetup' = "counted"
      /\ UNCHANGED <<xdpProg, cpus, numVec, entries, vector, left, next, txReg, ivar, miscVec,
                 eims, irqs>>
  BY DEF SetNumQueues
<1>4. QueueTypes'
  BY <1>2, <1>3 DEF QueueIInv, QueueTypes
<1>5. QueueShape'
  BY <1>2 DEF QueueShape
<1> QED BY <1>3, <1>4, <1>5 DEF QueueIInv, QueueIdle, Build, IrqsRight

LEMMA AcquireKeeps ==
  ASSUME QueueIInv, NEW got \in 0 .. 8, AcquireMsixVectors(got) PROVE QueueIInv'
<1>0. /\ qsetup = "counted"
      /\ UNCHANGED <<xdpProg, cpus, maxTx, num, vector, txReg, ivar, miscVec, eims, irqs>>
  BY DEF AcquireMsixVectors
<1>1. QueueTypes /\ QueueShape /\ vector = NoMap /\ txReg = NoMap /\ irqs = {} /\ ~entries /\ numVec = 0
  BY <1>0 DEF QueueIInv, QueueIdle
<1>2. CASE got = 0
  <2>1. qsetup' = "none" /\ UNCHANGED <<entries, numVec, left, next>>
    BY <1>2 DEF AcquireMsixVectors
  <2>2. QueueTypes'
    BY <1>0, <1>1, <2>1 DEF QueueTypes
  <2> QED BY <1>0, <1>1, <2>1, <2>2 DEF QueueIInv, QueueIdle, QueueShape, Build, IrqsRight
<1>3. CASE got # 0
  <2>1. /\ qsetup' = "vectors" /\ entries' = TRUE /\ numVec' = got /\ left' = num /\ next' = NoQueues
        /\ got \in 0 .. VectorBudget
    BY <1>3 DEF AcquireMsixVectors
  <2>2. got \in 1 .. 8 /\ got <= num["rx"]
    BY <1>0, <1>1, <1>3, <2>1 DEF VectorBudget, Smaller, Larger, QueueShape, QueueTypes
  <2>3. QueueTypes'
    <3>1. entries' \in BOOLEAN
      BY <2>1
    <3> QED BY <1>0, <1>1, <2>1, <2>2, <3>1 DEF QueueTypes, NoQueues
  <2>4. Filled' = 0 /\ DOMAIN vector' = {} /\ DOMAIN txReg' = {} /\ Upto(0) = {}
    <3>1. DOMAIN vector' = {} /\ DOMAIN txReg' = {}
      BY <1>0, <1>1 DEF NoMap
    <3> QED BY <3>1, FS_EmptySet DEF Filled, Upto
  <2>5. BuildCounts'
    <3>1. \A k \in Kinds : next'[k] + left'[k] = num'[k]
      BY <1>0, <1>1, <2>1 DEF NoQueues, QueueTypes
    <3>2. Rest' = got
      BY <2>1, <2>2, <2>4 DEF Rest, Filled
    <3> QED BY <1>0, <2>1, <2>2, <2>4, <3>1, <3>2 DEF BuildCounts
  <2>6. BuildVectors' /\ BuildRegs'
    <3>1. next'["tx"] = 0 /\ next'["xdp"] = 0 /\ \A k \in Kinds : next'[k] = 0
      BY <2>1 DEF NoQueues, Kinds
    <3>2. BuildVectors'
      BY <2>4, <3>1 DEF BuildVectors
    <3>3. BuildRegs'
      BY <2>4, <3>1 DEF BuildRegs
    <3> QED BY <3>2, <3>3
  <2>7. QueueShape' /\ QueueIdle' /\ IrqsRight'
    BY <1>0, <1>1, <2>1 DEF QueueShape, QueueIdle, IrqsRight
  <2> QED BY <2>3, <2>5, <2>6, <2>7 DEF QueueIInv, Build
<1> QED BY <1>2, <1>3

LEMMA AllocQVectorKeeps == ASSUME QueueIInv, AllocQVector PROVE QueueIInv'
<1>0. /\ qsetup = "vectors" /\ Rest > 0
      /\ UNCHANGED <<xdpProg, cpus, maxTx, num, numVec, entries, ivar, miscVec, eims, irqs>>
      /\ qsetup' = IF Rest = 1 THEN "ready" ELSE qsetup
      /\ left' = [k \in Kinds |-> left[k] - Shares[k]]
      /\ next' = [k \in Kinds |-> next[k] + Shares[k]]
  BY DEF AllocQVector
<1>1. QueueTypes /\ QueueShape /\ BuildCounts /\ BuildVectors /\ BuildRegs /\ IrqsRight
  BY <1>0 DEF QueueIInv, Build
<1>2. /\ Filled \in 0 .. numVec /\ numVec \in 1 .. 8 /\ Rest \in 1 .. 8 /\ Rest = numVec - Filled
      /\ Filled < numVec
  BY <1>0, <1>1 DEF BuildCounts, Rest, Filled
<1>3. /\ \A k \in Kinds : left[k] \in 0 .. 8 /\ next[k] \in 0 .. 8 /\ num[k] \in 0 .. 8
                          /\ next[k] + left[k] = num[k]
      /\ left["rx"] >= Rest
  BY <1>1 DEF QueueTypes, BuildCounts
<1>4. /\ \A k \in Kinds : Shares[k] \in 0 .. left[k] /\ (Rest = 1 => Shares[k] = left[k])
      /\ Shares["rx"] >= 1 /\ left["rx"] - Shares["rx"] >= Rest - 1
  <2>1. \A k \in Kinds : Shares[k] = CeilDiv(left[k], Rest)
    BY DEF Shares
  <2>2. ASSUME NEW k \in Kinds
        PROVE  /\ Shares[k] \in 0 .. left[k] /\ (Rest = 1 => Shares[k] = left[k])
               /\ (left[k] >= Rest => Shares[k] >= 1 /\ left[k] - Shares[k] >= Rest - 1)
    BY <1>2, <1>3, <2>1, CeilDivRight
  <2>3. "rx" \in Kinds
    BY DEF Kinds
  <2> QED BY <1>3, <2>2, <2>3
<1>5. \A k \in Kinds : /\ left'[k] = left[k] - Shares[k] /\ next'[k] = next[k] + Shares[k]
                       /\ left'[k] \in 0 .. 8 /\ next'[k] \in 0 .. 8 /\ next'[k] + left'[k] = num'[k]
  <2> TAKE k \in Kinds
  <2>1. left'[k] = left[k] - Shares[k] /\ next'[k] = next[k] + Shares[k] /\ num'[k] = num[k]
    BY <1>0
  <2>2. /\ left[k] \in 0 .. 8 /\ next[k] \in 0 .. 8 /\ num[k] \in 0 .. 8 /\ next[k] + left[k] = num[k]
        /\ Shares[k] \in 0 .. left[k]
    BY <1>3, <1>4
  <2> QED BY <2>1, <2>2
<1>6. QueueTypes'
  <2>1. left' \in [Kinds -> 0 .. 8] /\ next' \in [Kinds -> 0 .. 8]
    BY <1>0, <1>5
  <2> QED BY <1>0, <1>1, <2>1 DEF QueueTypes
<1> DEFINE new == Filled
<1>7. /\ DOMAIN vector = Upto(new) /\ DOMAIN vector' = Upto(new + 1) /\ new \in Nat
      /\ Filled' = new + 1 /\ new \notin DOMAIN vector
      /\ vector'[new] = [k \in Kinds |-> Got(k)]
      /\ \A v \in DOMAIN vector : vector'[v] = vector[v] /\ v \in DOMAIN vector'
      /\ \A v \in DOMAIN vector' : v \in DOMAIN vector \/ v = new
      /\ new \in DOMAIN vector'
  <2>1. DOMAIN vector = Upto(new) /\ new \in Nat
    BY <1>1, <1>2 DEF BuildCounts
  <2>2. vector' = [v \in DOMAIN vector \cup {new} |->
                    IF v \in DOMAIN vector THEN vector[v] ELSE [k \in Kinds |-> Got(k)]]
    BY DEF AllocQVector, Filled
  <2> HIDE DEF new
  <2>3. new \notin Upto(new) /\ Upto(new) \cup {new} = Upto(new + 1)
    BY <2>1 DEF Upto
  <2>4. DOMAIN vector' = Upto(new + 1)
    BY <2>1, <2>2, <2>3
  <2>5. Filled' = new + 1
    <3>1. Cardinality(0 .. (new + 1) - 1) = new + 1
      BY <2>1, FS_Interval
    <3> QED BY <2>4, <3>1 DEF Filled, Upto
  <2> QED BY <2>1, <2>2, <2>3, <2>4, <2>5
<1>8. Rest' = Rest - 1
  BY <1>0, <1>2, <1>7 DEF Rest, Filled
<1>9. BuildCounts'
  <2>1. Filled' \in 0 .. numVec' /\ DOMAIN vector' = Upto(Filled')
    BY <1>0, <1>2, <1>7
  <2>2. left'["rx"] >= Rest'
    <3>1. "rx" \in Kinds
      BY DEF Kinds
    <3> QED BY <1>4, <1>5, <1>8, <3>1
  <2>3. Rest' = 0 => \A k \in Kinds : left'[k] = 0
    BY <1>2, <1>3, <1>4, <1>5, <1>8
  <2>4. qsetup' = "vectors" <=> Rest' > 0
    BY <1>0, <1>2, <1>8
  <2> QED BY <1>0, <1>2, <1>5, <2>1, <2>2, <2>3, <2>4 DEF BuildCounts
<1>10. ASSUME NEW k \in Kinds
       PROVE  /\ vector'[new][k] = {x \in Nat : next[k] <= x /\ x < next'[k]}
              /\ Upto(next[k]) = {x \in Nat : x < next[k]} /\ Upto(next'[k]) = {x \in Nat : x < next'[k]}
              /\ next[k] <= next'[k]
  <2>1. vector'[new][k] = {next[k] + i : i \in Upto(Shares[k])}
    BY <1>7 DEF Got
  <2>2. /\ next[k] \in Nat /\ Shares[k] \in Nat /\ next'[k] = next[k] + Shares[k]
    BY <1>3, <1>4, <1>5
  <2>3. ASSUME NEW x \in Nat, next[k] <= x, x < next'[k]
        PROVE  x \in {next[k] + i : i \in Upto(Shares[k])}
    <3>1. x - next[k] \in Upto(Shares[k]) /\ x = next[k] + (x - next[k])
      BY <2>2, <2>3 DEF Upto
    <3> QED BY <3>1
  <2>4. ASSUME NEW i \in Upto(Shares[k])
        PROVE  next[k] + i \in Nat /\ next[k] <= next[k] + i /\ next[k] + i < next'[k]
    BY <2>2 DEF Upto
  <2> QED BY <2>1, <2>2, <2>3, <2>4 DEF Upto
<1>11. BuildVectors'
  <2> HIDE DEF new
  <2>1. \A v \in DOMAIN vector' : \A k \in Kinds : vector'[v][k] \subseteq Upto(next'[k])
    BY <1>1, <1>7, <1>10, <1>3, <1>5 DEF BuildVectors
  <2>2. \A v \in DOMAIN vector' : vector'[v]["rx"] # {}
    <3>1. "rx" \in Kinds
      BY DEF Kinds
    <3>2. next["rx"] \in vector'[new]["rx"]
      BY <1>3, <1>4, <1>5, <1>10, <3>1
    <3> QED BY <1>1, <1>7, <3>2 DEF BuildVectors
  <2>3. ASSUME NEW k \in Kinds, NEW q \in Upto(next'[k]) PROVE \E v \in DOMAIN vector' : q \in vector'[v][k]
    <3>1. CASE q \in Upto(next[k])
      BY <1>1, <1>7, <3>1 DEF BuildVectors
    <3>2. CASE q \notin Upto(next[k])
      <4>1. q \in vector'[new][k]
        BY <1>3, <1>5, <1>10, <3>2
      <4> QED BY <1>7, <4>1
    <3> QED BY <3>1, <3>2
  <2>4. ASSUME NEW v \in DOMAIN vector', NEW w \in DOMAIN vector', v # w, NEW k \in Kinds
        PROVE  vector'[v][k] \cap vector'[w][k] = {}
    <3>1. CASE v \in DOMAIN vector /\ w \in DOMAIN vector
      BY <1>1, <1>7, <2>4, <3>1 DEF BuildVectors
    <3>2. ASSUME NEW u \in DOMAIN vector PROVE vector[u][k] \cap vector'[new][k] = {}
      BY <1>1, <1>3, <1>10 DEF BuildVectors
    <3> QED BY <1>7, <2>4, <3>1, <3>2
  <2> QED BY <2>1, <2>2, <2>3, <2>4 DEF BuildVectors
<1>12. BuildRegs'
  <2> DEFINE T == "tx"  X == "xdp"
  <2>0. T \in Kinds /\ X \in Kinds /\ T # X
    BY DEF Kinds
  <2>1. /\ next[T] \in Nat /\ next[X] \in Nat /\ Shares[T] \in Nat /\ Shares[X] \in Nat
        /\ next'[T] = next[T] + Shares[T] /\ next'[X] = next[X] + Shares[X]
    BY <1>3, <1>4, <1>5, <2>0
  <2>2. \A k \in Kinds : Got(k) = {x \in Nat : next[k] <= x /\ x < next'[k]}
    BY <1>7, <1>10
  <2>3. DOMAIN Regs = ({T} \X Got(T)) \cup ({X} \X Got(X))
    BY DEF Regs
  <2>4. ASSUME NEW q \in Got(T)
        PROVE  Regs[<<T, q>>] \in next[T] + next[X] .. next[T] + next[X] + Shares[T] - 1
               /\ Regs[<<T, q>>] = next[T] + next[X] + (q - next[T])
    <3>1. <<T, q>> \in DOMAIN Regs /\ q \in Nat /\ next[T] <= q /\ q < next[T] + Shares[T]
      BY <2>0, <2>1, <2>2, <2>3
    <3>2. Regs[<<T, q>>] = next[T] + next[X] + (q - next[T]) + 0
      BY <2>3, <3>1 DEF Regs, RegFrom
    <3> QED BY <2>1, <3>1, <3>2
  <2>5. ASSUME NEW q \in Got(X)
        PROVE  Regs[<<X, q>>] \in next[T] + next[X] + Shares[T] .. next[T] + next[X] + Shares[T] + Shares[X] - 1
               /\ Regs[<<X, q>>] = next[T] + next[X] + (q - next[X]) + Shares[T]
    <3>1. <<X, q>> \in DOMAIN Regs /\ q \in Nat /\ next[X] <= q /\ q < next[X] + Shares[X]
      BY <2>0, <2>1, <2>2, <2>3
    <3>2. Regs[<<X, q>>] = next[T] + next[X] + (q - next[X]) + Shares[T]
      BY <2>3, <3>1 DEF Regs, RegFrom
    <3> QED BY <2>1, <3>1, <3>2
  <2>6. txReg' = [r \in DOMAIN txReg \cup DOMAIN Regs |->
                    IF r \in DOMAIN Regs THEN Regs[r] ELSE txReg[r]]
    BY DEF AllocQVector
  <2>7. DOMAIN txReg = ({T} \X Upto(next[T])) \cup ({X} \X Upto(next[X]))
    BY <1>1 DEF BuildRegs
  <2>8. \A k \in Kinds : Upto(next[k]) \cup Got(k) = Upto(next'[k]) /\ Upto(next[k]) \cap Got(k) = {}
    <3>1. ASSUME NEW k \in Kinds
          PROVE Upto(next[k]) \cup Got(k) = Upto(next'[k]) /\ Upto(next[k]) \cap Got(k) = {}
      <4>1. /\ Got(k) = {x \in Nat : next[k] <= x /\ x < next'[k]} /\ next[k] <= next'[k]
            /\ Upto(next[k]) = {x \in Nat : x < next[k]} /\ Upto(next'[k]) = {x \in Nat : x < next'[k]}
            /\ next[k] \in Nat /\ next'[k] \in Nat
        BY <1>3, <1>5, <1>10, <2>2
      <4> QED BY <4>1
    <3> QED BY <3>1
  <2>9. DOMAIN txReg' = ({T} \X Upto(next'[T])) \cup ({X} \X Upto(next'[X]))
    BY <2>0, <2>3, <2>6, <2>7, <2>8
  <2>10. /\ \A r \in DOMAIN Regs : r \in DOMAIN txReg' /\ txReg'[r] = Regs[r]
                /\ txReg'[r] \in next[T] + next[X] .. next[T] + next[X] + Shares[T] + Shares[X] - 1
         /\ \A r \in DOMAIN txReg' : r \notin DOMAIN Regs =>
                r \in DOMAIN txReg /\ txReg'[r] = txReg[r] /\ txReg'[r] \in 0 .. next[T] + next[X] - 1
    <3>1. ASSUME NEW r \in DOMAIN Regs
          PROVE  Regs[r] \in next[T] + next[X] .. next[T] + next[X] + Shares[T] + Shares[X] - 1
      BY <2>1, <2>3, <2>4, <2>5
    <3> QED BY <1>1, <2>6, <3>1 DEF BuildRegs
  <2>11. \A r, s \in DOMAIN Regs : Regs[r] = Regs[s] => r = s
    <3>1. \A q \in Got(T) : q \in Nat
      BY <2>0, <2>2
    <3>2. \A q \in Got(X) : q \in Nat
      BY <2>0, <2>2
    <3>3. ASSUME NEW p \in Got(T), NEW q \in Got(T), Regs[<<T, p>>] = Regs[<<T, q>>] PROVE p = q
      BY <2>1, <2>4, <3>1, <3>3
    <3>4. ASSUME NEW p \in Got(X), NEW q \in Got(X), Regs[<<X, p>>] = Regs[<<X, q>>] PROVE p = q
      BY <2>1, <2>5, <3>2, <3>4
    <3>5. ASSUME NEW p \in Got(T), NEW q \in Got(X) PROVE Regs[<<T, p>>] # Regs[<<X, q>>]
      BY <2>1, <2>4, <2>5
    <3> QED BY <2>3, <3>3, <3>4, <3>5
  <2>12. \A r \in DOMAIN txReg' : txReg'[r] \in 0 .. next'[T] + next'[X] - 1
    BY <2>1, <2>10
  <2>13. ASSUME NEW r \in DOMAIN txReg', NEW s \in DOMAIN txReg', txReg'[r] = txReg'[s] PROVE r = s
    <3>1. CASE r \in DOMAIN Regs /\ s \in DOMAIN Regs
      BY <2>10, <2>11, <2>13, <3>1
    <3>2. CASE r \notin DOMAIN Regs /\ s \notin DOMAIN Regs
      BY <1>1, <2>10, <2>13, <3>2 DEF BuildRegs
    <3>3. CASE r \in DOMAIN Regs /\ s \notin DOMAIN Regs
      BY <2>1, <2>10, <2>13, <3>3
    <3>4. CASE r \notin DOMAIN Regs /\ s \in DOMAIN Regs
      BY <2>1, <2>10, <2>13, <3>4
    <3> QED BY <3>1, <3>2, <3>3, <3>4
  <2> QED BY <2>9, <2>12, <2>13 DEF BuildRegs
<1>13. QueueIdle' /\ QueueShape' /\ IrqsRight'
  BY <1>0, <1>1 DEF QueueIdle, QueueShape, IrqsRight
<1> QED BY <1>6, <1>9, <1>11, <1>12, <1>13 DEF QueueIInv, Build

LEMMA AllocFailsKeeps == ASSUME QueueIInv, AllocFails PROVE QueueIInv'
<1>0. /\ qsetup = "vectors" /\ qsetup' = "none"
      /\ num' = NoQueues /\ numVec' = 0 /\ entries' = FALSE /\ vector' = NoMap /\ txReg' = NoMap
      /\ left' = NoQueues /\ next' = NoQueues
      /\ UNCHANGED <<xdpProg, cpus, maxTx, ivar, miscVec, eims, irqs, schemesLeft>>
  BY DEF AllocFails, FreeQVectors
<1>1. QueueTypes'
  <2>1. entries' \in BOOLEAN
    BY <1>0
  <2> QED BY <1>0, <2>1 DEF QueueIInv, QueueTypes, NoQueues
<1> QED BY <1>0, <1>1 DEF QueueIInv, QueueIdle, QueueShape, Build, IrqsRight

LEMMA ClearKeeps ==
  ASSUME QueueIInv, NEW prog \in BOOLEAN, ClearInterruptScheme(prog) PROVE QueueIInv'
<1>0. /\ qsetup \in {"ready", "refused"} /\ qsetup' = "none" /\ xdpProg' = prog
      /\ num' = NoQueues /\ numVec' = 0 /\ entries' = FALSE /\ vector' = NoMap /\ txReg' = NoMap
      /\ left' = NoQueues /\ next' = NoQueues
      /\ UNCHANGED <<cpus, maxTx, ivar, miscVec, eims, irqs, schemesLeft>>
  BY DEF ClearInterruptScheme, FreeQVectors
<1>1. QueueTypes'
  <2>1. entries' \in BOOLEAN
    BY <1>0
  <2> QED BY <1>0, <2>1 DEF QueueIInv, QueueTypes, NoQueues
<1> QED BY <1>0, <1>1 DEF QueueIInv, QueueIdle, QueueShape, Build, IrqsRight

LEMMA BuildStable ==
  ASSUME BuildCounts, BuildVectors, BuildRegs, qsetup # "vectors", qsetup' # "vectors",
         UNCHANGED <<num, numVec, vector, left, next, txReg>>
  PROVE  BuildCounts' /\ BuildVectors' /\ BuildRegs'
<1>1. BuildCounts'
  BY DEF BuildCounts, Filled, Rest
<1>2. BuildVectors'
  BY DEF BuildVectors
<1>3. BuildRegs'
  BY DEF BuildRegs
<1> QED BY <1>1, <1>2, <1>3

LEMMA AllInUse == ASSUME BuildVectors PROVE InUse = DOMAIN vector
<1>1. "rx" \in Kinds
  BY DEF Kinds
<1> QED BY <1>1 DEF InUse, BuildVectors

LEMMA RequestKeeps == ASSUME QueueIInv, RequestIrqs PROVE QueueIInv'
<1>0. /\ qsetup = "ready" /\ qsetup' = "irqs" /\ irqs' = InUse \cup {numVec}
      /\ UNCHANGED <<xdpProg, cpus, maxTx, num, numVec, entries, vector, left, next, txReg,
                 ivar, miscVec, eims, schemesLeft>>
  BY DEF RequestIrqs
<1>1. BuildCounts /\ BuildVectors /\ BuildRegs
  BY <1>0 DEF QueueIInv, Build
<1>2. BuildCounts' /\ BuildVectors' /\ BuildRegs'
  BY <1>0, <1>1, BuildStable
<1>3. InUse = DOMAIN vector
  BY <1>1, AllInUse
<1>4. QueueTypes' /\ QueueShape' /\ QueueIdle'
  BY <1>0 DEF QueueIInv, QueueTypes, QueueShape, QueueIdle
<1> QED BY <1>0, <1>2, <1>3, <1>4 DEF QueueIInv, Build, IrqsRight

LEMMA FreeKeeps == ASSUME QueueIInv, FreeIrqs PROVE QueueIInv'
<1>0. /\ qsetup \in {"irqs", "msix"} /\ qsetup' = "ready" /\ irqs' = irqs \ (InUse \cup {numVec})
      /\ UNCHANGED <<xdpProg, cpus, maxTx, num, numVec, entries, vector, left, next, txReg,
                 ivar, miscVec, eims, schemesLeft>>
  BY DEF FreeIrqs, Freed
<1>1. BuildCounts /\ BuildVectors /\ BuildRegs /\ irqs = DOMAIN vector \cup {numVec}
  BY <1>0 DEF QueueIInv, Build, IrqsRight
<1>2. BuildCounts' /\ BuildVectors' /\ BuildRegs'
  BY <1>0, <1>1, BuildStable
<1>3. irqs' = {}
  BY <1>0, <1>1, AllInUse
<1>4. QueueTypes' /\ QueueShape' /\ QueueIdle'
  BY <1>0 DEF QueueIInv, QueueTypes, QueueShape, QueueIdle
<1> QED BY <1>0, <1>2, <1>3, <1>4 DEF QueueIInv, Build, IrqsRight

\* No two vectors write the same byte of VTIVAR.
LEMMA WrittenApart ==
  ASSUME BuildVectors, BuildRegs, NEW v \in DOMAIN vector, NEW w \in DOMAIN vector,
         NEW p, p \in Written(v), p \in Written(w), next \in [Kinds -> 0 .. 8]
  PROVE  v = w
<1>1. ASSUME NEW u \in DOMAIN vector
      PROVE  /\ \A q \in vector[u]["rx"] : q \in Nat
             /\ \A q \in vector[u]["tx"] : <<"tx", q>> \in DOMAIN txReg /\ txReg[<<"tx", q>>] \in Nat
             /\ \A q \in vector[u]["xdp"] : <<"xdp", q>> \in DOMAIN txReg /\ txReg[<<"xdp", q>>] \in Nat
  <2>1. "tx" \in Kinds /\ "xdp" \in Kinds /\ "rx" \in Kinds
    BY DEF Kinds
  <2>2. /\ vector[u]["rx"] \subseteq Upto(next["rx"]) /\ vector[u]["tx"] \subseteq Upto(next["tx"])
        /\ vector[u]["xdp"] \subseteq Upto(next["xdp"])
    BY <2>1 DEF BuildVectors
  <2>3. /\ \A q \in vector[u]["tx"] : <<"tx", q>> \in DOMAIN txReg
        /\ \A q \in vector[u]["xdp"] : <<"xdp", q>> \in DOMAIN txReg
    BY <2>2 DEF BuildRegs
  <2>4. \A r \in DOMAIN txReg : txReg[r] \in Nat
    BY <2>1 DEF BuildRegs
  <2>5. \A q \in vector[u]["rx"] : q \in Nat
    BY <2>1, <2>2 DEF Upto
  <2> QED BY <2>3, <2>4, <2>5
<1> SUFFICES ASSUME v # w PROVE FALSE
  OBVIOUS
<1>2. \A k \in Kinds : vector[v][k] \cap vector[w][k] = {}
  BY DEF BuildVectors
<1>3. "tx" \in Kinds /\ "xdp" \in Kinds /\ "rx" \in Kinds
  BY DEF Kinds
<1>4. \A r, s \in DOMAIN txReg : txReg[r] = txReg[s] => r = s
  BY DEF BuildRegs
<1>5. ASSUME NEW a \in DOMAIN vector
      PROVE  \/ \E q \in vector[a]["rx"] : p = Place(q, 0)
             \/ \E q \in vector[a]["tx"] : p = Place(txReg[<<"tx", q>>], 1)
             \/ \E q \in vector[a]["xdp"] : p = Place(txReg[<<"xdp", q>>], 1)
             \/ p \notin Written(a)
  BY DEF Written
<1>6. CASE \E q \in vector[v]["rx"] : p = Place(q, 0)
  <2>1. PICK q \in vector[v]["rx"] : p = Place(q, 0)
    BY <1>6
  <2>2. ASSUME NEW s \in vector[w]["rx"], p = Place(s, 0) PROVE FALSE
    <3>1. q = s
      BY <1>1, <2>1, <2>2, PlaceInjective
    <3> QED BY <1>2, <1>3, <3>1
  <2>3. ASSUME NEW s \in vector[w]["tx"], p = Place(txReg[<<"tx", s>>], 1) PROVE FALSE
    BY <1>1, <2>1, <2>3, PlaceInjective
  <2>4. ASSUME NEW s \in vector[w]["xdp"], p = Place(txReg[<<"xdp", s>>], 1) PROVE FALSE
    BY <1>1, <2>1, <2>4, PlaceInjective
  <2> QED BY <1>5, <2>2, <2>3, <2>4
<1>7. ASSUME NEW T \in {"tx", "xdp"}, NEW q \in vector[v][T], p = Place(txReg[<<T, q>>], 1) PROVE FALSE
  <2>0. <<T, q>> \in DOMAIN txReg /\ txReg[<<T, q>>] \in Nat
    BY <1>1, <1>7
  <2>1. ASSUME NEW s \in vector[w]["rx"], p = Place(s, 0) PROVE FALSE
    BY <1>1, <1>7, <2>0, <2>1, PlaceInjective
  <2>2. ASSUME NEW U \in {"tx", "xdp"}, NEW s \in vector[w][U], p = Place(txReg[<<U, s>>], 1) PROVE FALSE
    <3>1. <<U, s>> \in DOMAIN txReg /\ txReg[<<U, s>>] \in Nat
      BY <1>1, <2>2
    <3>2. txReg[<<T, q>>] = txReg[<<U, s>>]
      BY <1>7, <2>0, <2>2, <3>1, PlaceInjective
    <3>3. T = U /\ q = s
      BY <1>4, <2>0, <3>1, <3>2
    <3> QED BY <1>2, <1>3, <3>3
  <2> QED BY <1>5, <2>1, <2>2
<1> QED BY <1>5, <1>6, <1>7

LEMMA ConfigureMsixKeeps == ASSUME QueueIInv, ConfigureMsix PROVE QueueIInv'
<1>0. /\ qsetup = "irqs" /\ qsetup' = "msix" /\ miscVec' = numVec /\ eims' = DOMAIN vector \cup {numVec}
      /\ UNCHANGED <<xdpProg, cpus, maxTx, num, numVec, entries, vector, left, next, txReg,
                 irqs, schemesLeft>>
  BY DEF ConfigureMsix
<1>1. BuildCounts /\ BuildVectors /\ BuildRegs /\ irqs = DOMAIN vector \cup {numVec}
  BY <1>0 DEF QueueIInv, Build, IrqsRight
<1>2. BuildCounts' /\ BuildVectors' /\ BuildRegs'
  BY <1>0, <1>1, BuildStable
<1>3. QueueTypes' /\ QueueShape' /\ QueueIdle'
  BY <1>0 DEF QueueIInv, QueueTypes, QueueShape, QueueIdle
<1>4. Routed'
  <2> DEFINE places == UNION {Written(v) : v \in DOMAIN vector}
             by(p) == CHOOSE v \in DOMAIN vector :
                    p \in Written(v) /\ \A w \in DOMAIN vector : p \in Written(w) => w <= v
  <2>1. ivar' = [p \in DOMAIN ivar \cup places |-> IF p \in places THEN by(p) ELSE ivar[p]]
    BY DEF ConfigureMsix
  <2>2. ASSUME NEW v \in DOMAIN vector, NEW p \in Written(v) PROVE by(p) = v /\ p \in places
    <3>1. \A w \in DOMAIN vector : p \in Written(w) => w = v
      BY <1>1, WrittenApart DEF QueueIInv, QueueTypes
    <3>2. v <= v
      BY <1>1 DEF BuildCounts, Upto
    <3>3. p \in Written(v) /\ \A w \in DOMAIN vector : p \in Written(w) => w <= v
      BY <3>1, <3>2
    <3>4. by(p) \in DOMAIN vector /\ p \in Written(by(p))
      BY <3>3
    <3> HIDE DEF by
    <3> QED BY <3>1, <3>4
  <2>3. ASSUME NEW v \in DOMAIN vector, NEW p \in Written(v) PROVE ivar'[p] = v
    <3> HIDE DEF by, places
    <3> QED BY <2>1, <2>2
  <2>4. \A v \in DOMAIN vector' : Written(v)' = Written(v)
    BY <1>0 DEF Written
  <2> QED BY <1>0, <2>3, <2>4 DEF Routed
<1> QED BY <1>0, <1>1, <1>2, <1>3, <1>4 DEF QueueIInv, Build, IrqsRight

\* once a scheme stands, all its vectors have queues
LEMMA ReadyWhole ==
  ASSUME QueueIInv, qsetup = "ready"
  PROVE  /\ numVec \in 1 .. 8 /\ Filled = numVec /\ DOMAIN vector = Upto(numVec) /\ irqs = {}
         /\ \A v \in DOMAIN vector : \A k \in Kinds : vector[v][k] \subseteq Queues(k)
<1>1. BuildCounts /\ BuildVectors /\ irqs = {} /\ num \in [Kinds -> 0 .. 8]
      /\ next \in [Kinds -> 0 .. 8]
  BY DEF QueueIInv, Build, IrqsRight, QueueTypes
<1>2. Rest = 0 /\ Rest = numVec - Filled
  BY <1>1 DEF BuildCounts, Rest, Filled
<1>3. Filled = numVec
  BY <1>1, <1>2 DEF BuildCounts
<1>4. \A k \in Kinds : next[k] = num[k]
  BY <1>1, <1>2 DEF BuildCounts
<1>5. \A v \in DOMAIN vector : \A k \in Kinds : vector[v][k] \subseteq Queues(k)
  BY <1>1, <1>4 DEF BuildVectors, Queues
<1> QED BY <1>1, <1>3, <1>5 DEF BuildCounts

LEMMA RequestFailsKeeps ==
  ASSUME QueueIInv, NEW at \in 0 .. 8, RequestFails(at) PROVE QueueIInv'
<1>0. /\ qsetup = "ready" /\ qsetup' = "refused" /\ numVec' = 0
      /\ irqs' = (irqs \cup (InUse \cap Upto(at))) \ Upto(at)
      /\ UNCHANGED <<xdpProg, cpus, maxTx, num, entries, vector, left, next, txReg>>
  BY DEF RequestFails, UndoneIrqs
<1>1. irqs' = {}
  BY <1>0, ReadyWhole
<1>2. QueueTypes' /\ QueueShape' /\ QueueIdle'
  BY <1>0 DEF QueueIInv, QueueTypes, QueueShape, QueueIdle
<1> QED BY <1>0, <1>1, <1>2 DEF QueueIInv, Build, IrqsRight

LEMMA StrayStep == ASSUME QueueIInv, StrayInv, [QueueNext]_queueVars PROVE StrayInv'
<1>1. CASE \/ UNCHANGED <<qsetup, numVec, vector, num, strays, uncounted>>
           \/ qsetup # "refused" /\ qsetup' # "refused" /\ UNCHANGED <<strays, uncounted>>
  BY <1>1 DEF StrayInv, Filled, Queues
<1>2. ASSUME NEW at \in 0 .. 8, RequestFails(at) PROVE StrayInv'
  <2>1. /\ qsetup = "ready" /\ qsetup' = "refused" /\ numVec' = 0 /\ vector' = vector
        /\ num' = num /\ strays' = strays /\ uncounted' = uncounted + numVec
    BY <1>2 DEF RequestFails
  <2>2. Filled' = Filled /\ \A k : Queues(k)' = Queues(k)
    BY <2>1 DEF Filled, Queues
  <2>3. /\ Filled = numVec /\ numVec \in Nat
        /\ \A v \in DOMAIN vector : \A k \in Kinds : vector[v][k] \subseteq Queues(k)
    BY <2>1, ReadyWhole
  <2> QED BY <2>1, <2>2, <2>3 DEF StrayInv
<1>3. ASSUME NEW prog \in BOOLEAN, ClearInterruptScheme(prog) PROVE StrayInv'
  <2>1. /\ qsetup \in {"ready", "refused"} /\ qsetup' = "none" /\ uncounted' = uncounted
        /\ strays' = strays + Cardinality(DOMAIN vector \ Upto(numVec))
    BY <1>3 DEF ClearInterruptScheme
  <2>2. CASE qsetup = "ready"
    <3>1. DOMAIN vector \ Upto(numVec) = {}
      BY <2>2, ReadyWhole
    <3>2. strays' = strays
      BY <2>1, <3>1, FS_EmptySet DEF StrayInv
    <3> QED BY <2>1, <2>2, <3>2 DEF StrayInv
  <2>3. CASE qsetup = "refused"
    <3>1. Upto(numVec) = {}
      BY <2>3 DEF StrayInv, Upto
    <3>2. DOMAIN vector \ Upto(numVec) = DOMAIN vector
      BY <3>1
    <3>3. strays' = strays + Filled
      BY <2>1, <3>2 DEF Filled
    <3> QED BY <2>1, <2>3, <3>3 DEF StrayInv
  <2> QED BY <2>1, <2>2, <2>3
<1>4. CASE UNCHANGED queueVars
  BY <1>1, <1>4 DEF queueVars
<1>5. ASSUME NEW tcs \in Classes, NEW allowed \in TxQueues, NEW answered \in BOOLEAN,
             SetNumQueues(tcs, allowed, answered)
      PROVE  StrayInv'
  BY <1>1, <1>5 DEF SetNumQueues
<1>6. ASSUME NEW got \in 0 .. 8, AcquireMsixVectors(got) PROVE StrayInv'
  BY <1>1, <1>6 DEF AcquireMsixVectors
<1>7. CASE AllocQVector
  BY <1>1, <1>7 DEF AllocQVector
<1>8. CASE AllocFails \/ RequestIrqs \/ ConfigureMsix \/ FreeIrqs
  BY <1>1, <1>8 DEF AllocFails, RequestIrqs, ConfigureMsix, FreeIrqs
<1> QED BY <1>2, <1>3, <1>4, <1>5, <1>6, <1>7, <1>8 DEF QueueNext

LEMMA QueueStep == ASSUME QueueIInv, PfGivesQueues, [QueueNext]_queueVars PROVE QueueIInv'
<1>1. CASE UNCHANGED queueVars
  <2>1. UNCHANGED <<qsetup, xdpProg, cpus, maxTx, num, numVec, entries, vector, left, next, txReg,
                    ivar, miscVec, eims, irqs>>
    BY <1>1 DEF queueVars
  <2>2. QueueTypes' /\ QueueIdle' /\ QueueShape'
    BY <2>1 DEF QueueIInv, QueueTypes, QueueIdle, QueueShape
  <2>3. Build'
    BY <2>1 DEF QueueIInv, Build, BuildCounts, BuildVectors, BuildRegs, Filled, Rest
  <2>4. IrqsRight'
    BY <2>1 DEF QueueIInv, IrqsRight, Routed, Written
  <2> QED BY <2>2, <2>3, <2>4 DEF QueueIInv
<1>2. ASSUME QueueNext PROVE QueueIInv'
  <2>1. ASSUME NEW tcs \in Classes, NEW allowed \in TxQueues, NEW answered \in BOOLEAN,
               SetNumQueues(tcs, allowed, answered)
        PROVE  QueueIInv'
    BY <2>1, SetNumQueuesKeeps
  <2>2. ASSUME NEW got \in 0 .. 8, AcquireMsixVectors(got) PROVE QueueIInv'
    BY <2>2, AcquireKeeps
  <2>3. ASSUME NEW prog \in BOOLEAN, ClearInterruptScheme(prog) PROVE QueueIInv'
    BY <2>3, ClearKeeps
  <2>4. ASSUME NEW at \in 0 .. 8, RequestFails(at) PROVE QueueIInv'
    BY <2>4, RequestFailsKeeps
  <2> QED BY <1>2, <2>1, <2>2, <2>3, <2>4, AllocQVectorKeeps, AllocFailsKeeps, RequestKeeps,
             FreeKeeps, ConfigureMsixKeeps DEF QueueNext
<1> QED BY <1>1, <1>2

LEMMA QueueImplied ==
  ASSUME QueueIInv, StrayInv
  PROVE  QueueTypeOK /\ QueuesCovered /\ RegsDistinct /\ CausesRouted /\ NothingLeft
<1> USE DEF QueueIInv
<1>0. ASSUME qsetup \in {"vectors", "ready", "irqs", "msix"}
      PROVE  BuildCounts /\ BuildVectors /\ BuildRegs
  BY <1>0 DEF Build
<1>1. ASSUME SetUp PROVE \A k \in Kinds : next[k] = num[k]
  <2>1. BuildCounts /\ qsetup # "vectors"
    BY <1>0, <1>1 DEF SetUp
  <2>2. Rest = 0
    BY <2>1 DEF BuildCounts, Rest, Filled
  <2> QED BY <2>1, <2>2 DEF BuildCounts, QueueTypes
<1>2. QueueTypeOK
  <2>1. ASSUME NEW v \in DOMAIN vector
        PROVE  /\ qsetup # "refused" => v < numVec
               /\ \A k \in Kinds : vector[v][k] \subseteq Queues(k)
    <3> SUFFICES ASSUME qsetup # "refused"
                 PROVE  v < numVec /\ \A k \in Kinds : vector[v][k] \subseteq Queues(k)
      BY DEF StrayInv
    <3>1. qsetup \in {"vectors", "ready", "irqs", "msix"}
      BY DEF QueueIdle, QueueTypes, NoMap
    <3>2. BuildCounts /\ BuildVectors
      BY <1>0, <3>1
    <3>3. v < numVec
      BY <3>2 DEF BuildCounts, Upto
    <3>4. ASSUME NEW k \in Kinds PROVE vector[v][k] \subseteq Queues(k)
      <4>1. next[k] <= num[k] /\ next[k] \in Nat /\ num[k] \in Nat
        BY <3>2 DEF BuildCounts, QueueTypes
      <4> QED BY <3>2, <4>1 DEF BuildVectors, Queues, Upto
    <3> QED BY <3>3, <3>4
  <2>2. irqs \subseteq 0 .. 8
    <3>1. CASE qsetup \in {"irqs", "msix"}
      <4>1. BuildCounts /\ irqs = DOMAIN vector \cup {numVec}
        BY <1>0, <3>1 DEF IrqsRight
      <4> QED BY <4>1 DEF BuildCounts, Upto
    <3> QED BY <3>1 DEF IrqsRight
  <2> QED BY <2>1, <2>2 DEF QueueTypeOK, QueueTypes, StrayInv
<1>3. QueuesCovered
  <2> SUFFICES ASSUME SetUp
               PROVE  /\ \A k \in Kinds : \A q \in Queues(k) : \E v \in DOMAIN vector :
                           q \in vector[v][k] /\ \A w \in DOMAIN vector \ {v} : q \notin vector[w][k]
                      /\ \A v \in DOMAIN vector : vector[v]["rx"] # {}
    BY DEF QueuesCovered
  <2>1. BuildVectors
    BY <1>0 DEF SetUp
  <2> QED BY <1>1, <2>1 DEF BuildVectors, Queues
<1>4. RegsDistinct
  <2> SUFFICES ASSUME SetUp
               PROVE  /\ \A r, s \in DOMAIN txReg : txReg[r] = txReg[s] => r = s
                      /\ \A r \in DOMAIN txReg : txReg[r] < maxTx
    BY DEF RegsDistinct
  <2>1. BuildRegs
    BY <1>0 DEF SetUp
  <2>2. next["tx"] = num["tx"] /\ next["xdp"] = num["xdp"] /\ num["tx"] + num["xdp"] <= maxTx
        /\ num["tx"] \in Nat /\ num["xdp"] \in Nat /\ maxTx \in Nat
    BY <1>1 DEF SetUp, QueueShape, Kinds, QueueTypes
  <2> QED BY <2>1, <2>2 DEF BuildRegs
<1>5. CausesRouted
  <2> SUFFICES ASSUME qsetup = "msix"
               PROVE  /\ \A v \in DOMAIN vector : \A p \in Written(v) : ivar[p] = v
                      /\ InUse \subseteq irqs /\ miscVec \in irqs /\ miscVec \notin DOMAIN vector
                      /\ eims = irqs
    BY DEF CausesRouted
  <2>1. BuildCounts /\ BuildVectors
    BY <1>0
  <2>2. Routed /\ irqs = DOMAIN vector \cup {numVec} /\ miscVec = numVec /\ eims = irqs
    BY DEF IrqsRight
  <2>3. numVec \notin DOMAIN vector
    BY <2>1 DEF BuildCounts, Upto
  <2> QED BY <2>1, <2>2, <2>3, AllInUse DEF Routed
<1>6. NothingLeft
  BY DEF NothingLeft, QueueIdle, IrqsRight, StrayInv, Filled
<1> QED BY <1>2, <1>3, <1>4, <1>5, <1>6

-----------------------------------------------------------------------------
(* Ring memory.                                                            *)

Sizes == {c \in DescMin .. DescMax : c % DescMultiple = 0}
Rings == [mem : Nat, raw : BOOLEAN, out : BOOLEAN, skb : Nat, cnt : Sizes]
MemPhases == {"closed", "open", "ready", "irqs", "up", "undone", "clone", "swap", "swapped"}

\* the rings that have memory now
Have == IF mpc \in {"closed", "undone"} THEN {} ELSE IF mpc = "open" THEN Rewound ELSE RingNos

MemTypes ==
  /\ ringOf \in [RingNos -> Rings] /\ clone \in [RingNos -> Rings] /\ cloned \subseteq RingNos
  /\ counts \in [{"tx", "rx"} -> Sizes] /\ wanted \in [{"tx", "rx"} -> Sizes]
  /\ mpc \in MemPhases /\ mring \in {0} \cup RingNos
  /\ blocks \subseteq Nat \ {0} /\ IsFiniteSet(blocks) /\ lost \subseteq blocks
  /\ skbs \subseteq Nat \ {0} /\ IsFiniteSet(skbs)
  /\ hwMem \in [RingNos -> Nat]
Owned ==
  /\ \A r \in Have : ringOf[r].mem \in blocks \ lost
  /\ \A r \in RingNos \ Have : ringOf[r].mem \in {0} \cup lost
  /\ \A r, s \in Have : ringOf[r].mem = ringOf[s].mem => r = s
  /\ \A r \in cloned : clone[r].mem \in blocks \ lost
  /\ \A r, s \in cloned : clone[r].mem = clone[s].mem => r = s
  /\ \A r \in Have, s \in cloned : ringOf[r].mem # clone[s].mem
  /\ \A b \in blocks : \/ b \in lost
                       \/ \E r \in Have : b = ringOf[r].mem
                       \/ \E s \in cloned : b = clone[s].mem
MemPhase ==
  /\ cloned # {} => mpc \in {"clone", "swap"}
  /\ mpc = "open" <=> mring # 0
  /\ mpc \in {"irqs", "up", "clone"} => \A r \in RingNos : hwMem[r] = ringOf[r].mem
  /\ mpc \in {"closed", "open", "ready", "swap", "swapped"} => \A r \in RingNos : hwMem[r] = 0
SizesRight ==
  /\ \A r \in RingNos : ringOf[r].cnt = counts[Side(r)]
  /\ \A r \in cloned : clone[r].cnt = wanted[Side(r)]
  /\ mpc = "swap" => Changed \subseteq cloned
MemIInv == MemTypes /\ Owned /\ MemPhase /\ SizesRight

LEMMA FreshIsNew ==
  ASSUME NEW set, set \subseteq Nat, IsFiniteSet(set)
  PROVE  Fresh(set) \in Nat \ {0} /\ Fresh(set) \notin set
<1> DEFINE n == Cardinality(set)
<1>1. n \in Nat
  BY FS_CardinalityType
<1>2. IsFiniteSet(1 .. n + 1) /\ Cardinality(1 .. n + 1) = n + 1
  BY <1>1, FS_Interval
<1>3. \E b \in 1 .. n + 1 : b \notin set
  <2> SUFFICES ASSUME 1 .. n + 1 \subseteq set PROVE FALSE
    OBVIOUS
  <2>1. Cardinality(1 .. n + 1) <= Cardinality(set)
    BY FS_Subset
  <2> QED BY <1>1, <1>2, <2>1
<1>4. Fresh(set) \in 1 .. n + 1 /\ Fresh(set) \notin set
  BY <1>3 DEF Fresh
<1> QED BY <1>1, <1>4

LEMMA HasLeast ==
  ASSUME NEW S, S \subseteq Nat, S # {} PROVE \E x \in S : \A y \in S : x <= y
<1> DEFINE R == OpToRel(<, Nat)
<1>1. IsWellFoundedOn(R, Nat)
  BY NatLessThanWellFounded
<1>2. \A x, y \in Nat : y < x => <<y, x>> \in R
  BY DEF OpToRel
<1> HIDE DEF R
<1>3. PICK x \in S : \A y \in S : ~(<<y, x>> \in R)
  BY <1>1, WFMin, Zenon
<1>4. \A y \in S : ~(y < x)
  BY <1>2, <1>3
<1> QED BY <1>4

LEMMA RingsNumbered ==
  /\ RingNos \subseteq Nat \ {0} /\ 1 \in RingNos /\ TxLast + MemRx \in Nat
  /\ TxLast + MemRx \in RingNos /\ \A r \in RingNos : Side(r) \in {"tx", "rx"}
BY RingMemoryAssumption DEF RingNos, TxLast, Side

LEMMA NextCloneRight ==
  ASSUME Changed \ cloned # {} PROVE NextClone \in Changed /\ NextClone \notin cloned /\ NextClone \in RingNos
<1>1. Changed \subseteq RingNos
  BY DEF Changed
<1>2. \E r \in Changed \ cloned : \A s \in Changed \ cloned : r <= s
  BY <1>1, HasLeast, RingsNumbered
<1> QED BY <1>1, <1>2 DEF NextClone

LEMMA AlignedIsSize ==
  ASSUME NEW n \in DescMin .. DescMax PROVE Aligned(n) \in Sizes
<1> DEFINE m == DescMultiple
           q == (n + m - 1) \div m
<1>1. m \in Nat \ {0} /\ n \in Nat /\ DescMin \in Nat \ {0} /\ DescMax \in Nat /\ DescMin <= n /\ n <= DescMax
      /\ DescMax % m = 0
  BY RingMemoryAssumption
<1>2. q \in Nat /\ q * m <= n + m - 1 /\ n + m - 1 < q * m + m
  <2> HIDE DEF m
  <2>1. n + m - 1 \in Nat
    BY <1>1
  <2> DEFINE x == n + m - 1
  <2>2. x \in Nat
    BY <2>1
  <2>3. x \div m \in Nat /\ (x \div m) * m <= x /\ x < (x \div m) * m + m
    <3> HIDE DEF x
    <3> QED BY <1>1, <2>2
  <2> QED BY <2>3
<1>3. PICK k \in Nat : DescMax = k * m
  <2> HIDE DEF m
  <2>1. DescMax \div m \in Nat /\ DescMax = (DescMax \div m) * m
    BY <1>1
  <2> QED BY <2>1
<1>4. q <= k
  <2> HIDE DEF m, q
  <2> SUFFICES ASSUME q >= k + 1 PROVE FALSE
    BY <1>2, <1>3
  <2>1. q * m >= (k + 1) * m
    BY <1>1, <1>2, <1>3
  <2>2. (k + 1) * m = k * m + m
    BY <1>1, <1>3
  <2>3. k * m \in Nat /\ q * m \in Nat
    BY <1>1, <1>2, <1>3
  <2> QED BY <1>1, <1>2, <1>3, <2>1, <2>2, <2>3
<1>5. q * m <= k * m
  <2> HIDE DEF m, q
  <2> QED BY <1>1, <1>2, <1>3, <1>4
<1>6. (q * m) % m = 0
  <2> HIDE DEF m, q
  <2> QED BY <1>1, <1>2
<1>7. q * m \in Nat /\ n <= q * m
  <2> HIDE DEF m, q
  <2> QED BY <1>1, <1>2
<1>8. Aligned(n) = q * m
  BY DEF Aligned
<1> HIDE DEF m, q
<1>9. q * m \in DescMin .. DescMax
  BY <1>1, <1>3, <1>5, <1>7
<1> QED BY <1>6, <1>8, <1>9 DEF Sizes, m

LEMMA BlankTyped == ASSUME NEW c \in Sizes PROVE BlankRing(c) \in Rings /\ BlankRing(c).mem = 0 /\ BlankRing(c).cnt = c
BY DEF BlankRing, Rings

LEMMA WithMemory ==
  ASSUME NEW ring \in Rings, NEW c \in BOOLEAN, NEW m \in Nat
  PROVE  LET new == [ring EXCEPT !.raw = c, !.mem = m]
         IN  new \in Rings /\ new.mem = m /\ new.cnt = ring.cnt
BY DEF Rings

LEMMA SetUpTyped ==
  ASSUME NEW ring \in Rings, NEW block \in Nat, NEW out \in {"ok", "nomem", "noreg"}
  PROVE  /\ SetUpRing(ring, block, out) \in Rings
         /\ SetUpRing(ring, block, out).mem = IF out = "nomem" THEN 0 ELSE block
         /\ SetUpRing(ring, block, out).cnt = ring.cnt
<1> DEFINE m == IF out = "nomem" THEN 0 ELSE block
           c == IF out = "nomem" THEN FALSE ELSE out = "ok"
           new == [ring EXCEPT !.raw = c, !.mem = m]
<1>1. m \in Nat /\ c \in BOOLEAN
  OBVIOUS
<1>2. SetUpRing(ring, block, out) = new
  <2>1. CASE out = "nomem"
    BY <2>1 DEF SetUpRing
  <2>2. CASE out # "nomem"
    BY <2>2 DEF SetUpRing
  <2> QED BY <2>1, <2>2
<1>3. new \in Rings /\ new.mem = m /\ new.cnt = ring.cnt
  <2> HIDE DEF m, c
  <2> QED BY <1>1, WithMemory
<1> HIDE DEF new
<1> QED BY <1>2, <1>3

LEMMA MemInitHolds == ASSUME RingMemoryInit PROVE MemIInv
<1>1. DescMin \in Sizes
  BY RingMemoryAssumption DEF Sizes
<1>2. /\ ringOf = [r \in RingNos |-> BlankRing(DescMin)] /\ clone = [r \in RingNos |-> BlankRing(DescMin)]
      /\ counts = [s \in {"tx", "rx"} |-> DescMin] /\ wanted = counts /\ cloned = {}
      /\ mpc = "closed" /\ mring = 0 /\ blocks = {} /\ lost = {} /\ skbs = {}
      /\ hwMem = [r \in RingNos |-> 0]
  BY DEF RingMemoryInit
<1>3. MemTypes
  BY <1>1, <1>2, BlankTyped, FS_EmptySet DEF MemTypes, MemPhases
<1>4. Owned
  BY <1>1, <1>2, BlankTyped DEF Owned, Have
<1>5. MemPhase
  BY <1>2 DEF MemPhase
<1>6. SizesRight
  BY <1>1, <1>2, BlankTyped, RingsNumbered DEF SizesRight
<1> QED BY <1>3, <1>4, <1>5, <1>6 DEF MemIInv

\* What no step on the rings' indices, frames and registers disturbs.
LEMMA OwnedStable ==
  ASSUME MemIInv, ringOf' \in [RingNos -> Rings],
         \A r \in RingNos : ringOf'[r].mem = ringOf[r].mem /\ ringOf'[r].cnt = ringOf[r].cnt,
         Have' = Have, UNCHANGED <<clone, cloned, blocks, lost, counts, wanted>>,
         mpc' = "swap" => Changed \subseteq cloned
  PROVE  Owned' /\ SizesRight'
<1>1. Have \subseteq RingNos
  BY RingsNumbered DEF Have, Rewound, MemIInv, MemTypes, RingNos
<1>2. Owned'
  BY <1>1 DEF MemIInv, Owned
<1>3. SizesRight'
  BY DEF MemIInv, SizesRight, Changed
<1> QED BY <1>2, <1>3

LEMMA OpenBeginKeeps == ASSUME MemIInv, OpenBegin PROVE MemIInv'
<1>0. /\ mpc = "closed" /\ mpc' = "open" /\ mring' = 1
      /\ UNCHANGED <<ringOf, clone, cloned, counts, wanted, blocks, skbs, hwMem, badFree, lost>>
  BY DEF OpenBegin
<1>1. MemTypes'
  BY <1>0, RingsNumbered DEF MemIInv, MemTypes, MemPhases
<1>2. Have = {} /\ Have' = {}
  BY <1>0 DEF Have, Rewound
<1>3. MemPhase'
  BY <1>0 DEF MemIInv, MemPhase
<1>4. Owned' /\ SizesRight'
  BY <1>0, <1>2, OwnedStable DEF MemIInv, MemTypes
<1> QED BY <1>1, <1>3, <1>4 DEF MemIInv

LEMMA OpenDoneKeeps == ASSUME MemIInv, OpenDone PROVE MemIInv'
<1>0. /\ mpc = "irqs" /\ mpc' = "up"
      /\ UNCHANGED <<ringOf, clone, cloned, counts, wanted, mring, blocks, skbs, hwMem, badFree, lost>>
  BY DEF OpenDone
<1>1. MemTypes'
  BY <1>0 DEF MemIInv, MemTypes, MemPhases
<1>2. Have' = Have
  BY <1>0 DEF Have
<1>3. MemPhase'
  BY <1>0 DEF MemIInv, MemPhase
<1>4. Owned' /\ SizesRight'
  BY <1>0, <1>2, OwnedStable DEF MemIInv, MemTypes
<1> QED BY <1>1, <1>3, <1>4 DEF MemIInv

LEMMA OpenResetKeeps == ASSUME MemIInv, OpenReset PROVE MemIInv'
<1>0. /\ mpc = "undone" /\ mpc' = "closed" /\ hwMem' = [r \in RingNos |-> 0]
      /\ UNCHANGED <<ringOf, clone, cloned, counts, wanted, mring, blocks, skbs, badFree, lost>>
  BY DEF OpenReset
<1>1. MemTypes'
  BY <1>0 DEF MemIInv, MemTypes, MemPhases
<1>2. Have' = Have
  BY <1>0 DEF Have
<1>3. MemPhase'
  BY <1>0 DEF MemIInv, MemPhase
<1>4. Owned' /\ SizesRight'
  BY <1>0, <1>2, OwnedStable DEF MemIInv, MemTypes
<1> QED BY <1>1, <1>3, <1>4 DEF MemIInv

LEMMA ConfigureKeeps == ASSUME MemIInv, Configure PROVE MemIInv'
<1>0. /\ mpc \in {"ready", "swapped"} /\ ringOf' = [r \in RingNos |-> Configured(r)]
      /\ hwMem' = [r \in RingNos |-> ringOf[r].mem] /\ mpc' = (IF mpc = "ready" THEN "irqs" ELSE "up")
      /\ UNCHANGED <<clone, cloned, counts, wanted, mring, blocks, skbs, badFree, lost>>
  BY DEF Configure
<1>1. ASSUME NEW r \in RingNos
      PROVE  Configured(r) \in Rings /\ Configured(r).mem = ringOf[r].mem /\ Configured(r).cnt = ringOf[r].cnt
  <2>1. ringOf[r] \in Rings
    BY DEF MemIInv, MemTypes
  <2> DEFINE b == IsRx(r)
  <2>2. b \in BOOLEAN
    BY DEF IsRx
  <2>3. Configured(r) = [ringOf[r] EXCEPT !.raw = FALSE, !.out = b]
    BY DEF Configured
  <2> HIDE DEF b
  <2> QED BY <2>1, <2>2, <2>3 DEF Rings
<1>2. ringOf' \in [RingNos -> Rings] /\ \A r \in RingNos : ringOf[r].mem \in Nat
  BY <1>0, <1>1 DEF MemIInv, MemTypes, Rings
<1>3. MemTypes'
  BY <1>0, <1>2 DEF MemIInv, MemTypes, MemPhases
<1>4. Have' = Have
  BY <1>0 DEF Have
<1>5. MemPhase'
  BY <1>0, <1>1 DEF MemIInv, MemPhase
<1>6. Owned' /\ SizesRight'
  BY <1>0, <1>1, <1>2, <1>4, OwnedStable
<1> QED BY <1>3, <1>5, <1>6 DEF MemIInv

LEMMA TxTrafficKeeps == ASSUME MemIInv, NEW n \in RingNos, TxTraffic(n) PROVE MemIInv'
<1>0. /\ mpc \in {"up", "clone"} /\ ringOf' = [ringOf EXCEPT ![n].out = ~@]
      /\ UNCHANGED <<clone, cloned, counts, wanted, mpc, mring, blocks, skbs, hwMem, badFree, lost>>
  BY DEF TxTraffic, Running
<1>1. ringOf' \in [RingNos -> Rings]
      /\ \A r \in RingNos : ringOf'[r].mem = ringOf[r].mem /\ ringOf'[r].cnt = ringOf[r].cnt
  <2>1. ringOf \in [RingNos -> Rings] /\ ringOf[n] \in Rings
    BY DEF MemIInv, MemTypes
  <2> DEFINE b == ~ringOf[n].out
  <2>2. b \in BOOLEAN
    OBVIOUS
  <2>3. ringOf' = [ringOf EXCEPT ![n] = [ringOf[n] EXCEPT !.out = b]]
    BY <1>0, <2>1
  <2> HIDE DEF b
  <2> QED BY <2>1, <2>2, <2>3 DEF Rings
<1>2. MemTypes'
  BY <1>0, <1>1 DEF MemIInv, MemTypes
<1>3. Have' = Have
  BY <1>0 DEF Have
<1>4. MemPhase'
  BY <1>0, <1>1 DEF MemIInv, MemPhase
<1>5. Owned' /\ SizesRight'
  BY <1>0, <1>1, <1>3, OwnedStable
<1> QED BY <1>2, <1>4, <1>5 DEF MemIInv

LEMMA RxTrafficKeeps == ASSUME MemIInv, NEW n \in RingNos, RxTraffic(n) PROVE MemIInv'
<1>0. /\ mpc \in {"up", "clone"}
      /\ UNCHANGED <<clone, cloned, counts, wanted, mpc, mring, blocks, hwMem, lost>>
  BY DEF RxTraffic, Running
<1>1. PICK k \in Nat : /\ ringOf' = [ringOf EXCEPT ![n].skb = k]
                       /\ skbs' \subseteq Nat \ {0} /\ IsFiniteSet(skbs')
  <2>1. Fresh(skbs) \in Nat \ {0} /\ skbs \subseteq Nat \ {0} /\ IsFiniteSet(skbs)
    BY FreshIsNew DEF MemIInv, MemTypes
  <2>2. CASE ringOf[n].skb = 0
    <3>1. skbs' = skbs \cup {Fresh(skbs)} /\ ringOf' = [ringOf EXCEPT ![n].skb = Fresh(skbs)]
      BY <2>2 DEF RxTraffic
    <3> QED BY <2>1, <3>1, FS_AddElement
  <2>3. CASE ringOf[n].skb # 0
    <3>1. skbs' = skbs \ {ringOf[n].skb} /\ ringOf' = [ringOf EXCEPT ![n].skb = 0]
      BY <2>3 DEF RxTraffic
    <3> QED BY <2>1, <3>1, FS_RemoveElement
  <2> QED BY <2>2, <2>3
<1>2. ringOf' \in [RingNos -> Rings]
      /\ \A r \in RingNos : ringOf'[r].mem = ringOf[r].mem /\ ringOf'[r].cnt = ringOf[r].cnt
  <2>1. ringOf \in [RingNos -> Rings]
    BY DEF MemIInv, MemTypes
  <2> QED BY <1>1, <2>1 DEF Rings
<1>3. MemTypes'
  BY <1>0, <1>1, <1>2 DEF MemIInv, MemTypes
<1>4. Have' = Have
  BY <1>0 DEF Have
<1>5. MemPhase'
  BY <1>0, <1>2 DEF MemIInv, MemPhase
<1>6. Owned' /\ SizesRight'
  BY <1>0, <1>2, <1>4, OwnedStable
<1> QED BY <1>3, <1>5, <1>6 DEF MemIInv

LEMMA SwapDownKeeps == ASSUME MemIInv, SwapDown PROVE MemIInv'
<1>0. /\ mpc = "clone" /\ Changed \subseteq cloned /\ mpc' = "swap" /\ hwMem' = [r \in RingNos |-> 0]
      /\ ringOf' = [r \in RingNos |-> Emptied(r)] /\ skbs' = skbs \ {ringOf[r].skb : r \in RingNos}
      /\ UNCHANGED <<clone, cloned, counts, wanted, mring, blocks, lost>>
  BY DEF SwapDown, QueuesOff
<1>1. ASSUME NEW r \in RingNos
      PROVE  Emptied(r) \in Rings /\ Emptied(r).mem = ringOf[r].mem /\ Emptied(r).cnt = ringOf[r].cnt
  <2>1. ringOf[r] \in Rings
    BY DEF MemIInv, MemTypes
  <2> QED BY <2>1 DEF Emptied, Rings
<1>2. ringOf' \in [RingNos -> Rings]
  BY <1>0, <1>1
<1>3. MemTypes'
  <2>1. skbs' \subseteq Nat \ {0} /\ IsFiniteSet(skbs')
    BY <1>0, FS_Subset DEF MemIInv, MemTypes
  <2> QED BY <1>0, <1>2, <2>1 DEF MemIInv, MemTypes, MemPhases
<1>4. Have' = Have
  BY <1>0 DEF Have
<1>5. MemPhase'
  BY <1>0 DEF MemIInv, MemPhase
<1>6. Owned' /\ SizesRight'
  BY <1>0, <1>1, <1>2, <1>4, OwnedStable
<1> QED BY <1>3, <1>5, <1>6 DEF MemIInv

LEMMA FreeAllRight ==
  ASSUME MemIInv, FreeAll, Have = RingNos, cloned = {}
  PROVE  /\ blocks' = lost /\ skbs' \subseteq Nat \ {0} /\ IsFiniteSet(skbs')
         /\ ringOf' \in [RingNos -> Rings]
         /\ \A r \in RingNos : ringOf'[r].mem = 0 /\ ringOf'[r].cnt = ringOf[r].cnt
<1>1. /\ ringOf' = [r \in RingNos |-> BlankRing(ringOf[r].cnt)]
      /\ blocks' = blocks \ {ringOf[r].mem : r \in RingNos}
      /\ skbs' = skbs \ {ring.skb : ring \in {ringOf[r] : r \in RingNos}}
  BY DEF FreeAll, FreeRings, Freed1
<1>2. \A r \in RingNos : ringOf[r].cnt \in Sizes
  BY DEF MemIInv, MemTypes, Rings
<1>3. blocks' = lost
  <2>1. \A b \in blocks : b \in lost \/ \E r \in RingNos : b = ringOf[r].mem
    BY DEF MemIInv, Owned
  <2>2. \A r \in RingNos : ringOf[r].mem \notin lost
    BY DEF MemIInv, Owned
  <2>3. lost \subseteq blocks
    BY DEF MemIInv, MemTypes
  <2> QED BY <1>1, <2>1, <2>2, <2>3
<1>4. skbs' \subseteq Nat \ {0} /\ IsFiniteSet(skbs')
  BY <1>1, FS_Subset DEF MemIInv, MemTypes
<1> QED BY <1>1, <1>2, <1>3, <1>4, BlankTyped

LEMMA LostFinite == ASSUME MemIInv PROVE IsFiniteSet(lost) /\ lost \subseteq Nat \ {0}
BY FS_Subset DEF MemIInv, MemTypes

LEMMA CloseKeeps == ASSUME MemIInv, Close PROVE MemIInv'
<1>0. /\ mpc = "up" /\ mpc' = "closed" /\ hwMem' = [r \in RingNos |-> 0] /\ FreeAll
      /\ UNCHANGED <<clone, cloned, counts, wanted, mring, lost>>
  BY DEF Close, QueuesOff
<1>1. Have = RingNos /\ Have' = {} /\ cloned = {}
  BY <1>0 DEF Have, MemIInv, MemPhase
<1>2. /\ blocks' = lost /\ skbs' \subseteq Nat \ {0} /\ IsFiniteSet(skbs')
      /\ ringOf' \in [RingNos -> Rings]
      /\ \A r \in RingNos : ringOf'[r].mem = 0 /\ ringOf'[r].cnt = ringOf[r].cnt
  BY <1>0, <1>1, FreeAllRight
<1>3. MemTypes'
  BY <1>0, <1>2, LostFinite DEF MemIInv, MemTypes, MemPhases
<1>4. Owned'
  BY <1>0, <1>1, <1>2 DEF Owned
<1>5. MemPhase'
  BY <1>0 DEF MemIInv, MemPhase
<1>6. SizesRight'
  BY <1>0, <1>1, <1>2 DEF MemIInv, SizesRight
<1> QED BY <1>3, <1>4, <1>5, <1>6 DEF MemIInv

LEMMA OpenFailsKeeps == ASSUME MemIInv, OpenFails PROVE MemIInv'
<1>0. /\ mpc = "irqs" /\ mpc' = "undone" /\ FreeAll
      /\ UNCHANGED <<clone, cloned, counts, wanted, mring, hwMem, lost>>
  BY DEF OpenFails
<1>1. Have = RingNos /\ Have' = {} /\ cloned = {}
  BY <1>0 DEF Have, MemIInv, MemPhase
<1>2. /\ blocks' = lost /\ skbs' \subseteq Nat \ {0} /\ IsFiniteSet(skbs')
      /\ ringOf' \in [RingNos -> Rings]
      /\ \A r \in RingNos : ringOf'[r].mem = 0 /\ ringOf'[r].cnt = ringOf[r].cnt
  BY <1>0, <1>1, FreeAllRight
<1>3. MemTypes'
  BY <1>0, <1>2, LostFinite DEF MemIInv, MemTypes, MemPhases
<1>4. Owned'
  BY <1>0, <1>1, <1>2 DEF Owned
<1>5. MemPhase'
  BY <1>0 DEF MemIInv, MemPhase
<1>6. SizesRight'
  BY <1>0, <1>1, <1>2 DEF MemIInv, SizesRight
<1> QED BY <1>3, <1>4, <1>5, <1>6 DEF MemIInv

LEMMA OpenRingKeeps ==
  ASSUME MemIInv, NEW out \in {"ok", "nomem", "noreg"}, OpenRing(out) PROVE MemIInv'
<1> DEFINE block == Fresh(blocks)
           after == SetUpRing(ringOf[mring], block, out)
<1>0. mpc = "open" /\ UNCHANGED <<clone, cloned, counts, wanted, hwMem>>
  BY DEF OpenRing
<1>1. /\ mring \in RingNos /\ Have = Rewound /\ cloned = {}
      /\ \A r \in RingNos : hwMem[r] = 0
      /\ MemTypes /\ Owned /\ SizesRight
  BY <1>0 DEF MemIInv, MemTypes, MemPhase, Have
<1>2. /\ Rewound \subseteq RingNos /\ mring \notin Rewound
      /\ (mring # TxLast + MemRx => mring + 1 \in RingNos /\ 1 .. mring = Rewound \cup {mring})
      /\ (mring = TxLast + MemRx => RingNos = Rewound \cup {mring})
      /\ mring + 1 # 0
  BY <1>1, RingsNumbered DEF Rewound, RingNos
<1>3. block \in Nat \ {0} /\ block \notin blocks /\ block \notin lost
  BY <1>1, FreshIsNew DEF MemTypes
<1>4. after \in Rings /\ after.cnt = ringOf[mring].cnt
      /\ after.mem = IF out = "nomem" THEN 0 ELSE block
  <2>1. ringOf[mring] \in Rings
    BY <1>1 DEF MemTypes
  <2> HIDE DEF block
  <2> QED BY <1>3, <2>1, SetUpTyped
<1>5. IsFiniteSet(blocks \cup {block}) /\ blocks \cup {block} \subseteq Nat \ {0}
  BY <1>1, <1>3, FS_AddElement DEF MemTypes
<1>6. CASE out = "ok"
  <2>1. /\ ringOf' = [ringOf EXCEPT ![mring] = after] /\ blocks' = blocks \cup {block}
        /\ IF mring = TxLast + MemRx THEN mpc' = "ready" /\ mring' = 0
                                     ELSE mring' = mring + 1 /\ UNCHANGED mpc
        /\ UNCHANGED <<skbs, lost, badFree>>
    BY <1>6 DEF OpenRing
  <2>2. Have' = Rewound \cup {mring}
    BY <1>0, <1>2, <2>1 DEF Have, Rewound
  <2> HIDE DEF block, after
  <2>3. /\ ringOf' \in [RingNos -> Rings] /\ ringOf'[mring].mem = block
        /\ \A r \in RingNos : ringOf'[r].cnt = ringOf[r].cnt
        /\ \A r \in RingNos \ {mring} : ringOf'[r].mem = ringOf[r].mem
    BY <1>1, <1>4, <1>6, <2>1 DEF MemTypes
  <2>4. MemTypes'
    BY <1>0, <1>1, <1>2, <1>5, <2>1, <2>3 DEF MemTypes, MemPhases
  <2>5. Owned'
    BY <1>0, <1>1, <1>2, <1>3, <2>1, <2>2, <2>3 DEF Owned
  <2>6. MemPhase'
    BY <1>0, <1>1, <1>2, <2>1 DEF MemPhase
  <2>7. SizesRight'
    BY <1>0, <1>1, <2>1, <2>3 DEF SizesRight
  <2> QED BY <2>4, <2>5, <2>6, <2>7 DEF MemIInv
<1>7. CASE out # "ok"
  <2>1. /\ ringOf' = [r \in RingNos |-> IF r \in Rewound THEN Freed1(ringOf[r])
                                              ELSE IF r = mring THEN after ELSE ringOf[r]]
        /\ blocks' = (blocks \ {ringOf[r].mem : r \in Rewound})
                               \cup IF out = "noreg" THEN {block} ELSE {}
        /\ lost' = IF out = "noreg" THEN lost \cup {block} ELSE lost
        /\ mpc' = "closed" /\ mring' = 0
        /\ UNCHANGED skbs
    BY <1>7 DEF OpenRing
  <2> HIDE DEF block, after
  <2>2. Have' = {}
    BY <2>1 DEF Have
  <2>3. \A r \in RingNos : Freed1(ringOf[r]) \in Rings /\ Freed1(ringOf[r]).mem = 0
                            /\ Freed1(ringOf[r]).cnt = ringOf[r].cnt
    BY <1>1, BlankTyped DEF MemTypes, Rings, Freed1
  <2>4. /\ ringOf' \in [RingNos -> Rings]
        /\ \A r \in RingNos : ringOf'[r].cnt = ringOf[r].cnt
        /\ \A r \in RingNos : r \in Rewound => ringOf'[r].mem = 0
        /\ \A r \in RingNos : r \notin Rewound /\ r # mring => ringOf'[r].mem = ringOf[r].mem
        /\ ringOf'[mring].mem = IF out = "nomem" THEN 0 ELSE block
    BY <1>1, <1>2, <1>4, <2>1, <2>3 DEF MemTypes
  <2>5. blocks \ {ringOf[r].mem : r \in Rewound} = lost
    <3>1. \A b \in blocks : b \in lost \/ \E r \in Rewound : b = ringOf[r].mem
      BY <1>1 DEF Owned
    <3>2. \A r \in Rewound : ringOf[r].mem \notin lost
      BY <1>1 DEF Owned
    <3>3. lost \subseteq blocks
      BY <1>1 DEF MemTypes
    <3> QED BY <3>1, <3>2, <3>3
  <2>6. blocks' = lost' /\ IsFiniteSet(blocks') /\ blocks' \subseteq Nat \ {0}
        /\ lost \subseteq lost' /\ (out = "noreg" => block \in lost')
    <3>1. blocks' = lost' /\ lost \subseteq lost' /\ (out = "noreg" => block \in lost')
      BY <2>1, <2>5
    <3>2. lost' \subseteq blocks \cup {block}
      BY <1>1, <2>1 DEF MemTypes
    <3> QED BY <1>5, <3>1, <3>2, FS_Subset
  <2>7. MemTypes'
    BY <1>0, <1>1, <2>1, <2>4, <2>6 DEF MemTypes, MemPhases
  <2>8. Owned'
    <3>1. \A r \in RingNos : ringOf'[r].mem \in {0} \cup lost'
      <4> TAKE r \in RingNos
      <4>1. CASE r \in Rewound
        BY <2>4, <4>1
      <4>2. CASE r = mring
        BY <1>7, <2>4, <2>6, <4>2
      <4>3. CASE r \notin Rewound /\ r # mring
        <5>1. ringOf[r].mem \in {0} \cup lost
          BY <1>1, <4>3 DEF Owned
        <5> QED BY <2>4, <2>6, <4>3, <5>1
      <4> QED BY <4>1, <4>2, <4>3
    <3> QED BY <1>0, <1>1, <2>2, <2>6, <3>1 DEF Owned
  <2>9. MemPhase'
    BY <1>0, <1>1, <2>1 DEF MemPhase
  <2>10. SizesRight'
    BY <1>0, <1>1, <2>1, <2>4 DEF SizesRight
  <2> QED BY <2>7, <2>8, <2>9, <2>10 DEF MemIInv
<1> QED BY <1>6, <1>7

LEMMA SetRingparamKeeps ==
  ASSUME MemIInv, NEW tx \in DescMin - 1 .. DescMax + 1, NEW rx \in DescMin - 1 .. DescMax + 1,
         SetRingparam(tx, rx)
  PROVE  MemIInv'
<1> DEFINE new == [s \in {"tx", "rx"} |-> Aligned(IF s = "tx" THEN tx ELSE rx)]
<1>0. /\ mpc \in {"closed", "up"} /\ tx \in DescMin .. DescMax /\ rx \in DescMin .. DescMax
      /\ wanted' = new
      /\ IF mpc = "closed"
           THEN /\ counts' = new
                /\ ringOf' = [r \in RingNos |-> [ringOf[r] EXCEPT !.cnt = new[Side(r)]]]
                /\ UNCHANGED <<mpc, mring>>
           ELSE mpc' = "clone" /\ UNCHANGED <<counts, ringOf, mring>>
      /\ UNCHANGED <<clone, cloned, blocks, skbs, hwMem, badFree, lost>>
  BY DEF SetRingparam
<1>1. new \in [{"tx", "rx"} -> Sizes]
  BY <1>0, AlignedIsSize
<1> HIDE DEF new
<1>2. MemTypes /\ Owned /\ MemPhase /\ SizesRight /\ cloned = {}
  BY <1>0 DEF MemIInv, MemPhase
<1>3. /\ ringOf' \in [RingNos -> Rings]
      /\ \A r \in RingNos : ringOf'[r].mem = ringOf[r].mem /\ ringOf'[r].cnt = counts'[Side(r)]
  <2>1. CASE mpc = "closed"
    <3>1. /\ counts' = new
          /\ ringOf' = [r \in RingNos |-> [ringOf[r] EXCEPT !.cnt = new[Side(r)]]]
      BY <1>0, <2>1
    <3>2. ASSUME NEW r \in RingNos
          PROVE  /\ [ringOf[r] EXCEPT !.cnt = new[Side(r)]] \in Rings
                 /\ [ringOf[r] EXCEPT !.cnt = new[Side(r)]].mem = ringOf[r].mem
                 /\ [ringOf[r] EXCEPT !.cnt = new[Side(r)]].cnt = new[Side(r)]
      <4>1. new[Side(r)] \in Sizes /\ ringOf[r] \in Rings
        BY <1>1, <1>2, RingsNumbered DEF MemTypes
      <4> QED BY <4>1 DEF Rings
    <3> QED BY <3>1, <3>2
  <2>2. CASE mpc # "closed"
    BY <1>0, <1>2, <2>2 DEF MemTypes, SizesRight
  <2> QED BY <2>1, <2>2
<1>4. MemTypes'
  BY <1>0, <1>1, <1>2, <1>3 DEF MemTypes, MemPhases
<1>5. Have' = Have /\ Have \subseteq RingNos
  BY <1>0 DEF Have
<1>6. Owned'
  BY <1>0, <1>2, <1>3, <1>5 DEF Owned
<1>7. MemPhase'
  BY <1>0, <1>2, <1>3 DEF MemPhase
<1>8. SizesRight'
  BY <1>0, <1>2, <1>3 DEF SizesRight
<1> QED BY <1>4, <1>6, <1>7, <1>8 DEF MemIInv

LEMMA CloneRingKeeps == ASSUME MemIInv, CloneRing PROVE MemIInv'
<1> DEFINE n == NextClone
           block == Fresh(blocks)
           new == Cloned(n, block, "ok")
<1>0. /\ mpc = "clone" /\ Changed \ cloned # {} /\ clone' = [clone EXCEPT ![n] = new]
      /\ blocks' = blocks \cup {block} /\ cloned' = cloned \cup {n}
      /\ UNCHANGED <<ringOf, counts, wanted, mpc, mring, skbs, hwMem, badFree, lost>>
  BY DEF CloneRing
<1>1. MemTypes /\ Owned /\ MemPhase /\ SizesRight
  BY DEF MemIInv
<1>2. n \in RingNos /\ n \notin cloned
  BY <1>0, NextCloneRight
<1>3. block \in Nat \ {0} /\ block \notin blocks /\ block \notin lost
  BY <1>1, FreshIsNew DEF MemTypes
<1> HIDE DEF n, block
<1>4. new \in Rings /\ new.mem = block /\ new.cnt = wanted[Side(n)]
  <2> DEFINE ring == [ringOf[n] EXCEPT !.cnt = wanted[Side(n)]]
  <2>1. ring \in Rings /\ ring.cnt = wanted[Side(n)]
    BY <1>1, <1>2, RingsNumbered DEF MemTypes, Rings
  <2>2. new = SetUpRing(ring, block, "ok")
    BY DEF Cloned
  <2> HIDE DEF ring, new
  <2>3. block \in Nat
    BY <1>3
  <2> QED BY <2>1, <2>2, <2>3, SetUpTyped
<1> HIDE DEF new
<1>5. /\ clone' \in [RingNos -> Rings] /\ clone'[n] = new
      /\ \A r \in cloned : clone'[r] = clone[r]
  BY <1>0, <1>1, <1>2, <1>4 DEF MemTypes
<1>6. MemTypes'
  <2>1. IsFiniteSet(blocks') /\ blocks' \subseteq Nat \ {0}
    BY <1>0, <1>1, <1>3, FS_AddElement DEF MemTypes
  <2> QED BY <1>0, <1>1, <1>2, <1>5, <2>1 DEF MemTypes
<1>7. Have' = Have /\ Have = RingNos
  BY <1>0 DEF Have
<1>8. Owned'
  BY <1>0, <1>1, <1>2, <1>3, <1>4, <1>5, <1>7 DEF Owned
<1>9. MemPhase'
  BY <1>0, <1>1 DEF MemPhase
<1>10. SizesRight'
  BY <1>0, <1>1, <1>4, <1>5 DEF SizesRight
<1> QED BY <1>6, <1>8, <1>9, <1>10 DEF MemIInv

LEMMA ClonesBlank ==
  ASSUME MemTypes, clone' = [r \in RingNos |-> BlankRing(clone[r].cnt)] PROVE clone' \in [RingNos -> Rings]
<1>1. \A r \in RingNos : clone[r].cnt \in Sizes
  BY DEF MemTypes, Rings
<1> QED BY <1>1, BlankTyped

LEMMA CloneFailsKeeps ==
  ASSUME MemIInv, NEW out \in {"nomem", "noreg"}, CloneFails(out) PROVE MemIInv'
<1> DEFINE block == Fresh(blocks)
           kept == blocks \ {clone[r].mem : r \in cloned}
           gone == IF out = "noreg" THEN {block} ELSE {}
<1>0. /\ mpc = "clone" /\ mpc' = "up" /\ wanted' = counts /\ cloned' = {}
      /\ blocks' = kept \cup gone
      /\ lost' = lost \cup gone
      /\ skbs' = skbs \ {clone[r].skb : r \in cloned}
      /\ clone' = [r \in RingNos |-> BlankRing(clone[r].cnt)]
      /\ UNCHANGED <<ringOf, counts, mring, hwMem>>
  BY DEF CloneFails, Undone
<1>1. MemTypes /\ Owned /\ MemPhase /\ SizesRight
  BY DEF MemIInv
<1>2. block \in Nat \ {0} /\ block \notin blocks
  BY <1>1, FreshIsNew DEF MemTypes
<1> HIDE DEF block
<1>3. clone' \in [RingNos -> Rings]
  BY <1>0, <1>1, ClonesBlank
<1>4. Have = RingNos /\ Have' = RingNos
  BY <1>0 DEF Have
<1>5. /\ lost \subseteq kept /\ \A r \in RingNos : ringOf[r].mem \in kept /\ ringOf[r].mem \notin lost'
      /\ \A b \in kept : b \in lost \/ \E r \in RingNos : b = ringOf[r].mem
      /\ kept \subseteq blocks
  BY <1>0, <1>1, <1>2, <1>4 DEF Owned, MemTypes
<1>6. IsFiniteSet(blocks') /\ blocks' \subseteq Nat \ {0}
  <2>1. IsFiniteSet(blocks \cup {block}) /\ blocks' \subseteq blocks \cup {block}
    BY <1>0, <1>1, FS_AddElement DEF MemTypes
  <2> QED BY <1>1, <1>2, <2>1, FS_Subset DEF MemTypes
<1>7. IsFiniteSet(skbs') /\ skbs' \subseteq Nat \ {0}
  BY <1>0, <1>1, FS_Subset DEF MemTypes
<1>8. MemTypes'
  <2>1. lost' \subseteq blocks'
    BY <1>0, <1>5
  <2> QED BY <1>0, <1>1, <1>3, <1>6, <1>7, <2>1 DEF MemTypes, MemPhases
<1> HIDE DEF kept, gone
<1>9. Owned'
  <2>1. \A r, s \in RingNos : ringOf[r].mem = ringOf[s].mem => r = s
    BY <1>1, <1>4 DEF Owned
  <2>2. \A b \in blocks' : b \in lost' \/ \E r \in RingNos : b = ringOf'[r].mem
    BY <1>0, <1>5
  <2>3. \A r \in RingNos : ringOf'[r].mem \in blocks' \ lost'
    BY <1>0, <1>5
  <2> QED BY <1>0, <1>4, <2>1, <2>2, <2>3 DEF Owned
<1>10. MemPhase'
  BY <1>0, <1>1 DEF MemPhase
<1>11. SizesRight'
  BY <1>0, <1>1 DEF SizesRight
<1> QED BY <1>8, <1>9, <1>10, <1>11 DEF MemIInv

LEMMA SwapKeeps == ASSUME MemIInv, Swap PROVE MemIInv'
<1>0. /\ mpc = "swap" /\ mpc' = "swapped"
      /\ blocks' = blocks \ {ringOf[r].mem : r \in cloned}
      /\ ringOf' = [r \in RingNos |-> IF r \in cloned THEN clone[r] ELSE ringOf[r]]
      /\ counts' = wanted /\ clone' = [r \in RingNos |-> BlankRing(clone[r].cnt)] /\ cloned' = {}
      /\ UNCHANGED <<wanted, mring, skbs, hwMem, lost>>
  BY DEF Swap, OldMemory
<1>1. MemTypes /\ Owned /\ MemPhase /\ SizesRight
  BY DEF MemIInv
<1>2. Have = RingNos /\ Have' = RingNos
  BY <1>0 DEF Have
<1>3. clone' \in [RingNos -> Rings]
  BY <1>0, <1>1, ClonesBlank
<1>4. ringOf' \in [RingNos -> Rings] /\ cloned \subseteq RingNos
  BY <1>0, <1>1 DEF MemTypes
<1>11. ASSUME NEW r \in cloned
       PROVE  r \in RingNos /\ ringOf'[r].mem = clone[r].mem /\ ringOf'[r].cnt = clone[r].cnt
  BY <1>0, <1>4
<1>12. ASSUME NEW r \in RingNos, r \notin cloned
       PROVE  ringOf'[r].mem = ringOf[r].mem /\ ringOf'[r].cnt = ringOf[r].cnt
  BY <1>0, <1>12
<1>5. /\ \A r \in RingNos : ringOf[r].mem \in blocks \ lost
      /\ \A r, s \in RingNos : ringOf[r].mem = ringOf[s].mem => r = s
      /\ \A r \in cloned : clone[r].mem \in blocks \ lost
      /\ \A r, s \in cloned : clone[r].mem = clone[s].mem => r = s
      /\ \A r \in RingNos, s \in cloned : ringOf[r].mem # clone[s].mem
      /\ \A b \in blocks : \/ b \in lost
                           \/ \E r \in RingNos : b = ringOf[r].mem
                           \/ \E s \in cloned : b = clone[s].mem
  <2>1. \A r \in RingNos : ringOf[r].mem \in blocks \ lost
    BY <1>1, <1>2 DEF Owned
  <2>2. \A r, s \in RingNos : ringOf[r].mem = ringOf[s].mem => r = s
    BY <1>1, <1>2 DEF Owned
  <2>3. \A r \in RingNos, s \in cloned : ringOf[r].mem # clone[s].mem
    BY <1>1, <1>2 DEF Owned
  <2>4. \A b \in blocks : \/ b \in lost
                          \/ \E r \in RingNos : b = ringOf[r].mem
                          \/ \E s \in cloned : b = clone[s].mem
    BY <1>1, <1>2 DEF Owned
  <2>5. /\ \A r \in cloned : clone[r].mem \in blocks \ lost
        /\ \A r, s \in cloned : clone[r].mem = clone[s].mem => r = s
    BY <1>1 DEF Owned
  <2> QED BY <2>1, <2>2, <2>3, <2>4, <2>5
<1>6. /\ \A r \in RingNos : ringOf'[r].mem \in blocks' \ lost
      /\ \A r, s \in RingNos : ringOf'[r].mem = ringOf'[s].mem => r = s
      /\ \A b \in blocks' : b \in lost \/ \E r \in RingNos : b = ringOf'[r].mem
  <2>1. ASSUME NEW r \in RingNos PROVE ringOf'[r].mem \in blocks' \ lost
    <3>1. CASE r \in cloned
      <4>1. clone[r].mem \in blocks \ lost /\ \A s \in cloned : ringOf[s].mem # clone[r].mem
        BY <1>11, <1>5, <3>1
      <4>2. ringOf'[r].mem = clone[r].mem
        BY <1>11, <3>1
      <4> QED BY <1>0, <4>1, <4>2
    <3>2. CASE r \notin cloned
      <4>1. ringOf[r].mem \in blocks \ lost /\ \A s \in cloned : ringOf[s].mem # ringOf[r].mem
        BY <1>11, <1>5, <3>2
      <4>2. ringOf'[r].mem = ringOf[r].mem
        BY <1>12, <3>2
      <4> QED BY <1>0, <4>1, <4>2
    <3> QED BY <3>1, <3>2
  <2>2. ASSUME NEW r \in RingNos, NEW s \in RingNos, ringOf'[r].mem = ringOf'[s].mem PROVE r = s
    <3>1. CASE r \in cloned
      <4>0. ringOf'[r].mem = clone[r].mem
        BY <1>11, <1>12, <3>1
      <4>1. CASE s \in cloned
        <5>1. ringOf'[s].mem = clone[s].mem
          BY <1>11, <1>12, <4>1
        <5> QED BY <1>5, <2>2, <3>1, <4>0, <4>1, <5>1
      <4>2. CASE s \notin cloned
        <5>1. ringOf'[s].mem = ringOf[s].mem
          BY <1>11, <1>12, <4>2
        <5> QED BY <1>5, <2>2, <3>1, <4>0, <5>1
      <4> QED BY <4>1, <4>2
    <3>2. CASE r \notin cloned
      <4>1. CASE s \in cloned
        <5>1. ringOf'[s].mem = clone[s].mem /\ ringOf'[r].mem = ringOf[r].mem
          BY <1>11, <1>12, <3>2, <4>1
        <5> QED BY <1>5, <2>2, <4>1, <5>1
      <4>2. CASE s \notin cloned
        <5>1. ringOf'[s].mem = ringOf[s].mem /\ ringOf'[r].mem = ringOf[r].mem
          BY <1>11, <1>12, <3>2, <4>2
        <5> QED BY <1>5, <2>2, <5>1
      <4> QED BY <4>1, <4>2
    <3> QED BY <3>1, <3>2
  <2>3. ASSUME NEW b \in blocks' PROVE b \in lost \/ \E r \in RingNos : b = ringOf'[r].mem
    <3>1. b \in blocks /\ \A r \in cloned : b # ringOf[r].mem
      BY <1>0
    <3>2. CASE \E r \in RingNos : b = ringOf[r].mem
      <4>1. PICK r \in RingNos : b = ringOf[r].mem
        BY <3>2
      <4>2. r \notin cloned
        BY <3>1, <4>1
      <4> QED BY <1>11, <1>12, <4>1, <4>2
    <3>3. CASE \E s \in cloned : b = clone[s].mem
      <4>1. PICK s \in cloned : b = clone[s].mem
        BY <3>3
      <4> QED BY <1>11, <1>12, <4>1
    <3> QED BY <1>5, <3>1, <3>2, <3>3
  <2> QED BY <2>1, <2>2, <2>3
<1>7. MemTypes'
  <2>1. IsFiniteSet(blocks') /\ blocks' \subseteq Nat \ {0} /\ lost' \subseteq blocks'
    <3>1. blocks' \subseteq blocks /\ lost' \subseteq blocks
      BY <1>0, <1>1 DEF MemTypes
    <3>2. \A b \in lost : b \notin {ringOf[r].mem : r \in cloned}
      BY <1>4, <1>5, <1>11
    <3> QED BY <1>0, <1>1, <3>1, <3>2, FS_Subset DEF MemTypes
  <2> QED BY <1>0, <1>1, <1>3, <1>4, <2>1 DEF MemTypes, MemPhases
<1>8. Owned'
  BY <1>0, <1>2, <1>6 DEF Owned
<1>9. MemPhase'
  BY <1>0, <1>1 DEF MemPhase
<1>10. SizesRight'
  <2>1. ASSUME NEW r \in RingNos PROVE ringOf'[r].cnt = wanted[Side(r)]
    <3>1. CASE r \in cloned
      <4>1. clone[r].cnt = wanted[Side(r)]
        BY <1>1, <3>1 DEF SizesRight
      <4> QED BY <1>11, <1>12, <3>1, <4>1
    <3>2. CASE r \notin cloned
      <4>1. wanted[Side(r)] = counts[Side(r)]
        <5>1. Changed \subseteq cloned
          BY <1>0, <1>1 DEF SizesRight
        <5> QED BY <3>2, <5>1 DEF Changed
      <4> QED BY <1>1, <1>11, <1>12, <3>2, <4>1 DEF SizesRight
    <3> QED BY <3>1, <3>2
  <2> QED BY <1>0, <2>1 DEF SizesRight
<1> QED BY <1>7, <1>8, <1>9, <1>10 DEF MemIInv

LEMMA MemStep == ASSUME MemIInv, [RingMemoryNext]_memVars PROVE MemIInv'
<1>1. CASE UNCHANGED memVars
  <2>1. UNCHANGED <<ringOf, clone, cloned, counts, wanted, mpc, mring, blocks, lost, skbs, hwMem>>
    BY <1>1 DEF memVars
  <2>2. MemTypes' /\ MemPhase'
    BY <2>1 DEF MemIInv, MemTypes, MemPhase
  <2>3. Owned'
    BY <2>1 DEF MemIInv, Owned, Have, Rewound
  <2>4. SizesRight'
    BY <2>1 DEF MemIInv, SizesRight, Changed
  <2> QED BY <2>2, <2>3, <2>4 DEF MemIInv
<1>2. ASSUME RingMemoryNext PROVE MemIInv'
  <2>1. ASSUME NEW out \in {"ok", "nomem", "noreg"}, OpenRing(out) PROVE MemIInv'
    BY <2>1, OpenRingKeeps
  <2>2. ASSUME NEW r \in RingNos, TxTraffic(r) \/ RxTraffic(r) PROVE MemIInv'
    BY <2>2, TxTrafficKeeps, RxTrafficKeeps
  <2>3. ASSUME NEW tx \in DescMin - 1 .. DescMax + 1, NEW rx \in DescMin - 1 .. DescMax + 1,
               SetRingparam(tx, rx)
        PROVE  MemIInv'
    BY <2>3, SetRingparamKeeps
  <2>4. ASSUME NEW out \in {"nomem", "noreg"}, CloneFails(out) PROVE MemIInv'
    BY <2>4, CloneFailsKeeps
  <2> QED BY <1>2, <2>1, <2>2, <2>3, <2>4, OpenBeginKeeps, OpenDoneKeeps, OpenFailsKeeps,
             OpenResetKeeps, CloseKeeps, ConfigureKeeps, CloneRingKeeps, SwapDownKeeps, SwapKeeps
          DEF RingMemoryNext
<1> QED BY <1>1, <1>2

LEMMA MemImplied ==
  ASSUME MemIInv PROVE RingMemoryTypeOK /\ MemoryHeld /\ NoRingLeak /\ SizesAgree
<1>0. MemTypes /\ Owned /\ MemPhase /\ SizesRight
  BY DEF MemIInv
<1>1. RingMemoryTypeOK
  <2>1. ASSUME NEW ring \in Rings
        PROVE  ring.mem \in Nat /\ {ring.raw, ring.out} \subseteq BOOLEAN /\ ring.skb \in Nat
                 /\ ring.cnt \in DescMin .. DescMax /\ ring.cnt % DescMultiple = 0
    BY DEF Rings, Sizes
  <2>2. \A ring \in {ringOf[r] : r \in RingNos} \cup {clone[r] : r \in RingNos} : ring \in Rings
    BY <1>0 DEF MemTypes
  <2>3. \A r \in cloned : clone[r].mem # 0
    BY <1>0 DEF MemTypes, Owned
  <2> QED BY <1>0, <2>1, <2>2, <2>3 DEF RingMemoryTypeOK, MemTypes, MemPhases
<1>2. MemoryHeld
  <2> SUFFICES ASSUME mpc # "undone", NEW r \in RingNos, hwMem[r] # 0
               PROVE  /\ hwMem[r] \in blocks /\ hwMem[r] = ringOf[r].mem
                      /\ \A s \in RingNos \ {r} : hwMem[s] # hwMem[r]
    BY DEF MemoryHeld
  <2>1. mpc \in {"irqs", "up", "clone"}
    BY <1>0 DEF MemTypes, MemPhases, MemPhase
  <2>2. Have = RingNos
    BY <2>1 DEF Have
  <2> QED BY <1>0, <2>1, <2>2 DEF MemPhase, Owned
<1>3. NoRingLeak
  <2>1. ASSUME mpc = "up" PROVE blocks = {ringOf[r].mem : r \in RingNos} \cup lost
    <3>1. Have = RingNos /\ cloned = {}
      BY <1>0, <2>1 DEF Have, MemPhase
    <3>2. \A b \in blocks : b \in lost \/ \E r \in RingNos : b = ringOf[r].mem
      BY <1>0, <3>1 DEF Owned
    <3>3. \A r \in RingNos : ringOf[r].mem \in blocks
      BY <1>0, <3>1 DEF Owned
    <3>4. lost \subseteq blocks
      BY <1>0 DEF MemTypes
    <3> QED BY <3>2, <3>3, <3>4
  <2>2. ASSUME mpc = "closed" PROVE blocks = lost
    <3>1. Have = {} /\ cloned = {}
      BY <1>0, <2>2 DEF Have, MemPhase
    <3> QED BY <1>0, <3>1 DEF Owned, MemTypes
  <2> QED BY <2>1, <2>2 DEF NoRingLeak
<1>4. SizesAgree
  BY <1>0 DEF SizesAgree, SizesRight
<1> QED BY <1>1, <1>2, <1>3, <1>4

-----------------------------------------------------------------------------
(* The theorems.                                                           *)

\* What ixgbevf_configure_rx programs fits the buffers, the frames and the settings of
\* ethtool it was computed from, whatever the MTUs tried, the frames the PF lets through
\* and the numbers of queues: no write past a buffer or over its skb_shared_info, no XDP
\* program that sees part of a frame (on the 82599 while the PF lets through no more than
\* the VF asked for, without legacy-rx set underneath the program), an even and packed
\* indirection table, the UDP hash fields of the flags in the register from a change of
\* them up to the next reset and none of them from there on.
THEOREM ReceiveConfigured == RxGeometrySpec /\ RssSpec => []RxConfigured
<1>1. RxGeometrySpec => []GeoIInv
  <2>1. RxGeometryInit(BOOLEAN, PfFrames) => GeoIInv
    BY GeoInit
  <2>2. GeoIInv /\ [RxGeometryNext]_geoVars => GeoIInv'
    BY GeoStep
  <2> QED BY <2>1, <2>2, PTL DEF RxGeometrySpec
<1>2. RssSpec => []RssIInv
  <2>1. RssInit(RssMacs, RssApis, QueueCounts, 1 .. 4) => RssIInv
    BY RssInitHolds
  <2>2. RssIInv /\ [RssNext]_rssVars => RssIInv'
    BY RssStep
  <2> QED BY <2>1, <2>2, PTL DEF RssSpec
<1>3. GeoIInv /\ RssIInv => RxConfigured
  BY GeoImplied, RssImplied DEF RxConfigured
<1> QED BY <1>1, <1>2, <1>3, PTL

\* Queues, vectors, interrupts and ring memory are whole when set up, and gone when torn
\* down, wherever a step of ixgbevf_init_interrupt_scheme, ixgbevf_open or
\* ixgbevf_set_ringparam failed, for every number of processors, queues, rings and
\* resizes, given that the PF lets the VF have neither one transmit queue nor three; but
\* the vectors of a scheme that request_irq refused a handler are lost, all of them, when
\* it is taken down, and no other vectors ever are.
THEOREM SetUpWhole == PfGivesQueues => (QueueSpec /\ RingMemorySpec => []SetupWhole)
<1> SUFFICES ASSUME PfGivesQueues PROVE QueueSpec /\ RingMemorySpec => []SetupWhole
  OBVIOUS
<1>1. QueueSpec => [](QueueIInv /\ StrayInv)
  <2>1. QueueInit(Cpus) => QueueIInv /\ StrayInv
    <3>1. QueueInit(Cpus) => StrayInv
      BY DEF QueueInit, StrayInv
    <3> QED BY <3>1, QueueInitHolds
  <2>2. QueueIInv /\ StrayInv /\ [QueueNext]_queueVars => QueueIInv' /\ StrayInv'
    BY QueueStep, StrayStep
  <2> QED BY <2>1, <2>2, PTL DEF QueueSpec
<1>2. RingMemorySpec => []MemIInv
  <2>1. RingMemoryInit => MemIInv
    BY MemInitHolds
  <2>2. MemIInv /\ [RingMemoryNext]_memVars => MemIInv'
    BY MemStep
  <2> QED BY <2>1, <2>2, PTL DEF RingMemorySpec
<1>3. QueueIInv /\ StrayInv /\ MemIInv => SetupWhole
  BY QueueImplied, MemImplied DEF SetupWhole
<1> QED BY <1>1, <1>2, <1>3, PTL
=============================================================================
