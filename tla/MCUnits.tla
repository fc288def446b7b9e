------------------------------- MODULE MCUnits -------------------------------
(* The units of the driver that share no state with each other within a step of  *)
(* theirs, checked side by side: part says which of them runs, so that their      *)
(* state spaces add up instead of multiplying.                                    *)
EXTENDS Filters, QVector, XdpRing, Stats, Itr, Configuration,
        Packets, SelfTest, XArray

VARIABLE part   \* the unit that runs

MCLimits == {<<1, 3>>}

Parts == {"filters", "vector", "xdp", "counters", "pair", "layout", "itr", "queues", "memory",
          "geometry", "rss", "offload", "selftest", "xarray", "headlen", "findhdr"}

Only(p, some, one) == IF part = p THEN some ELSE one

Init ==
  /\ part \in Parts
  /\ FiltersInit(Only("filters", {0, 12}, {12})) /\ QVectorInit /\ XdpInit
  /\ StatsInit(Only("counters", {0, 3, 7}, {0})) /\ ItrInit(Only("itr", {0, 1}, {1}))
  /\ QueueInit(Only("queues", Cpus, {1})) /\ RingMemoryInit
  /\ RxGeometryInit(Only("geometry", BOOLEAN, {TRUE}), Only("geometry", PfFrames, {1518}))
  /\ RssInit(Only("rss", RssMacs, {"82599"}), Only("rss", RssApis, {11}),
             Only("rss", QueueCounts, {1}), Only("rss", 1 .. 4, {1}))
  /\ OffloadInit
  /\ SelfTestInit(Only("selftest", {f \in Faults : f.bit \in {0, 6}}, {}))
  /\ XaInit(Only("xarray", {"plain", "alloc", "alloc1"}, {"plain"}))
  /\ HeadersInit

allVars == <<part, filterVars, qvVars, xdpVars, statVars, itrVars, queueVars, memVars,
             geoVars, rssVars, offloadVars, selfVars, xaVars, headVars, findVars>>

Next ==
  \/ /\ part = "filters" /\ FiltersNext
     /\ UNCHANGED <<part, qvVars, xdpVars, statVars, itrVars, queueVars, memVars, geoVars,
                    rssVars, offloadVars, selfVars, xaVars, headVars, findVars>>
  \/ /\ part = "vector" /\ QVectorNext
     /\ UNCHANGED <<part, filterVars, xdpVars, statVars, itrVars, queueVars, memVars, geoVars,
                    rssVars, offloadVars, selfVars, xaVars, headVars, findVars>>
  \/ /\ part = "xdp" /\ XdpNext
     /\ UNCHANGED <<part, filterVars, qvVars, statVars, itrVars, queueVars, memVars, geoVars,
                    rssVars, offloadVars, selfVars, xaVars, headVars, findVars>>
  \/ /\ part = "counters" /\ CounterNext
     /\ UNCHANGED <<part, filterVars, qvVars, xdpVars, itrVars, queueVars, memVars, geoVars,
                    rssVars, offloadVars, selfVars, xaVars, headVars, findVars>>
  \/ /\ part = "pair" /\ PairNext
     /\ UNCHANGED <<part, filterVars, qvVars, xdpVars, itrVars, queueVars, memVars, geoVars,
                    rssVars, offloadVars, selfVars, xaVars, headVars, findVars>>
  \/ /\ part = "layout" /\ LayoutNext
     /\ UNCHANGED <<part, filterVars, qvVars, xdpVars, itrVars, queueVars, memVars, geoVars,
                    rssVars, offloadVars, selfVars, xaVars, headVars, findVars>>
  \/ /\ part = "itr" /\ ItrNext
     /\ UNCHANGED <<part, filterVars, qvVars, xdpVars, statVars, queueVars, memVars, geoVars,
                    rssVars, offloadVars, selfVars, xaVars, headVars, findVars>>
  \/ /\ part = "queues" /\ QueueNext
     /\ UNCHANGED <<part, filterVars, qvVars, xdpVars, statVars, itrVars, memVars, geoVars,
                    rssVars, offloadVars, selfVars, xaVars, headVars, findVars>>
  \/ /\ part = "memory" /\ RingMemoryNext
     /\ UNCHANGED <<part, filterVars, qvVars, xdpVars, statVars, itrVars, queueVars, geoVars,
                    rssVars, offloadVars, selfVars, xaVars, headVars, findVars>>
  \/ /\ part = "geometry" /\ RxGeometryNext
     /\ UNCHANGED <<part, filterVars, qvVars, xdpVars, statVars, itrVars, queueVars, memVars,
                    rssVars, offloadVars, selfVars, xaVars, headVars, findVars>>
  \/ /\ part = "rss" /\ RssNext
     /\ UNCHANGED <<part, filterVars, qvVars, xdpVars, statVars, itrVars, queueVars, memVars,
                    geoVars, offloadVars, selfVars, xaVars, headVars, findVars>>
  \/ /\ part = "offload" /\ OffloadNext
     /\ UNCHANGED <<part, filterVars, qvVars, xdpVars, statVars, itrVars, queueVars, memVars,
                    geoVars, rssVars, selfVars, xaVars, headVars, findVars>>
  \/ /\ part = "selftest" /\ SelfTestNext
     /\ UNCHANGED <<part, filterVars, qvVars, xdpVars, statVars, itrVars, queueVars, memVars,
                    geoVars, rssVars, offloadVars, xaVars, headVars, findVars>>
  \/ /\ part = "xarray" /\ XaNext
     /\ UNCHANGED <<part, filterVars, qvVars, xdpVars, statVars, itrVars, queueVars, memVars,
                    geoVars, rssVars, offloadVars, selfVars, headVars, findVars>>
  \/ /\ part = "headlen" /\ EthGetHeadlen
     /\ UNCHANGED <<part, filterVars, qvVars, xdpVars, statVars, itrVars, queueVars, memVars,
                    geoVars, rssVars, offloadVars, selfVars, xaVars, findVars>>
  \/ /\ part = "findhdr" /\ FindNext
     /\ UNCHANGED <<part, filterVars, qvVars, xdpVars, statVars, itrVars, queueVars, memVars,
                    geoVars, rssVars, offloadVars, selfVars, xaVars, headVars>>

\* Of the vector: interrupts are delivered and polls run, what has begun goes on, and the
\* service task comes round; nobody has to busy-poll, or to take the adapter down.
Fairness ==
  /\ WF_qvVars(part = "vector" /\ MsixCleanRings) /\ WF_qvVars(part = "vector" /\ NapiStep)
  /\ WF_qvVars(part = "vector" /\ Strobe) /\ WF_qvVars(part = "vector" /\ AdminStep)
  /\ \A s \in Sockets : WF_qvVars(part = "vector" /\ SocketStep(s))

Spec == Init /\ [][Next]_allVars /\ Fairness
==============================================================================
