---------------------------- MODULE SessionProofs ---------------------------
(* The two drivers agree on the version of the mailbox API they speak,     *)
(* for every kind of device and PF and however often they are disturbed.   *)
EXTENDS Session, TLAPS

\* What keeps ApiAgreed: a PF that is down has forgotten the VF, VF_RESET is sent by an
\* adapter that is stopped, and until a version is negotiated the VF speaks 1.0.
AgreeInv ==
  /\ ~pfUp => ~cts
  /\ ~Hv /\ seq = "vfreset" => stopped
  /\ ~Hv /\ seq \in {"vfreset", "init", "neg"} => api = 10
  /\ ApiAgreed

\* TypeOK, the flags first.
Flags ==
  /\ pfUp \in BOOLEAN /\ pfTcs \in BOOLEAN /\ pfLink \in BOOLEAN /\ cts \in BOOLEAN
  /\ unread \in BOOLEAN /\ rst \in BOOLEAN /\ irq \in BOOLEAN /\ newer \in BOOLEAN
  /\ feats \in BOOLEAN /\ muted \in BOOLEAN /\ stopped \in BOOLEAN /\ getlink \in BOOLEAN
  /\ linkUp \in BOOLEAN /\ linkState \in BOOLEAN /\ carrier \in BOOLEAN /\ down \in BOOLEAN
  /\ resetting \in BOOLEAN /\ resetReq \in BOOLEAN /\ queueReq \in BOOLEAN /\ recent \in BOOLEAN
  /\ sched \in BOOLEAN

\* and the rest: places, versions and counters.
Fields ==
  /\ dev \in Dev /\ pfTop \in Tops
  /\ api \in {17, 16, 15, 13, 12, 11, 10} /\ pfApi \in {17, 16, 15, 13, 12, 11, 10}
  /\ word \in {"cts", "nonack", "plain"}
  /\ queues \in {"one", "rss", "tcs"}
  /\ seq \in {"idle", "down", "reset", "vfreset", "init", "neg", "feat", "after", "queues", "dcb",
              "filters", "linkstate", "up", "end"}
  /\ kind \in {"none", "reinit", "queue", "open"} /\ idx \in 1 .. 7
  /\ svc \in {"idle", "queuelock", "inqueue", "reset", "resetlock", "inreset", "watch", "check",
              "linkread", "linkreadErr", "carrier"}
  /\ events \in 0 .. MaxEvents

\* ixgbevf_negotiate_api's table: the last version it tries is 1.0.
LEMMA VersionTable ==
  /\ DOMAIN Versions = 1 .. 7 /\ Len(Versions) = 7
  /\ {Versions[i] : i \in DOMAIN Versions} = {17, 16, 15, 13, 12, 11, 10}
  /\ \A i \in 1 .. 7 : Versions[i] \in {17, 16, 15, 13, 12, 11, 10}
  /\ \A i \in 1 .. 7 : Versions[i] # 10 => i + 1 \in 1 .. 7
BY DEF Versions

\* The two parts are TypeOK.
LEMMA TypeParts == TypeOK <=> Flags /\ Fields
<1>1. TypeOK => Flags
  BY Zenon DEF TypeOK, Flags
<1>2. TypeOK => Fields
  BY VersionTable DEF TypeOK, Fields
<1>3. Flags /\ Fields => TypeOK
  BY VersionTable DEF TypeOK, Flags, Fields
<1> QED BY <1>1, <1>2, <1>3

\* Every step of the session leaves the flags flags,
LEMMA FlagStep ==
  ASSUME Flags, [Next]_vars PROVE Flags'
<1> USE DEF Flags, pfVars, mbxVars, hwVars, linkVars, bitVars, seqVars, svcVars
<1>1. ASSUME NEW out \in Outcomes, VfReset(out) PROVE Flags'
  <2>1. cts' \in BOOLEAN /\ unread' \in BOOLEAN /\ irq' \in BOOLEAN
    BY Zenon, <1>1 DEF VfReset, Traffic, Goto
  <2> QED BY <1>1, <2>1 DEF VfReset
<1>2. ASSUME NEW out \in Outcomes, NegotiateApi(out) PROVE Flags'
  <2>1. unread' \in BOOLEAN /\ irq' \in BOOLEAN /\ rst' \in BOOLEAN
    BY Zenon, <1>2 DEF NegotiateApi, Request, Traffic
  <2>2. UNCHANGED <<pfUp, pfTcs, pfLink, cts>>
    BY <1>2 DEF NegotiateApi
  <2> QED BY <1>2, <2>1, <2>2 DEF NegotiateApi
<1>3. ASSUME NEW out \in Outcomes, SetFeatures(out) PROVE Flags'
  <2>1. unread' \in BOOLEAN /\ irq' \in BOOLEAN /\ rst' \in BOOLEAN
    BY Zenon, <1>3 DEF SetFeatures, NegotiateFeatures, Request, Traffic
  <2>2. feats' \in BOOLEAN
    <3>1. CASE api = 17
      <4>1. feats' = (out \in {"ok"} \cup Crossed)
        BY <1>3, <3>1 DEF SetFeatures, NegotiateFeatures
      <4>2. CASE out \in {"ok"} \cup Crossed
        BY Zenon, <4>1, <4>2
      <4>3. CASE out \notin {"ok"} \cup Crossed
        BY <4>1, <4>3
      <4> QED BY <4>2, <4>3
    <3>2. CASE api # 17
      BY Zenon, <1>3, <3>2 DEF SetFeatures
    <3> QED BY <3>1, <3>2
  <2>3. newer' \in BOOLEAN /\ muted' \in BOOLEAN
    BY Zenon, <1>3 DEF SetFeatures, Upgrade
  <2> QED BY <1>3, <2>1, <2>2, <2>3 DEF SetFeatures
<1>4. ASSUME NEW out \in Outcomes, SetNumQueues(out) PROVE Flags'
  <2>1. unread' \in BOOLEAN /\ irq' \in BOOLEAN /\ rst' \in BOOLEAN
    BY Zenon, <1>4 DEF SetNumQueues, AskQueues, Request, Traffic
  <2> QED BY <1>4, <2>1 DEF SetNumQueues
<1>5. ASSUME NEW out \in Outcomes, ConfigureDcb(out) PROVE Flags'
  <2>1. unread' \in BOOLEAN /\ irq' \in BOOLEAN /\ rst' \in BOOLEAN /\ muted' \in BOOLEAN /\ queueReq' \in BOOLEAN
    BY Zenon, <1>5 DEF ConfigureDcb, AskQueues, Request, Traffic, Goto
  <2> QED BY <1>5, <2>1 DEF ConfigureDcb
<1>6. ASSUME NEW out \in Outcomes, SendFilters(out) PROVE Flags'
  <2>1. unread' \in BOOLEAN /\ irq' \in BOOLEAN /\ rst' \in BOOLEAN
    BY Zenon, <1>6 DEF SendFilters, Request, Traffic, Goto
  <2> QED BY <1>6, <2>1 DEF SendFilters
<1>7. ASSUME NEW out \in Outcomes, GetLinkState(out) PROVE Flags'
  <2>1. unread' \in BOOLEAN /\ irq' \in BOOLEAN /\ rst' \in BOOLEAN /\ linkState' \in BOOLEAN
    BY Zenon, <1>7 DEF GetLinkState, Request, Traffic
  <2>2. UNCHANGED <<pfVars, hwVars, linkUp, carrier, bitVars, recent, svcVars>>
    BY <1>7 DEF GetLinkState
  <2> QED BY <2>1, <2>2
<1>8. ASSUME NEW out \in Outcomes, CheckLinkAsk(out) PROVE Flags'
  <2>1. getlink' \in BOOLEAN /\ rst' \in BOOLEAN /\ unread' \in BOOLEAN /\ irq' \in BOOLEAN /\ linkUp' \in BOOLEAN /\ resetReq' \in BOOLEAN
    BY Zenon, <1>8 DEF CheckLinkAsk, CheckForRst, Traffic, LinkChecked
  <2> QED BY <1>8, <2>1 DEF CheckLinkAsk
<1>9. ASSUME NEW fails \in BOOLEAN, CheckLinkHv(fails) PROVE Flags'
  <2>1. getlink' \in BOOLEAN /\ linkUp' \in BOOLEAN /\ resetReq' \in BOOLEAN
    BY Zenon, <1>9 DEF CheckLinkHv, HvLinkUnread, LinkChecked
  <2> QED BY <1>9, <2>1 DEF CheckLinkHv
<1>10. ASSUME NEW top \in Tops, NEW tcs \in BOOLEAN, PfBack(top, tcs) PROVE Flags'
  <2>1. pfUp' \in BOOLEAN /\ pfTcs' \in BOOLEAN /\ unread' \in BOOLEAN /\ irq' \in BOOLEAN
    BY Zenon, <1>10 DEF PfBack, Post
  <2> QED BY <1>10, <2>1 DEF PfBack
<1>11. CASE DownCarrier
  <2>1. carrier' \in BOOLEAN
    BY Zenon, <1>11 DEF DownCarrier, Goto
  <2> QED BY <1>11, <2>1 DEF DownCarrier
<1>12. CASE ResetHw
  <2>1. stopped' \in BOOLEAN /\ newer' \in BOOLEAN /\ muted' \in BOOLEAN /\ rst' \in BOOLEAN /\ irq' \in BOOLEAN
    BY Zenon, <1>12 DEF ResetHw, HvResetHw, StopAdapter, InitMbxParams, CheckForRst, Goto
  <2> QED BY <1>12, <2>1 DEF ResetHw
<1>13. CASE InitHw
  <2>1. stopped' \in BOOLEAN
    BY Zenon, <1>13 DEF InitHw, Goto
  <2> QED BY <1>13, <2>1 DEF InitHw
<1>14. CASE AfterReset
  <2>1. recent' \in BOOLEAN
    BY Zenon, <1>14 DEF AfterReset, Goto
  <2> QED BY <1>14, <2>1 DEF AfterReset
<1>15. CASE UpComplete
  <2>1. down' \in BOOLEAN /\ getlink' \in BOOLEAN /\ irq' \in BOOLEAN
    BY Zenon, <1>15 DEF UpComplete, Goto
  <2> QED BY <1>15, <2>1 DEF UpComplete
<1>16. CASE End
  <2>1. resetting' \in BOOLEAN
    BY Zenon, <1>16 DEF End
  <2> QED BY <1>16, <2>1 DEF End
<1>17. CASE QueueReset
  <2>1. sched' \in BOOLEAN /\ queueReq' \in BOOLEAN
    BY Zenon, <1>17 DEF QueueReset
  <2> QED BY <1>17, <2>1 DEF QueueReset
<1>18. CASE QueueResetLocked
  <2>1. down' \in BOOLEAN
    BY Zenon, <1>18 DEF QueueResetLocked
  <2> QED BY <1>18, <2>1 DEF QueueResetLocked
<1>19. CASE ResetSubtask
  <2>1. resetReq' \in BOOLEAN
    BY Zenon, <1>19 DEF ResetSubtask
  <2> QED BY <1>19, <2>1 DEF ResetSubtask
<1>20. CASE ResetLocked
  <2>1. down' \in BOOLEAN /\ resetting' \in BOOLEAN
    BY Zenon, <1>20 DEF ResetLocked, Begin
  <2> QED BY <1>20, <2>1 DEF ResetLocked
<1>21. CASE Watchdog
  BY <1>21 DEF Watchdog
<1>22. CASE CheckLinkQuick
  <2>1. rst' \in BOOLEAN /\ getlink' \in BOOLEAN /\ linkUp' \in BOOLEAN /\ resetReq' \in BOOLEAN
    BY Zenon, <1>22 DEF CheckLinkQuick, CheckForRst, LinkChecked
  <2> QED BY <1>22, <2>1 DEF CheckLinkQuick
<1>23. CASE LinkRead
  <2>1. unread' \in BOOLEAN /\ irq' \in BOOLEAN /\ getlink' \in BOOLEAN /\ linkUp' \in BOOLEAN /\ resetReq' \in BOOLEAN
    BY Zenon, <1>23 DEF LinkRead, LinkChecked
  <2> QED BY <1>23, <2>1 DEF LinkRead
<1>24. CASE SetCarrier
  <2>1. carrier' \in BOOLEAN
    BY Zenon, <1>24 DEF SetCarrier, CarrierDue
  <2> QED BY <1>24, <2>1 DEF SetCarrier
<1>25. CASE UserReinit
  <2>1. down' \in BOOLEAN /\ resetting' \in BOOLEAN
    BY Zenon, <1>25 DEF UserReinit, Begin
  <2> QED BY <1>25, <2>1 DEF UserReinit
<1>26. CASE UserReopen
  <2>1. down' \in BOOLEAN /\ resetting' \in BOOLEAN
    BY Zenon, <1>26 DEF UserReopen, Begin
  <2> QED BY <1>26, <2>1 DEF UserReopen
<1>27. CASE ServiceTimer
  <2>1. sched' \in BOOLEAN
    BY Zenon, <1>27 DEF ServiceTimer
  <2> QED BY <1>27, <2>1 DEF ServiceTimer
<1>28. CASE MiscIrq
  <2>1. irq' \in BOOLEAN /\ getlink' \in BOOLEAN /\ sched' \in BOOLEAN
    BY Zenon, <1>28 DEF MiscIrq
  <2> QED BY <1>28, <2>1 DEF MiscIrq
<1>29. CASE TenSeconds
  <2>1. recent' \in BOOLEAN
    BY Zenon, <1>29 DEF TenSeconds
  <2> QED BY <1>29, <2>1 DEF TenSeconds
<1>30. CASE PfDown
  <2>1. pfUp' \in BOOLEAN /\ cts' \in BOOLEAN /\ rst' \in BOOLEAN /\ unread' \in BOOLEAN /\ irq' \in BOOLEAN
    BY Zenon, <1>30 DEF PfDown, Post
  <2> QED BY <1>30, <2>1 DEF PfDown
<1>31. CASE PfLinkChange
  <2>1. pfLink' \in BOOLEAN /\ irq' \in BOOLEAN /\ unread' \in BOOLEAN
    BY Zenon, <1>31 DEF PfLinkChange, Post
  <2> QED BY <1>31, <2>1 DEF PfLinkChange
<1>32. CASE UNCHANGED vars
  BY <1>32 DEF vars
<1> QED
  BY <1>1, <1>2, <1>3, <1>4, <1>5, <1>6, <1>7, <1>8, <1>9, <1>10, <1>11, <1>12, <1>13, <1>14,
     <1>15, <1>16, <1>17, <1>18, <1>19, <1>20, <1>21, <1>22, <1>23, <1>24, <1>25, <1>26, <1>27, <1>28,
     <1>29, <1>30, <1>31, <1>32
  DEF Next, SeqStep, SvcStep, Pf

\* A fault costs one of the events that are left.
LEMMA EventsLeft ==
  ASSUME events \in 0 .. MaxEvents, NEW out \in Outcomes, NEW clear \in BOOLEAN,
         NEW reply \in {"cts", "plain"}, out \in Faulty /\ pfUp /\ ~Hv => events > 0,
         Traffic(out, clear, reply), word \in {"cts", "nonack", "plain"}
  PROVE  events' \in 0 .. MaxEvents /\ word' \in {"cts", "nonack", "plain"}
BY SessionAssumption DEF Traffic

\* and every place, version and count in its range: no version outside the table is tried.
LEMMA FieldStep ==
  ASSUME Flags, Fields, [Next]_vars PROVE Fields'
<1> USE SessionAssumption DEF Fields, pfVars, mbxVars, hwVars, linkVars, bitVars, seqVars, svcVars
<1>1. ASSUME NEW out \in Outcomes, VfReset(out) PROVE Fields'
  <2>1. cts' \in BOOLEAN
    BY Zenon, <1>1 DEF VfReset, Flags
  <2>2. events' \in 0 .. MaxEvents /\ word' \in {"cts", "nonack", "plain"}
    BY <1>1, <2>1, EventsLeft DEF VfReset, Possible, Faulty
  <2> QED BY <1>1, <2>2 DEF VfReset, Goto
<1>2. ASSUME NEW out \in Outcomes, NegotiateApi(out) PROVE Fields'
  <2>1. \/ events' = events /\ word' = word
        \/ /\ out \in Faulty /\ pfUp /\ ~Hv => events > 0
           /\ Traffic(out, cts, "cts")
    BY <1>2 DEF NegotiateApi, Request, Possible, Faulty
  <2>2. events' \in 0 .. MaxEvents /\ word' \in {"cts", "nonack", "plain"}
    BY <2>1, EventsLeft DEF Flags
  <2>3. api' \in {17, 16, 15, 13, 12, 11, 10} /\ pfApi' \in {17, 16, 15, 13, 12, 11, 10}
    BY <1>2, VersionTable DEF NegotiateApi
  <2>4. idx' \in 1 .. 7 /\ seq' \in {"feat", "neg"}
    BY <1>2, VersionTable DEF NegotiateApi, HvNegotiated, TriedAll
  <2> QED BY <1>2, <2>2, <2>3, <2>4 DEF NegotiateApi
<1>3. ASSUME NEW out \in Outcomes, SetFeatures(out) PROVE Fields'
  <2>1. \/ events' = events /\ word' = word
        \/ /\ out \in Faulty /\ pfUp /\ ~Hv => events > 0
           /\ Traffic(out, cts, "cts")
    BY <1>3 DEF SetFeatures, NegotiateFeatures, Upgrade, Request, Goto, Possible, Faulty
  <2>2. events' \in 0 .. MaxEvents /\ word' \in {"cts", "nonack", "plain"}
    BY <2>1, EventsLeft DEF Flags
  <2> QED BY <1>3, <2>2 DEF SetFeatures, NegotiateFeatures, Upgrade, Request, Goto
<1>4. ASSUME NEW out \in Outcomes, SetNumQueues(out) PROVE Fields'
  <2>1. \/ events' = events /\ word' = word
        \/ /\ out \in Faulty /\ pfUp /\ ~Hv => events > 0
           /\ Traffic(out, cts, "cts")
    BY <1>4 DEF SetNumQueues, AskQueues, Request, Possible, Faulty
  <2>2. events' \in 0 .. MaxEvents /\ word' \in {"cts", "nonack", "plain"}
    BY <2>1, EventsLeft DEF Flags
  <2> QED BY <1>4, <2>2 DEF SetNumQueues, AskQueues, Request
<1>5. ASSUME NEW out \in Outcomes, ConfigureDcb(out) PROVE Fields'
  <2>1. \/ events' = events /\ word' = word
        \/ /\ out \in Faulty /\ pfUp /\ ~Hv => events > 0
           /\ Traffic(out, cts, "cts")
    BY <1>5 DEF ConfigureDcb, AskQueues, Request, Goto, Possible, Faulty
  <2>2. events' \in 0 .. MaxEvents /\ word' \in {"cts", "nonack", "plain"}
    BY <2>1, EventsLeft DEF Flags
  <2> QED BY <1>5, <2>2 DEF ConfigureDcb, AskQueues, Request, Goto
<1>6. ASSUME NEW out \in Outcomes, SendFilters(out) PROVE Fields'
  <2>1. \/ events' = events /\ word' = word
        \/ /\ out \in Faulty /\ pfUp /\ ~Hv => events > 0
           /\ Traffic(out, cts, "cts")
    BY <1>6 DEF SendFilters, Request, Goto, Possible, Faulty
  <2>2. events' \in 0 .. MaxEvents /\ word' \in {"cts", "nonack", "plain"}
    BY <2>1, EventsLeft DEF Flags
  <2> QED BY <1>6, <2>2 DEF SendFilters, Request, Goto
<1>7. ASSUME NEW out \in Outcomes, GetLinkState(out) PROVE Fields'
  <2>1. \/ events' = events /\ word' = word
        \/ /\ out \in Faulty /\ pfUp /\ ~Hv => events > 0
           /\ Traffic(out, cts, "cts")
    BY <1>7 DEF GetLinkState, Request, Goto, Possible, Faulty
  <2>2. events' \in 0 .. MaxEvents /\ word' \in {"cts", "nonack", "plain"}
    BY <2>1, EventsLeft DEF Flags
  <2> QED BY <1>7, <2>2 DEF GetLinkState, Request, Goto
<1>8. ASSUME NEW out \in Outcomes, CheckLinkAsk(out) PROVE Fields'
  <2>1. \/ events' = events /\ word' = word
        \/ /\ out \in Faulty /\ pfUp /\ ~Hv => events > 0
           /\ Traffic(out, cts, "cts")
    BY <1>8 DEF CheckLinkAsk, CheckForRst, LinkChecked, Possible, Faulty
  <2>2. events' \in 0 .. MaxEvents /\ word' \in {"cts", "nonack", "plain"}
    BY <2>1, EventsLeft DEF Flags
  <2> QED BY <1>8, <2>2 DEF CheckLinkAsk, CheckForRst, LinkChecked
<1>9. ASSUME NEW fails \in BOOLEAN, CheckLinkHv(fails) PROVE Fields'
  BY <1>9 DEF CheckLinkHv, HvLinkUnread, LinkChecked
<1>10. ASSUME NEW top \in Tops, NEW tcs \in BOOLEAN, PfBack(top, tcs) PROVE Fields'
  BY <1>10 DEF PfBack, Post
<1>11. CASE DownCarrier
  BY <1>11 DEF DownCarrier, Goto
<1>12. CASE ResetHw
  BY <1>12 DEF ResetHw, HvResetHw, StopAdapter, InitMbxParams, CheckForRst, Goto
<1>13. CASE InitHw
  BY <1>13 DEF InitHw, Goto
<1>14. CASE AfterReset
  BY <1>14 DEF AfterReset, Goto
<1>15. CASE UpComplete
  BY <1>15 DEF UpComplete, Goto
<1>16. CASE End
  BY <1>16 DEF End
<1>17. CASE QueueReset
  BY <1>17 DEF QueueReset
<1>18. CASE QueueResetLocked
  BY <1>18 DEF QueueResetLocked
<1>19. CASE ResetSubtask
  BY <1>19 DEF ResetSubtask
<1>20. CASE ResetLocked
  BY <1>20 DEF ResetLocked, Begin
<1>21. CASE Watchdog
  BY <1>21 DEF Watchdog
<1>22. CASE CheckLinkQuick
  BY <1>22 DEF CheckLinkQuick, CheckForRst, LinkChecked
<1>23. CASE LinkRead
  BY <1>23 DEF LinkRead, LinkChecked
<1>24. CASE SetCarrier
  BY <1>24 DEF SetCarrier, CarrierDue
<1>25. CASE UserReinit
  BY <1>25 DEF UserReinit, Begin
<1>26. CASE UserReopen
  BY <1>26 DEF UserReopen, Begin
<1>27. CASE ServiceTimer
  BY <1>27 DEF ServiceTimer
<1>28. CASE MiscIrq
  BY <1>28 DEF MiscIrq
<1>29. CASE TenSeconds
  BY <1>29 DEF TenSeconds
<1>30. CASE PfDown
  BY <1>30 DEF PfDown, Post
<1>31. CASE PfLinkChange
  BY <1>31 DEF PfLinkChange, Post
<1>32. CASE UNCHANGED vars
  BY <1>32 DEF vars
<1> QED
  BY <1>1, <1>2, <1>3, <1>4, <1>5, <1>6, <1>7, <1>8, <1>9, <1>10, <1>11, <1>12, <1>13, <1>14,
     <1>15, <1>16, <1>17, <1>18, <1>19, <1>20, <1>21, <1>22, <1>23, <1>24, <1>25, <1>26, <1>27, <1>28,
     <1>29, <1>30, <1>31, <1>32
  DEF Next, SeqStep, SvcStep, Pf

\* Every step keeps the agreement.
LEMMA AgreeStep ==
  ASSUME AgreeInv, [Next]_vars PROVE AgreeInv'
<1> USE DEF AgreeInv, ApiAgreed, Hv, pfVars, mbxVars, hwVars, linkVars, bitVars, seqVars, svcVars
<1>1. ASSUME NEW out \in Outcomes, VfReset(out) PROVE AgreeInv'
  <2>1. UNCHANGED <<dev, pfUp, stopped, api>> /\ seq' \in {"init", "after"}
    BY <1>1 DEF VfReset, Goto, hwVars
  <2>2. ~pfUp => ~cts'
    BY <1>1 DEF VfReset, Possible, Served, AgreeInv
  <2> QED BY <1>1, <2>1, <2>2 DEF VfReset
<1>2. ASSUME NEW out \in Outcomes, NegotiateApi(out) PROVE AgreeInv'
  <2>1. CASE Hv
    BY <1>2, <2>1 DEF NegotiateApi, pfVars
  <2>2. CASE ~Hv
    <3>1. pfApi' = (IF out \in Served THEN Versions[idx] ELSE pfApi) /\ UNCHANGED <<dev, pfUp, cts, stopped>>
      BY <1>2, <2>2 DEF NegotiateApi
    <3>2. api = 10 /\ api' = (IF out = "ok" THEN Versions[idx] ELSE api) /\ seq' \in {"feat", "neg"}
      BY <1>2, <2>2 DEF NegotiateApi, Negotiated, AgreeInv
    <3>3. (out # "ok" /\ seq' = "neg") \/ seq' = "feat"
      BY <1>2, <2>2 DEF NegotiateApi, Negotiated
    <3> QED BY <2>2, <3>1, <3>2, <3>3 DEF Served
  <2> QED BY <2>1, <2>2
<1>3. ASSUME NEW out \in Outcomes, SetFeatures(out) PROVE AgreeInv'
  BY <1>3 DEF SetFeatures, NegotiateFeatures, Upgrade, Request, Traffic, Goto
<1>4. ASSUME NEW out \in Outcomes, SetNumQueues(out) PROVE AgreeInv'
  BY <1>4 DEF SetNumQueues, AskQueues, Request, Traffic
<1>5. ASSUME NEW out \in Outcomes, ConfigureDcb(out) PROVE AgreeInv'
  BY <1>5 DEF ConfigureDcb, AskQueues, Request, Traffic, Goto
<1>6. ASSUME NEW out \in Outcomes, SendFilters(out) PROVE AgreeInv'
  BY <1>6 DEF SendFilters, Request, Traffic, Goto
<1>7. ASSUME NEW out \in Outcomes, GetLinkState(out) PROVE AgreeInv'
  BY <1>7 DEF GetLinkState, Request, Traffic, Goto
<1>8. ASSUME NEW out \in Outcomes, CheckLinkAsk(out) PROVE AgreeInv'
  BY <1>8 DEF CheckLinkAsk, CheckForRst, Traffic, LinkChecked
<1>9. ASSUME NEW fails \in BOOLEAN, CheckLinkHv(fails) PROVE AgreeInv'
  BY <1>9 DEF CheckLinkHv, HvLinkUnread, LinkChecked
<1>10. ASSUME NEW top \in Tops, NEW tcs \in BOOLEAN, PfBack(top, tcs) PROVE AgreeInv'
  BY <1>10 DEF PfBack, Post
<1>11. CASE DownCarrier
  BY <1>11 DEF DownCarrier, Goto
<1>12. CASE ResetHw
  BY <1>12 DEF ResetHw, HvResetHw, StopAdapter, InitMbxParams, CheckForRst, Goto
<1>13. CASE InitHw
  BY <1>13 DEF InitHw, Goto
<1>14. CASE AfterReset
  BY <1>14 DEF AfterReset, Goto
<1>15. CASE UpComplete
  BY <1>15 DEF UpComplete, Goto
<1>16. CASE End
  BY <1>16 DEF End
<1>17. CASE QueueReset
  BY <1>17 DEF QueueReset
<1>18. CASE QueueResetLocked
  BY <1>18 DEF QueueResetLocked
<1>19. CASE ResetSubtask
  BY <1>19 DEF ResetSubtask
<1>20. CASE ResetLocked
  BY <1>20 DEF ResetLocked, Begin
<1>21. CASE Watchdog
  BY <1>21 DEF Watchdog
<1>22. CASE CheckLinkQuick
  BY <1>22 DEF CheckLinkQuick, CheckForRst, LinkChecked
<1>23. CASE LinkRead
  BY <1>23 DEF LinkRead, LinkChecked
<1>24. CASE SetCarrier
  BY <1>24 DEF SetCarrier, CarrierDue
<1>25. CASE UserReinit
  BY <1>25 DEF UserReinit, Begin
<1>26. CASE UserReopen
  BY <1>26 DEF UserReopen, Begin
<1>27. CASE ServiceTimer
  BY <1>27 DEF ServiceTimer
<1>28. CASE MiscIrq
  BY <1>28 DEF MiscIrq
<1>29. CASE TenSeconds
  BY <1>29 DEF TenSeconds
<1>30. CASE PfDown
  BY <1>30 DEF PfDown, Post
<1>31. CASE PfLinkChange
  BY <1>31 DEF PfLinkChange, Post
<1>32. CASE UNCHANGED vars
  BY <1>32 DEF vars
<1> QED
  BY <1>1, <1>2, <1>3, <1>4, <1>5, <1>6, <1>7, <1>8, <1>9, <1>10, <1>11, <1>12, <1>13, <1>14,
     <1>15, <1>16, <1>17, <1>18, <1>19, <1>20, <1>21, <1>22, <1>23, <1>24, <1>25, <1>26, <1>27, <1>28,
     <1>29, <1>30, <1>31, <1>32
  DEF Next, SeqStep, SvcStep, Pf

\* An interface that is up has just agreed with its PF.
LEMMA FirstAgreed == Init => Flags /\ Fields /\ AgreeInv
<1> SUFFICES ASSUME Init PROVE Flags /\ Fields /\ AgreeInv
  OBVIOUS
<1>1. cts \in BOOLEAN /\ feats \in BOOLEAN
  BY Zenon DEF Init
<1>2. newer \in BOOLEAN
  BY <1>1 DEF Init
<1>3. Flags
  BY <1>1, <1>2 DEF Init, Flags
<1>4. Fields
  BY SessionAssumption, VersionTable DEF Init, Fields
<1>5. AgreeInv
  BY DEF Init, AgreeInv, ApiAgreed, Hv
<1> QED BY <1>3, <1>4, <1>5

\* The two drivers never act on different ideas of the version they speak: replies lost,
\* or crossed by a control message, in any turn of ixgbevf_negotiate_api, a PF that
\* restarts in the middle of it as another version, resets cut short.
THEOREM VersionsAgree == Spec => []SessionInv
<1>1. Flags /\ Fields /\ AgreeInv /\ [Next]_vars => (Flags /\ Fields /\ AgreeInv)'
  BY FlagStep, FieldStep, AgreeStep
<1>2. Flags /\ Fields /\ AgreeInv => SessionInv
  BY TypeParts DEF SessionInv, AgreeInv
<1> QED BY FirstAgreed, <1>1, <1>2, PTL DEF Spec
=============================================================================
