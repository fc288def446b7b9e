--------------------------------- MODULE Itr --------------------------------
(***************************************************************************)
(* Interrupt throttling of a vector with receive and transmit rings.  In   *)
(* dynamic mode (rx_itr_setting 1) the poll computes the rate from what it *)
(* has moved since the last interrupt; ethtool sets mode and rate while    *)
(* polls go on.  Rates are in the units of EITR: microseconds times four.  *)
(***************************************************************************)
EXTENDS Integers, FiniteSets

CONSTANTS
  Usecs,          \* settings that ethtool tries, in microseconds
  Loads,          \* bytes per microsecond that traffic may come to
  MaxSettings     \* bound on settings

ASSUME ItrAssumption ==
  /\ Usecs \subseteq Nat /\ Loads \subseteq Nat /\ MaxSettings \in Nat

\* IXGBE_100K_ITR, IXGBE_20K_ITR, IXGBE_12K_ITR by latency class; IXGBE_MAX_EITR
ItrOf == [l \in 0 .. 2 |-> IF l = 0 THEN 40 ELSE IF l = 1 THEN 200 ELSE 336]
MaxEitr == 4088

VARIABLES
  rxSetting,      \* adapter->rx_itr_setting
  qitr, eitr,     \* q_vector->itr, and the register
  latency,        \* latency class of "rx" and of "tx"
  moved,          \* which of them have had packets since the rate was computed last
  itrPoll,        \* the poll: "idle", or "set" (the mode was 1)
  ethtool,        \* set_coalesce: "idle", or "vectors" (the mode is set, the rates not)
  crossed,        \* a poll had tested the mode when the last setting came, or tested it before
                  \* the vectors had their rate
  settingsLeft

itrVars == <<rxSetting, qitr, eitr, latency, moved, itrPoll, ethtool, crossed, settingsLeft>>

\* ixgbevf_write_eitr: the low bits are not there
WriteEitr(itr) == ((itr % 4096) \div 8) * 8

\* ixgbevf_configure_msix after ixgbevf_sw_init, which sets 1, or after a setting of ethtool
ItrInit(settings) ==
  /\ rxSetting \in settings
  /\ qitr = (IF rxSetting = 1 THEN ItrOf[1] ELSE rxSetting) /\ eitr = WriteEitr(qitr)
  /\ latency = [c \in {"rx", "tx"} |-> 0] /\ moved = {}
  /\ itrPoll = "idle" /\ ethtool = "idle" /\ crossed = FALSE
  /\ settingsLeft = MaxSettings

-----------------------------------------------------------------------------
(* The poll.                                                               *)

\* ixgbevf_poll has moved packets, completes and looks at the mode; the counts of bytes and
\* packets only ever grow until ixgbevf_update_itr clears them
PollDone(cs) ==
  /\ itrPoll = "idle"
  /\ moved' = moved \cup cs
  /\ itrPoll' = IF rxSetting = 1 THEN "set" ELSE "idle"
  /\ crossed' = (crossed \/ (rxSetting = 1 /\ ethtool = "vectors"))
  /\ UNCHANGED <<rxSetting, qitr, eitr, latency, ethtool, settingsLeft>>

\* what was last interrupt timeslice?
TimePassed == qitr \div 4

\* the class a load leads to: "simple throttlerate management"
Class(l, perint) ==
  IF l = 0 THEN IF perint > 10 THEN 1 ELSE 0
  ELSE IF l = 1 THEN IF perint > 20 THEN 2 ELSE IF perint <= 10 THEN 0 ELSE 1
  ELSE IF perint <= 20 THEN 1 ELSE 2

\* ixgbevf_update_itr: the class of a container with that many bytes per microsecond
UpdateItr(c, perint) == IF c \in moved THEN Class(latency[c], perint) ELSE latency[c]

\* Mutant: the shares come to nine tenths.
SmoothedNine(new) == (9 * new * qitr) \div (9 * new + qitr)

\* "do an exponential smoothing"
Smoothed(new) == (10 * new * qitr) \div (9 * new + qitr)

\* The larger class decides: ixgbevf_set_itr.
Target(lat) == ItrOf[IF lat["rx"] > lat["tx"] THEN lat["rx"] ELSE lat["tx"]]

\* ixgbevf_set_itr; a division by zero stops it
SetItr(rx, tx) ==
  /\ itrPoll = "set" /\ (moved # {} => TimePassed > 0)
  /\ latency' = [c \in {"rx", "tx"} |-> UpdateItr(c, IF c = "rx" THEN rx ELSE tx)]
  /\ moved' = {}
  /\ LET new == Target(latency')
     IN  IF new = qitr THEN UNCHANGED <<qitr, eitr>>
                       ELSE qitr' = Smoothed(new) /\ eitr' = WriteEitr(Smoothed(new))
  /\ itrPoll' = "idle"
  /\ UNCHANGED <<rxSetting, ethtool, crossed, settingsLeft>>

-----------------------------------------------------------------------------
(* ethtool.                                                                *)

\* "ensures that the coalescing settings are within acceptable limits"
Fits(usecs) == usecs <= MaxEitr \div 4

\* 0 and 1 are modes, everything else is a time
Setting(usecs) == IF usecs > 1 THEN usecs * 4 ELSE usecs

\* ixgbevf_set_coalesce as far as the mode; with mixed vectors only the receive side
SetCoalesce(usecs) ==
  /\ ethtool = "idle" /\ settingsLeft > 0
  /\ Fits(usecs)
  /\ settingsLeft' = settingsLeft - 1
  /\ rxSetting' = Setting(usecs) /\ ethtool' = "vectors"
  /\ crossed' = (itrPoll = "set")
  /\ UNCHANGED <<qitr, eitr, latency, moved, itrPoll>>

\* the rate a vector starts with
Param == IF rxSetting = 1 THEN ItrOf[1] ELSE rxSetting

\* ... and its loop over the vectors
SetCoalesceVectors ==
  /\ ethtool = "vectors"
  /\ qitr' = Param /\ eitr' = WriteEitr(Param) /\ ethtool' = "idle"
  /\ UNCHANGED <<rxSetting, latency, moved, itrPoll, crossed, settingsLeft>>

\* what ixgbevf_get_coalesce reports
GetCoalesce == IF rxSetting <= 1 THEN rxSetting ELSE rxSetting \div 4

-----------------------------------------------------------------------------
ItrNext ==
  \/ \E cs \in SUBSET {"rx", "tx"} : PollDone(cs)
  \/ \E rx, tx \in Loads : SetItr(rx, tx)
  \/ \E u \in Usecs : SetCoalesce(u)
  \/ SetCoalesceVectors

\* the modes that ixgbevf_sw_init and ethtool leave behind
Settings == {1} \cup {Setting(u) : u \in {v \in Usecs : Fits(v)}}

ItrSpec == ItrInit(Settings) /\ [][ItrNext]_itrVars

(* Properties.                                                             *)

\* Type invariant of the throttling; the smoothing stays within a u16 and the register
\* within its twelve bits.
ItrTypeOK ==
  /\ rxSetting \in {0, 1} \cup 8 .. MaxEitr /\ qitr \in 0 .. MaxEitr /\ eitr \in 0 .. MaxEitr
  /\ latency \in [{"rx", "tx"} -> 0 .. 2] /\ moved \subseteq {"rx", "tx"}
  /\ itrPoll \in {"idle", "set"} /\ ethtool \in {"idle", "vectors"}
  /\ crossed \in BOOLEAN

\* ixgbevf_update_itr divides by the last timeslice: it must not be called with a rate
\* that comes to none, such as the one of mode 0.  (Nothing keeps a setting of 0 from coming
\* between the test of the mode and the division, or dynamic mode from being seen before the
\* vectors' rate: then it is zero.)
SliceNotZero == itrPoll = "set" /\ ~crossed /\ moved # {} => TimePassed > 0

\* In dynamic mode a step of the smoothing lands between the old rate and the new one, and
\* does not stand still before it is within a twentieth of it: the rate follows the traffic.
RateFollows ==
  itrPoll = "set" /\ ~crossed =>
    \A class \in 0 .. 2 :
      LET new == ItrOf[class]
          step == Smoothed(new)
      IN  /\ qitr < new => qitr <= step /\ step <= new
          /\ qitr > new => new <= step + 1 /\ step <= qitr
          /\ 20 * (IF qitr > new THEN qitr - new ELSE new - qitr) > new => step # qitr

\* A setting is in force once ethtool returns, and until the next one outside dynamic mode:
\* the register throttles by what was asked, to the granularity of eight units; unless a
\* poll that had found dynamic mode came last.
SettingHolds ==
  ethtool = "idle" /\ rxSetting # 1 /\ ~crossed =>
    /\ qitr = rxSetting /\ qitr - eitr \in 0 .. 7
    /\ GetCoalesce = rxSetting \div 4

\* A vector throttles by the setting, or follows the traffic, and never divides by zero.
ItrInv == ItrTypeOK /\ SliceNotZero /\ SettingHolds /\ RateFollows
=============================================================================
