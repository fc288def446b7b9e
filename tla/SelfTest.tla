------------------------------- MODULE SelfTest -----------------------------
(***************************************************************************)
(* ethtool's offline register test, with registers that may have a stuck   *)
(* bit and a device that may vanish at any access, the dump of registers,  *)
(* and the link speed from VFLINKS to what ethtool and the log say.  The   *)
(* registers are external.                                                 *)
(***************************************************************************)
EXTENDS Integers, Sequences, FiniteSets

CONSTANTS
  TestQueues,  \* elements of a register array that the test looks at (2)
  LinkMacs,    \* kinds of device the link is read on
  MaxTests     \* bound on tests

ASSUME SelfTestAssumption ==
  /\ TestQueues \in Nat \ {0} /\ MaxTests \in Nat
  /\ LinkMacs \subseteq {"82599", "x550", "x550em"}

\* A register is the set of its bits that are one.  Two bits each, an even and an odd one,
\* stand for the bits 0 to 6, 7 to 15, 16 to 19, and 20 to 31.
Bits == 0 .. 7
LowBits == {0, 1}
Mid == {2, 3}
Top == {4, 5}
Odd == {1, 3, 5, 7}

\* 0x5A5A5A5A, 0xA5A5A5A5, 0x00000000, 0xFFFFFFFF
Patterns == <<Odd, Bits \ Odd, {}, Bits>>

\* reg_test_vf: name, whether it is tested or only written, mask, write
RegTests == <<
  [reg |-> "rdbal", test |-> TRUE, mask |-> Bits \ LowBits, write |-> Bits \ LowBits],
  [reg |-> "rdbah", test |-> TRUE, mask |-> Bits, write |-> Bits],
  [reg |-> "rdlen", test |-> TRUE, mask |-> Mid \cup Top, write |-> LowBits \cup Mid \cup Top],
  [reg |-> "rxdctl", test |-> FALSE, mask |-> {}, write |-> {4}],
  [reg |-> "rdt", test |-> TRUE, mask |-> LowBits \cup Mid, write |-> LowBits \cup Mid],
  [reg |-> "rxdctl", test |-> FALSE, mask |-> {}, write |-> {}],
  [reg |-> "tdbal", test |-> TRUE, mask |-> Bits \ LowBits, write |-> Bits],
  [reg |-> "tdbah", test |-> TRUE, mask |-> Bits, write |-> Bits],
  [reg |-> "tdlen", test |-> TRUE, mask |-> Mid \cup Top, write |-> Mid \cup Top] >>

Tested == {RegTests[i].reg : i \in DOMAIN RegTests}
Registers == Tested \X (1 .. TestQueues)

\* the bits a register really has
Wired(r) ==
  IF r \in {"rdbal", "tdbal"} THEN Bits \ LowBits
  ELSE IF r \in {"rdlen", "tdlen"} THEN Mid \cup Top
  ELSE IF r = "rdt" THEN LowBits \cup Mid ELSE Bits

VARIABLES
  regs, stuck,          \* contents; {} or {[reg, bit, at]}
  gone, noticed,        \* the device has vanished; hw_addr is NULL
  tpc, ti, ri, pat,     \* place; test, element and pattern it is at
  saved, regsAt,        \* before; contents when the test began
  regResult,            \* data[0]: "none", "pass", "fail"
  testsLeft,
  dump,                 \* what ixgbevf_get_regs has written
  linkIn, linkOut       \* a link, and what is said of it

selfVars == <<regs, stuck, gone, noticed, tpc, ti, ri, pat, saved, regsAt, regResult, testsLeft,
              dump, linkIn, linkOut>>
testVars == <<tpc, ti, ri, pat, saved, regsAt, regResult>>
linkReport == <<linkIn, linkOut>>

SelfTestInit(faults) ==
  /\ regs = [r \in Registers |-> IF r[1] \in {"rdt", "rxdctl"} THEN {} ELSE Wired(r[1]) \cap Odd]
  /\ stuck \in {{}} \cup {{f} : f \in faults}
  /\ gone = FALSE /\ noticed = FALSE
  /\ tpc = "idle" /\ ti = 1 /\ ri = 1 /\ pat = 1 /\ saved = {} /\ regsAt = regs
  /\ regResult = "none" /\ testsLeft = MaxTests
  /\ dump = {} /\ linkIn = <<>> /\ linkOut = "none"

Faults == [reg : Registers, bit : Bits, at : BOOLEAN]

-----------------------------------------------------------------------------
(* Registers.                                                              *)

\* IXGBE_READ_REG: all ones from a device that is gone, which is then noticed
Broken(r) == {f \in stuck : f.reg = r}
Read(r) ==
  IF gone THEN Bits
  ELSE (regs[r] \ {f.bit : f \in {g \in Broken(r) : ~g.at}}) \cup
       {f.bit : f \in {g \in Broken(r) : g.at}}

\* the tail can be written only while the queue is enabled
Writable(r) == ~gone /\ (r[1] = "rdt" => 4 \in regs[<<"rxdctl", r[2]>>])
Stored(r, value) == IF Writable(r) THEN [regs EXCEPT ![r] = value \cap Wired(r[1])] ELSE regs

Vanish ==
  /\ ~gone /\ gone' = TRUE /\ dump = {} /\ linkOut = "none"
  /\ UNCHANGED <<regs, stuck, noticed, testVars, testsLeft, dump, linkReport>>

-----------------------------------------------------------------------------
(* ixgbevf_diag_test, offline: ixgbevf_reg_test.                           *)

Test == RegTests[ti]
Reg == <<Test.reg, ri>>

\* The adapter is closed or reset before; a device known to be gone fails at once.  A test,
\* a dump and a look at the link are taken one per behaviour.
DiagTest ==
  /\ tpc \in {"idle", "done"} /\ dump = {} /\ linkOut = "none"
  /\ testsLeft > 0 /\ testsLeft' = testsLeft - 1
  /\ tpc' = IF noticed THEN "tested" ELSE "reg"
  /\ regResult' = IF noticed THEN "fail" ELSE "none"
  /\ ti' = 1 /\ ri' = 1 /\ pat' = 1 /\ saved' = {} /\ regsAt' = regs
  /\ UNCHANGED <<regs, stuck, gone, noticed, dump, linkReport>>

\* the next element, the next test, or the null entry
Advance ==
  LET last == ri = TestQueues /\ ti = Len(RegTests)
  IN  /\ pat' = 1
      /\ ri' = (ri % TestQueues) + 1
      /\ ti' = IF ri = TestQueues /\ ~last THEN ti + 1 ELSE ti
      /\ tpc' = IF last THEN "tested" ELSE "reg"
      /\ regResult' = IF last THEN "pass" ELSE regResult

\* WRITE_NO_TEST
WriteNoTest ==
  /\ tpc = "reg" /\ ~Test.test
  /\ regs' = Stored(Reg, Test.write)
  /\ Advance
  /\ UNCHANGED <<stuck, gone, noticed, saved, regsAt, testsLeft, dump, linkReport>>

\* Mutant: the register is given back only after a failure.
GivenBackFailed(r, failed) == IF failed THEN Stored(r, saved) ELSE regs

\* IXGBE_WRITE_REG(hw, r, before), either way
GivenBack(r, failed) == Stored(r, saved)

\* reg_pattern_test: the value is kept and the pattern written ...
PatternWrite ==
  /\ tpc = "reg" /\ Test.test
  /\ IF pat = 1 /\ noticed
       THEN /\ regResult' = "fail" /\ tpc' = "tested"
            /\ UNCHANGED <<regs, noticed, saved>>
       ELSE /\ saved' = Read(Reg) /\ noticed' = (noticed \/ gone)
            /\ regs' = Stored(Reg, Patterns[pat] \cap Test.write)
            /\ tpc' = "read" /\ UNCHANGED regResult
  /\ UNCHANGED <<stuck, gone, ti, ri, pat, regsAt, testsLeft, dump, linkReport>>

\* val != (_test[pat] & w & m)
Matches(val) == val = Patterns[pat] \cap Test.write \cap Test.mask

\* ... read back and compared, and the register given back
PatternRead ==
  /\ tpc = "read"
  /\ LET ok == Matches(Read(Reg))
     IN  /\ noticed' = (noticed \/ gone)
         /\ regs' = GivenBack(Reg, ~ok)
         /\ IF ~ok THEN tpc' = "tested" /\ regResult' = "fail" /\ UNCHANGED <<ti, ri, pat>>
            ELSE IF pat < Len(Patterns)
                   THEN pat' = pat + 1 /\ tpc' = "reg" /\ UNCHANGED <<ti, ri, regResult>>
                   ELSE Advance
  /\ UNCHANGED <<stuck, gone, saved, regsAt, testsLeft, dump, linkReport>>

\* ixgbe_virt_clr_reg
Cleared == {"rdt", "rxdctl"}

\* ixgbevf_reset after the test
TestReset ==
  /\ tpc = "tested"
  /\ regs' = IF gone THEN regs ELSE [r \in Registers |-> IF r[1] \in Cleared THEN {} ELSE regs[r]]
  /\ noticed' = (noticed \/ gone)
  /\ tpc' = "done"
  /\ UNCHANGED <<stuck, gone, ti, ri, pat, saved, regsAt, regResult, testsLeft, dump, linkReport>>

-----------------------------------------------------------------------------
(* ixgbevf_get_regs.                                                       *)

\* first word of each group of Receive DMA, Receive and Transmit
DumpAt == <<14, 16, 18, 20, 22, 24, 26, 28, 29, 31, 33, 35, 37, 39, 41, 43>>
DumpNames == <<"rdbal", "rdbah", "rdlen", "rdh", "rdt", "rxdctl", "srrctl", "psrtype", "tdbal",
               "tdbah", "tdlen", "tdh", "tdt", "txdctl", "tdwbal", "tdwbah">>
DumpHead == <<"ctrl", "status", "links", "rxmemwrap", "frtimer", "eics", "eics", "eims", "eimc",
              "eiac", "eiam", "eitr", "ivar", "ivarmisc">>
DumpLen == 45

\* the writes: word, register, element; VFPSRTYPE is one register
DumpWrites ==
  {<<i - 1, DumpHead[i], 0>> : i \in 1 .. 14} \cup
  {<<DumpAt[k] + e, DumpNames[k], e>> : k \in 1 .. 16, e \in {0, 1}}
IsDumped(w) == w[2] = "psrtype" => w[3] = 0

GetRegs ==
  /\ tpc = "idle" /\ dump = {} /\ linkOut = "none"
  /\ dump' = {w \in DumpWrites : IsDumped(w)}
  /\ UNCHANGED <<regs, stuck, gone, noticed, testVars, testsLeft, linkReport>>

-----------------------------------------------------------------------------
(* ixgbe_read_vflinks and ixgbevf_get_link_ksettings.                      *)

\* speeds each kind of device knows, and how VFLINKS says them: code, and "non standard"
Speeds(mac) ==
  IF mac = "82599" THEN {"10g", "1g", "100"}
  ELSE IF mac = "x550" THEN {"10g", "2.5g", "1g", "100", "5g", "10"}
  ELSE {"10g", "2.5g", "1g", "100", "10"}
LinkCode(s) ==
  IF s \in {"10g", "2.5g"} THEN 3 ELSE IF s = "1g" THEN 2 ELSE IF s \in {"100", "5g"} THEN 1 ELSE 0
NonStandard(s) == s \in {"2.5g", "5g"}

\* mac.type >= ixgbe_mac_X550_vf
NonStdMacs == {"x550", "x550em"}

\* ixgbe_read_vflinks
VflinksSpeed(mac, code, nonStd) ==
  IF code = 3 THEN IF mac \in NonStdMacs /\ nonStd THEN "2.5g" ELSE "10g"
  ELSE IF code = 2 THEN "1g"
  ELSE IF code = 1 THEN IF mac = "x550" /\ nonStd THEN "5g" ELSE "100"
  ELSE IF mac \in NonStdMacs THEN "10" ELSE "unknown"

\* ixgbevf_get_link_ksettings, ixgbevf_get_settings
Ksettings(up, speed) == IF up THEN speed ELSE "unknown"

GetLinkKsettings(mac, s, up) ==
  /\ tpc = "idle" /\ dump = {} /\ linkOut = "none"
  /\ linkIn' = <<s, up>>
  /\ linkOut' = Ksettings(up, VflinksSpeed(mac, LinkCode(s), NonStandard(s)))
  /\ UNCHANGED <<regs, stuck, gone, noticed, testVars, testsLeft, dump>>

-----------------------------------------------------------------------------
SelfTestNext ==
  \/ Vanish \/ DiagTest \/ WriteNoTest \/ PatternWrite \/ PatternRead \/ TestReset \/ GetRegs
  \/ \E mac \in LinkMacs, up \in BOOLEAN : \E s \in Speeds(mac) : GetLinkKsettings(mac, s, up)

SelfTestSpec == SelfTestInit(Faults) /\ [][SelfTestNext]_selfVars

-----------------------------------------------------------------------------
(* Properties.                                                             *)

\* Type invariant of the self-test.
SelfTestTypeOK ==
  /\ \A r \in Registers : regs[r] \subseteq Wired(r[1])
  /\ tpc \in {"idle", "reg", "read", "tested", "done"}
  /\ ti \in DOMAIN RegTests /\ ri \in 1 .. TestQueues /\ pat \in DOMAIN Patterns
  /\ regResult \in {"none", "pass", "fail"} /\ {gone, noticed} \subseteq BOOLEAN

\* a stuck bit that ought to be seen: of a register that is read back, and not one that
\* is missing anyway
Visible(f) ==
  \E i \in DOMAIN RegTests :
    RegTests[i].reg = f.reg[1] /\ RegTests[i].test /\ (f.at \/ f.bit \in Wired(f.reg[1]))

\* The register test passes exactly the adapters that have no fault: a stuck bit in a
\* register it reads back is found, whichever bit, register and value, none is invented,
\* and an adapter that was gone before the last value came back does not pass.
FaultFound ==
  /\ regResult = "pass" => \A f \in stuck : ~Visible(f)
  /\ regResult = "fail" => (\E f \in stuck : Visible(f)) \/ gone
  /\ regResult = "pass" => ~noticed \/ tpc = "done"

\* Pass or fail, every register that was tried out has its old value when the test is
\* over (those of a stuck bit apart), and after the reset no queue is left enabled.
RegsGivenBack ==
  /\ tpc = "tested" /\ ~gone =>
       \A r \in Registers : r[1] \notin {"rxdctl", "rdt"} /\ Broken(r) = {} => regs[r] = regsAt[r]
  /\ tpc = "done" /\ ~gone => \A q \in 1 .. TestQueues : regs[<<"rxdctl", q>>] = {}

\* The dump fills every one of the 45 words once, and reads no register twice but EICS.
DumpExact ==
  dump # {} =>
    /\ {w[1] : w \in dump} = 0 .. DumpLen - 1
    /\ \A v, w \in dump :
         v # w => v[1] # w[1] /\ (v[2] # "eics" => <<v[2], v[3]>> # <<w[2], w[3]>>)

\* ethtool shows the speed the link has, on every device that knows it.
SpeedReported == linkOut # "none" => linkOut = IF linkIn[2] THEN linkIn[1] ELSE "unknown"

\* What ixgbevf_reg_test, ixgbevf_get_regs and the link report tell the user is so, with
\* stuck bits and on a device that goes away.
SelfTestTrue ==
  SelfTestTypeOK /\ FaultFound /\ RegsGivenBack /\ DumpExact /\ SpeedReported
=============================================================================
