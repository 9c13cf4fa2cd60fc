------------------------------ MODULE SelfTest ------------------------------
(***************************************************************************)
(* ethtool's self-test of an adapter (ixgbe_diag_test): the link, register,*)
(* EEPROM, interrupt and MAC loopback tests, run on a chip that may be     *)
(* broken in one place and with allocations that may fail.                 *)
(*                                                                         *)
(* A register is two bits wide and the test patterns are the four values   *)
(* of two bits; the interrupt test walks over Vectors causes instead of    *)
(* ten; a loopback batch is Batch frames on rings of Count descriptors     *)
(* (64 and 512 in the code).                                               *)
(***************************************************************************)
EXTENDS Integers, Sequences

CONSTANTS
    Setups,     \* adapters and chips of the instance, see Setup
    Vectors,    \* causes the interrupt test walks over
    Count, Batch    \* ring size and frames per batch

VARIABLES
    setup,      \* the adapter and what is wrong with it: a member of Setups
    phase,      \* where ixgbe_diag_test is
    data,       \* the five verdicts, data[0] to data[4]
    drv,        \* running, __IXGBE_TESTING, DCB flag, test irq and test rings
    chip,       \* registers the tests leave changed until the next reset
    loop        \* pointers and batches of the loopback test

tvars == <<setup, phase, data, drv, chip, loop>>

Faults == {"none", "status", "stuck0", "stuck1", "eeprom", "deaf", "leaky", "lossy"}

\* fault: what is broken, and where (a register, a cause or a batch); fails:
\* the allocations that fail; irq: how the interrupt can be requested.
Setup == [running : BOOLEAN, offline : BOOLEAN, link : BOOLEAN, dcb : BOOLEAN,
          vt : BOOLEAN, vfs : BOOLEAN, family : {"82598", "82599", "X540"}, orig_autoc : BOOLEAN,
          irq : {"msix", "msi", "legacy", "shared"},
          fault : Faults, at : 0..3, fails : SUBSET {"irq", "tx", "rx", "skb", "open"}]

-----------------------------------------------------------------------------
\* The register test.

Patterns == <<1, 2, 0, 3>>

\* One entry per kind of reg_test_82599: pattern tests, a set and read test,
\* writes without a test, and tables.
RegTests == <<[kind |-> "pattern", mask |-> 3, write |-> 3],
              [kind |-> "set", mask |-> 1, write |-> 1],
              [kind |-> "write", mask |-> 0, write |-> 1],
              [kind |-> "pattern", mask |-> 2, write |-> 3]>>

And(a, b) == (IF a % 2 = 1 /\ b % 2 = 1 THEN 1 ELSE 0)
             + (IF a \div 2 = 1 /\ b \div 2 = 1 THEN 2 ELSE 0)
Or(a, b) == 3 - And(3 - a, 3 - b)

\* A register of the chip reads back the bits it implements; a stuck bit is
\* the highest implemented one of register setup.at.
HighBit(mask) == IF mask >= 2 THEN 2 ELSE mask
ReadBack(i, v) ==
    LET t == RegTests[i]
        kept == And(v, t.mask)
    IN  IF setup.at # i - 1 THEN kept
        ELSE IF setup.fault = "stuck0" THEN And(kept, 3 - HighBit(t.mask))
        ELSE IF setup.fault = "stuck1" THEN Or(kept, HighBit(t.mask))
        ELSE kept

\* reg_pattern_test, reg_set_and_check: TRUE when the register fails.
RegPatternTest(i) ==
    LET t == RegTests[i]
    IN  \E p \in 1..Len(Patterns) :
          ReadBack(i, And(Patterns[p], t.write)) # And(And(Patterns[p], t.write), t.mask)

RegSetAndCheck(i) ==
    LET t == RegTests[i]
    IN  And(t.write, t.mask) # And(ReadBack(i, And(t.write, t.mask)), t.mask)

\* ixgbe_reg_test: STATUS must ignore the write, then every register in
\* turn.
RegTest ==
    IF setup.fault = "status" THEN 1
    ELSE IF \E i \in 1..Len(RegTests) :
              \/ RegTests[i].kind = "pattern" /\ RegPatternTest(i)
              \/ RegTests[i].kind = "set" /\ RegSetAndCheck(i)
         THEN 2 ELSE 0

-----------------------------------------------------------------------------
\* The interrupt test.  s: the enabled causes, the pending ones (EICR), and
\* test_icr, which the handler adds EICR to.

\* EICS: the causes become pending; an enabled one interrupts, and the
\* handler ixgbe_test_intr reads and clears EICR.
Cause(s, bits) ==
    LET pend == s.eicr \cup bits
        heard == \E b \in bits : \/ b \in s.eims /\ ~(setup.fault = "deaf" /\ b = setup.at)
                                 \/ setup.fault = "leaky" /\ b = setup.at
    IN  IF heard THEN [s EXCEPT !.eicr = {}, !.icr = s.icr \cup pend]
        ELSE [s EXCEPT !.eicr = pend]

Causes == 0..Vectors - 1

\* A round that does not look at the others while the cause is enabled.
IntrRoundShort(s, i, alone) ==
    LET rest == Causes \ {i}
        s1 == Cause([s EXCEPT !.icr = {}, !.eims = @ \ rest], rest)
        s2 == IF alone THEN s1 ELSE s
        s3 == Cause([s2 EXCEPT !.icr = {}, !.eims = @ \cup {i}], {i})
    IN  IF alone /\ i \in s1.icr THEN [s1 EXCEPT !.bad = 3]
        ELSE IF i \notin s3.icr THEN [s3 EXCEPT !.bad = 4]
        ELSE s3

\* One round of the loop: masked alone, enabled alone, the others masked.
IntrRound(s, i, alone) ==
    LET rest == Causes \ {i}
        s1 == Cause([s EXCEPT !.icr = {}, !.eims = @ \ rest], rest)
        s2 == IF alone THEN s1 ELSE s
        s3 == Cause([s2 EXCEPT !.icr = {}, !.eims = @ \cup {i}], {i})
        s4 == Cause([s3 EXCEPT !.icr = {}, !.eims = @ \ rest], rest)
    IN  IF alone /\ i \in s1.icr THEN [s1 EXCEPT !.bad = 3]
        ELSE IF i \notin s3.icr THEN [s3 EXCEPT !.bad = 4]
        ELSE IF alone /\ s4.icr # {} THEN [s4 EXCEPT !.bad = 5]
        ELSE IF alone THEN s4 ELSE s3

\* The rounds 0..i, up to the first that finds something.
IntrRounds(alone) ==
    LET f[i \in -1..Vectors - 1] ==
          IF i = -1 THEN [eims |-> {}, eicr |-> {}, icr |-> {}, bad |-> 0]
          ELSE IF f[i - 1].bad # 0 THEN f[i - 1] ELSE IntrRound(f[i - 1], i, alone)
    IN  f[Vectors - 1].bad

Alone == setup.irq \in {"msi", "legacy"}

IntrTest == IF setup.irq = "msix" THEN 0
            ELSE IF "irq" \in setup.fails THEN 1
            ELSE IntrRounds(Alone)

-----------------------------------------------------------------------------
\* The steps of ixgbe_diag_test.

CleanChip == [lpbk |-> FALSE, promisc |-> FALSE, flu |-> FALSE, dmbyps |-> FALSE, regs |-> FALSE]
NoLoop == [tx_ntu |-> 0, tx_ntc |-> 0, rx_ntc |-> 0, batch |-> 0]

Goto(p) == phase' = p
Put(k, v) == data' = [data EXCEPT ![k] = v]

\* An adapter with a virtual function in use is not tested; an online test
\* only looks at the link.
Begin ==
    /\ phase = "idle"
    /\ IF setup.offline /\ setup.vfs
       THEN /\ data' = [k \in 0..4 |-> 1] /\ Goto("done") /\ UNCHANGED drv
       ELSE /\ drv' = [drv EXCEPT !.testing = TRUE] /\ Goto("link") /\ UNCHANGED data
    /\ UNCHANGED <<setup, chip, loop>>

LinkTest ==
    /\ phase = "link"
    /\ Put(4, IF setup.link THEN 0 ELSE 1)
    /\ IF setup.offline
       THEN Goto("stop") /\ UNCHANGED drv
       ELSE Goto("done") /\ drv' = [drv EXCEPT !.testing = FALSE]
    /\ UNCHANGED <<setup, chip, loop>>

\* ixgbe_close or ixgbe_reset, then the register test.
Stop ==
    /\ phase = "stop" /\ Goto("reg")
    /\ drv' = [drv EXCEPT !.up = FALSE]
    /\ chip' = CleanChip
    /\ UNCHANGED <<setup, data, loop>>

RegStep ==
    /\ phase = "reg" /\ Goto("eeprom")
    /\ Put(0, RegTest)
    /\ chip' = [chip EXCEPT !.regs = TRUE]
    /\ UNCHANGED <<setup, drv, loop>>

EepromTest ==
    /\ phase = "eeprom" /\ Goto("intr")
    /\ chip' = CleanChip
    /\ Put(1, IF setup.fault = "eeprom" THEN 1 ELSE 0)
    /\ UNCHANGED <<setup, drv, loop>>

IntrStep ==
    /\ phase = "intr"
    /\ Goto(IF setup.vt THEN "finish" ELSE "rings")
    /\ chip' = CleanChip
    /\ Put(2, IntrTest)
    /\ UNCHANGED <<setup, drv, loop>>

\* ixgbe_setup_desc_rings, after a reset.
SetupDescRings ==
    /\ phase = "rings"
    /\ IF "tx" \in setup.fails
       THEN /\ Put(3, 1) /\ chip' = CleanChip /\ Goto("finish") /\ UNCHANGED drv
       ELSE IF "rx" \in setup.fails
       THEN /\ Put(3, 4) /\ chip' = CleanChip /\ Goto("free")
            /\ drv' = [drv EXCEPT !.txring = TRUE]
       ELSE /\ drv' = [drv EXCEPT !.txring = TRUE, !.rxring = TRUE]
            /\ chip' = [CleanChip EXCEPT !.dmbyps = TRUE] /\ Goto("loopback") /\ UNCHANGED data
    /\ UNCHANGED <<setup, loop>>

\* ixgbe_setup_loopback_test: the families without MACC force the link up
\* through AUTOC and need its original value.
SetupLoopback ==
    /\ phase = "loopback"
    /\ IF setup.family = "X540" \/ setup.orig_autoc
       THEN chip' = [chip EXCEPT !.lpbk = TRUE, !.promisc = TRUE, !.flu = TRUE]
            /\ Goto("send") /\ UNCHANGED data
       ELSE chip' = [chip EXCEPT !.lpbk = TRUE, !.promisc = TRUE]
            /\ Goto("free") /\ Put(3, 10)
    /\ loop' = NoLoop
    /\ UNCHANGED <<setup, drv>>

Batches == ((Count \div Batch) * 2) + 2

\* One batch of ixgbe_run_loopback_test: the DCB flag is off while frames
\* are sent; a lossy MAC swallows a frame of batch setup.at.  The frames
\* that came back are counted by ixgbe_clean_test_rings, which gives their
\* buffers back.
Returned == IF setup.fault = "lossy" /\ loop.batch = setup.at THEN Batch - 1 ELSE Batch

\* The flags as they were when the test began.
FlagsBackNot == FALSE
FlagsBack == setup.dcb

RunLoopback ==
    /\ phase = "send"
    /\ IF "skb" \in setup.fails
       THEN /\ Put(3, 11) /\ Goto("cleanup") /\ drv' = [drv EXCEPT !.dcb = FALSE] /\ UNCHANGED loop
       ELSE LET used == (loop.tx_ntu + Batch) % Count
                room == ((loop.tx_ntc + Count) - loop.tx_ntu - 1) % Count
            IN  IF room < Batch
                THEN /\ Put(3, 12) /\ Goto("cleanup") /\ UNCHANGED loop
                     /\ drv' = [drv EXCEPT !.dcb = FlagsBack]
                ELSE /\ loop' = [tx_ntu |-> used, tx_ntc |-> used,
                                 rx_ntc |-> (loop.rx_ntc + Returned) % Count,
                                 batch |-> loop.batch + 1]
                     /\ IF Returned # Batch
                        THEN Put(3, 13) /\ Goto("cleanup") /\ drv' = [drv EXCEPT !.dcb = FlagsBack]
                        ELSE IF loop.batch + 1 = Batches
                        THEN Put(3, 0) /\ Goto("cleanup") /\ drv' = [drv EXCEPT !.dcb = FlagsBack]
                        ELSE UNCHANGED <<data, phase>> /\ drv' = [drv EXCEPT !.dcb = FALSE]
    /\ UNCHANGED <<setup, chip>>

LoopbackCleanup ==
    /\ phase = "cleanup" /\ Goto("free")
    /\ chip' = [chip EXCEPT !.lpbk = FALSE]
    /\ UNCHANGED <<setup, data, drv, loop>>

\* ixgbe_free_desc_rings resets the adapter and frees what was allocated.
FreeDescRings ==
    /\ phase = "free" /\ Goto("finish")
    /\ chip' = CleanChip
    /\ drv' = [drv EXCEPT !.txring = FALSE, !.rxring = FALSE]
    /\ UNCHANGED <<setup, data, loop>>

\* The last reset; __IXGBE_TESTING is cleared before ixgbe_open, which
\* refuses to run while it is set.  Nobody looks at what ixgbe_open returns.
Reopened == setup.running /\ "open" \notin setup.fails
Finish ==
    /\ phase = "finish" /\ Goto("done")
    /\ chip' = CleanChip
    /\ drv' = [drv EXCEPT !.testing = FALSE, !.up = Reopened]
    /\ UNCHANGED <<setup, data, loop>>

Init ==
    /\ setup \in Setups
    /\ phase = "idle" /\ data = [k \in 0..4 |-> 0] /\ chip = CleanChip /\ loop = NoLoop
    /\ drv = [up |-> setup.running, testing |-> FALSE, dcb |-> setup.dcb,
              txring |-> FALSE, rxring |-> FALSE]

Next == Begin \/ LinkTest \/ Stop \/ RegStep \/ EepromTest \/ IntrStep \/ SetupDescRings
        \/ SetupLoopback \/ RunLoopback \/ LoopbackCleanup \/ FreeDescRings \/ Finish

Spec == Init /\ [][Next]_tvars
-----------------------------------------------------------------------------
TypeOK ==
    /\ setup \in Setup
    /\ phase \in {"idle", "link", "stop", "reg", "eeprom", "intr", "rings", "loopback", "send",
                  "cleanup", "free", "finish", "done"}
    /\ loop.tx_ntu \in 0..Count - 1 /\ loop.rx_ntc \in 0..Count - 1

Ran == phase = "done" /\ setup.offline /\ ~setup.vfs

\* The verdicts of an offline test are right: a test reports a failure
\* exactly when the part it looks at is broken or it could not be run.  An
\* interrupt that leaks through its mask can only be seen on a line of the
\* adapter's own, and MSI-X vectors and pools are not tested.
VerdictTrue ==
    Ran =>
      /\ (data[0] # 0) = \/ setup.fault = "status"
                         \/ setup.fault \in {"stuck0", "stuck1"} /\ RegTests[setup.at + 1].kind # "write"
                            /\ ~(setup.fault = "stuck1" /\ RegTests[setup.at + 1].kind = "set")
      /\ (data[1] # 0) = (setup.fault = "eeprom")
      /\ (data[2] # 0) = /\ setup.irq # "msix"
                         /\ \/ "irq" \in setup.fails
                            \/ setup.fault = "deaf" /\ setup.at \in Causes
                            \/ setup.fault = "leaky" /\ setup.at \in Causes /\ Alone
      /\ (data[3] # 0) = /\ ~setup.vt
                         /\ \/ setup.fails \cap {"tx", "rx", "skb"} # {}
                            \/ setup.family # "X540" /\ ~setup.orig_autoc
                            \/ setup.fault = "lossy" /\ setup.at < Batches
      /\ (data[4] # 0) = ~setup.link

\* The test leaves the adapter as it found it, on every way out: the
\* interface runs again if it did and could be opened, nothing of the tests' hardware state,
\* rings or flags remains, and the DCB flag is back.
LeavesNoTrace ==
    phase = "done" =>
      /\ drv = [up |-> IF setup.offline /\ ~setup.vfs THEN Reopened ELSE setup.running,
                testing |-> FALSE, dcb |-> setup.dcb, txring |-> FALSE, rxring |-> FALSE]
      /\ chip = CleanChip
=============================================================================
