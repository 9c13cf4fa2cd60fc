------------------------------- MODULE Params -------------------------------
(***************************************************************************)
(* Module parameters (ixgbe_param.c): ixgbe_sw_init gives a board the      *)
(* features of its MAC, ixgbe_check_options folds the parameters of        *)
(* modprobe into them, one block per parameter and in the order of the     *)
(* code, and probe turns receive-side coalescing on from the result.       *)
(*                                                                         *)
(* A feature flag of adapter->flags, flags2 or netdev->features is a       *)
(* member of the set `flags`.  The kernel is built with every optional     *)
(* feature (DCA, DCB, FCoE, PCI_IOV, LLI, multiple Tx queues).             *)
(***************************************************************************)
EXTENDS Integers, FiniteSets

CONSTANTS Macs,      \* MAC families tried
          Cpus,      \* num_online_cpus
          Sheets     \* what modprobe may be told: parameter -> value

VARIABLES sheet,     \* the module parameters of this board
          board,     \* hw->mac.type
          adapter,   \* flags, ring limits and settings
          stage      \* where probe is

parvars == <<sheet, board, adapter, stage>>

\* OPTION_UNSET; an element of a parameter array modprobe did not fill.
Unset == -1

Names == {"IntMode", "MQ", "DCA", "RSS", "VMDQ", "max_vfs", "VEPA", "ITR",
          "LLIPort", "LLISize", "LLIPush", "LLIEType", "LLIVLANP",
          "FdirPballoc", "AtrSampleRate", "FCoE", "LRO", "sfp",
          "dmac_watchdog", "vxlan_rx", "MDD"}

NewMacs == {"X550", "X550EM", "E610"}

Least(a, b) == IF a < b THEN a ELSE b

MaxRss(m) == IF m \in NewMacs THEN 63 ELSE 16

MinRscItr == 24

SwInit(m) ==
  LET common == {"dca_capable", "dcb_capable", "fcoe_capable", "rsc_capable",
                 "msi", "msix", "mq"}
      flags  ==
        CASE m = "82598"  -> common \ {"rsc_capable", "fcoe_capable"}
          [] m = "X550"   -> (common \ {"dca_capable"})
                               \cup {"sriov_capable", "vxlan_capable"}
          [] m \in {"X550EM", "E610"} ->
               (common \ {"dca_capable", "dcb_capable", "fcoe_capable"})
                 \cup {"sriov_capable", "vxlan_capable"}
          [] OTHER        -> common \cup {"sriov_capable"}
  IN [flags |-> flags, rss |-> 0, vmdq |-> 0, max_vfs |-> 0,
      fdir |-> IF m = "82598" THEN 0 ELSE Least(63, Cpus),
      rx_itr |-> 0, tx_itr |-> 0, lli_port |-> 0, lli_size |-> 0,
      lli_etype |-> 0, lli_vlan_pri |-> 0, pballoc |-> 0, atr |-> 0, dmac |-> 0]

\* ixgbe_validate_option for a range; the value is unsigned, so that every
\* negative number lies above the range.
ValidateKeeping(v, lo, hi, def) == v

Validate(v, lo, hi, def) ==
  IF v /= Unset /\ ((v >= lo /\ v <= hi) \/ v = def) THEN v ELSE def

\* The same function for an option that is on or off.
ValidateSwitch(v, def) == Validate(v, 0, 1, def)

Without(a, fs) == [a EXCEPT !.flags = @ \ fs]
With(a, fs)    == [a EXCEPT !.flags = @ \cup fs]
Switch(a, on, fs) == IF on THEN With(a, fs) ELSE Without(a, fs)
Has(a, f) == f \in a.flags

IntMode(a, p) ==
  LET mode == Validate(p["IntMode"], 0, 2, 2)
  IN IF p["IntMode"] = Unset
     THEN IF Has(a, "msix") THEN With(a, {"msi"}) ELSE Without(a, {"msi"})
     ELSE CASE mode = 2 -> a
            [] mode = 1 -> IF Has(a, "msi") THEN Without(a, {"msix"}) ELSE a
            [] OTHER    -> Without(a, {"msix", "msi"})

MultiQueueAlways(a, p) == Switch(a, ValidateSwitch(p["MQ"], 1) = 1, {"mq"})

MultiQueue(a, p) ==
  LET b == Switch(a, ValidateSwitch(p["MQ"], 1) = 1, {"mq"})
  IN IF Has(b, "msix") THEN b ELSE Without(b, {"mq"})

Dca(a, p) ==
  LET dca == IF p["DCA"] = Unset THEN 2 ELSE Validate(p["DCA"], 0, 2, 2)
      b   == IF dca = 0 THEN Without(a, {"dca_capable"}) ELSE a
      c   == IF Has(b, "dca_capable") THEN b ELSE Without(b, {"dca_enabled"})
  IN IF dca = 2 THEN With(c, {"dca_data"}) ELSE c

Rss(a, m, p) ==
  LET asked == IF p["RSS"] = Unset THEN 0 ELSE Validate(p["RSS"], 0, MaxRss(m), 0)
      rss   == IF asked = 0 THEN Least(MaxRss(m), Cpus) ELSE asked
      b     == [a EXCEPT !.rss = rss, !.fdir = IF asked = 0 THEN @ ELSE rss]
  IN IF rss > 1 /\ ~Has(a, "mq") THEN [b EXCEPT !.rss = 1] ELSE b

Vmdq(a, m, p) ==
  LET vmdq == Validate(p["VMDQ"], 0, IF m = "82598" THEN 16 ELSE 64, 0)
      b    == [Switch(a, vmdq > 1, {"vmdq"}) EXCEPT !.vmdq = vmdq]
  IN IF Has(b, "vmdq") /\ ~Has(b, "mq")
     THEN [Without(b, {"vmdq"}) EXCEPT !.vmdq = 0]
     ELSE b

MaxVfs(a, p) ==
  LET vfs == Validate(p["max_vfs"], 0, 63, 0)
      b   == [Switch(a, vfs > 0, {"sriov"}) EXCEPT !.max_vfs = vfs]
  IN IF Has(b, "sriov") /\ ~(Has(b, "sriov_capable") /\ Has(b, "mq"))
     THEN [Without(b, {"sriov"}) EXCEPT !.max_vfs = 0]
     ELSE b

Vepa(a, p) == IF Validate(p["VEPA"], 0, 1, 0) = 1 THEN With(a, {"vepa"}) ELSE a

\* The setting is a u16 in quarter microseconds; 1 stands for "dynamic".
Itr(a, p) ==
  LET asked == p["ITR"]
      rate  == Validate(asked, 956, 488281, 1)
      itr   == CASE asked = Unset       -> 1
                 [] asked \in {0, 1}    -> asked
                 [] OTHER -> (4 * (1000000 \div rate)) % 65536
  IN [a EXCEPT !.rx_itr = itr, !.tx_itr = itr]

\* ixgbe_lli_supported
LliSupported(m, p) == m = "X540" \/ (m = "82599" /\ p["LLIPush"] <= 0)

\* A low latency interrupt threshold: 0 is off, and the default.
Lli(m, p, name, hi) ==
  IF p[name] /= Unset /\ LliSupported(m, p) THEN Validate(p[name], 0, hi, 0) ELSE 0

LliPort(a, m, p)  == [a EXCEPT !.lli_port = Lli(m, p, "LLIPort", 65535)]
LliSize(a, m, p)  == [a EXCEPT !.lli_size = Lli(m, p, "LLISize", 1500)]
LliPush(a, m, p)  == Switch(a, Lli(m, p, "LLIPush", 1) = 1, {"lli_push"})
LliEType(a, m, p) == [a EXCEPT !.lli_etype = Lli(m, p, "LLIEType", 36863)]
LliVlan(a, m, p)  == [a EXCEPT !.lli_vlan_pri = Lli(m, p, "LLIVLANP", 7)]

FdirPballoc(a, m, p) ==
  [a EXCEPT !.pballoc = IF m = "82598" THEN 0
                        ELSE Validate(p["FdirPballoc"], 1, 3, 1)]

AtrSampleRate(a, m, p) ==
  [a EXCEPT !.atr = IF m = "82598" THEN 0
                    ELSE Validate(p["AtrSampleRate"], 0, 255, 20)]

Fcoe(a, m, p) ==
  Switch(a, /\ m \in {"82599", "X540", "X550", "E610"}
            /\ ValidateSwitch(p["FCoE"], 1) = 1, {"fcoe_capable"})

Lro(a, p) ==
  Switch(a, ValidateSwitch(p["LRO"], 0) = 1 /\ Has(a, "rsc_capable"), {"lro"})

UnsupportedSfp(a, p) == Switch(a, ValidateSwitch(p["sfp"], 0) = 1, {"sfp"})

\* DMA coalescing needs a MAC that has it and interrupt moderation.
Dmac(a, m, p) ==
  LET able == m \in NewMacs /\ (a.rx_itr /= 0 \/ a.tx_itr /= 0)
  IN [a EXCEPT !.dmac = IF able THEN Validate(p["dmac_watchdog"], 41, 10000, 0)
                        ELSE Validate(p["dmac_watchdog"], 0, 0, 0)]

VxlanRx(a, p) ==
  LET top == IF Has(a, "vxlan_capable") THEN 1 ELSE 0
  IN Switch(a, Validate(p["vxlan_rx"], 0, top, top) = 1, {"vxlan"})

Mdd(a, m, p) == Switch(a, m \in NewMacs /\ ValidateSwitch(p["MDD"], 1) = 1, {"mdd"})

\* ixgbe_check_options
Checked(a0, m, p) ==
  LET a1 == Vepa(MaxVfs(Vmdq(Rss(Dca(MultiQueue(IntMode(a0, p), p), p), m, p), m, p), p), p)
      a2 == LliVlan(LliEType(LliPush(LliSize(LliPort(Itr(a1, p), m, p), m, p), m, p), m, p), m, p)
      a3 == Fcoe(AtrSampleRate(FdirPballoc(a2, m, p), m, p), m, p)
  IN Mdd(VxlanRx(Dmac(UnsupportedSfp(Lro(a3, p), p), m, p), p), m, p)

-----------------------------------------------------------------------------
Init ==
  /\ board \in Macs
  /\ sheet \in Sheets
  /\ adapter = SwInit(board)
  /\ stage = "sw_init"

CheckOptions ==
  /\ stage = "sw_init"
  /\ adapter' = Checked(adapter, board, sheet)
  /\ stage' = "options"
  /\ UNCHANGED <<sheet, board>>

\* ixgbe_enable_sriov, called by probe for a board that can have VFs (no VF
\* is left over from an earlier driver).  Coalescing is given up while there
\* are VFs.  When the PCI core refuses, nothing is taken back.
Sriov(a) ==
  LET vmdq == IF a.vmdq = 0 THEN 1 ELSE a.vmdq
      on   == [With(a, {"sriov", "vmdq"}) EXCEPT !.vmdq = vmdq]
  IN IF a.max_vfs = 0 \/ ~Has(a, "sriov_capable") THEN {a}
     ELSE {a,                                             \* pci_enable_sriov failed
           Without(on, {"rsc_capable"}),                  \* the VFs are there
           Without(on, {"sriov"} \cup IF vmdq = 1 THEN {"vmdq"} ELSE {})}  \* no memory

EnableSriov ==
  /\ stage = "options"
  /\ adapter' \in Sriov(adapter)
  /\ stage' = "sriov"
  /\ UNCHANGED <<sheet, board>>

EnableRsc ==
  /\ stage = "sriov"
  /\ adapter' =
       Switch(adapter, /\ Has(adapter, "lro") /\ Has(adapter, "rsc_capable")
                       /\ (adapter.rx_itr = 1 \/ adapter.rx_itr > MinRscItr),
              {"rsc"})
  /\ stage' = "done"
  /\ UNCHANGED <<sheet, board>>

Next == CheckOptions \/ EnableSriov \/ EnableRsc

Spec == Init /\ [][Next]_parvars

-----------------------------------------------------------------------------
TypeOK ==
  /\ board \in Macs /\ sheet \in [Names -> Int]
  /\ stage \in {"sw_init", "options", "sriov", "done"}
  /\ adapter.rx_itr \in 0..65535 /\ adapter.rss \in 0..63

\* A value outside a parameter's range.
Bad(name, v, m) ==
  /\ v /= Unset
  /\ CASE name \in {"MQ", "VEPA", "LLIPush", "FCoE", "LRO", "sfp", "vxlan_rx", "MDD"}
                               -> v \notin 0..1
       [] name \in {"IntMode", "DCA"} -> v \notin 0..2
       [] name = "RSS"           -> v \notin 0..MaxRss(m)
       [] name = "VMDQ"          -> v \notin 0..(IF m = "82598" THEN 16 ELSE 64)
       [] name = "max_vfs"       -> v \notin 0..63
       [] name = "ITR"           -> v \notin {0, 1} /\ v \notin 956..488281
       [] name = "LLIPort"       -> v \notin 0..65535
       [] name = "LLISize"       -> v \notin 0..1500
       [] name = "LLIEType"      -> v \notin 0..36863
       [] name = "LLIVLANP"      -> v \notin 0..7
       [] name = "FdirPballoc"   -> v \notin 1..3
       [] name = "AtrSampleRate" -> v \notin 0..255
       [] OTHER                  -> v /= 0 /\ v \notin 41..10000

\* Every option's error text says that an invalid value is replaced by the
\* default ("using default of ..."): ixgbe_check_options leaves the adapter as
\* if the parameter had not been given at all.
InvalidIsDefault ==
  stage = "options" =>
    LET legal == [n \in Names |-> IF Bad(n, sheet[n], board) THEN Unset ELSE sheet[n]]
    IN adapter = Checked(SwInit(board), board, legal)

\* Whatever modprobe asks for, the options leave a configuration the rest of
\* the driver can run: multiple queues only with MSI-X, one RSS queue without
\* them, VMDq and SR-IOV only with them and, for SR-IOV, only on a board that
\* has it; never more RSS queues than the board; DMA coalescing and RSC only
\* with interrupt moderation (README: disabling InterruptThrottleRate "will
\* also result in the driver disabling HW RSC"); no RSC beside VFs.
OptionsSound ==
  stage \in {"options", "done"} =>
    /\ Has(adapter, "mq") => Has(adapter, "msix")
    /\ adapter.rss \in 1..MaxRss(board)
    /\ ~Has(adapter, "mq") => adapter.rss = 1 /\ ~Has(adapter, "sriov")
                              /\ ~Has(adapter, "vmdq")
    /\ Has(adapter, "sriov") => Has(adapter, "sriov_capable") /\ adapter.max_vfs > 0
    /\ stage = "options" => (Has(adapter, "vmdq") <=> adapter.vmdq > 1)
    /\ adapter.dmac /= 0 => adapter.rx_itr /= 0 /\ board \in NewMacs
    /\ Has(adapter, "rsc") => /\ Has(adapter, "lro") /\ board /= "82598"
                              /\ adapter.rx_itr /= 0
    /\ Has(adapter, "lro") /\ stage = "options" => Has(adapter, "rsc_capable")
=============================================================================
