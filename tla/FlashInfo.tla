----------------------------- MODULE FlashInfo -----------------------------
(***************************************************************************)
(* How the driver reads the E610's flash (ixgbe_e610.c: ixgbe_init_nvm and *)
(* the readers under it), what devlink reports of it (ixgbe_devlink.c:     *)
(* ixgbe_devlink_info_get) and the minimum security revisions that are     *)
(* checked against it.                                                     *)
(*                                                                         *)
(* The flash holds two banks of each module.  The Shadow RAM says where    *)
(* the first bank lies, how large it is and which bank is active; the      *)
(* driver keeps a copy of that (hw->flash.banks) and of the versions of    *)
(* the active banks, and refreshes the copy at probe and after a reload.   *)
(* Offsets count 16-bit words; a word has the values 0 .. W - 1.  The      *)
(* sizes are scaled down, the arithmetic is the code's.  Every read may    *)
(* fail.  ghosts: stale - the copy was not completely refreshed since the  *)
(* banks last changed; told.sound - the last answer was put together       *)
(* without a failed read.                                                  *)
(***************************************************************************)
EXTENDS Integers, Sequences, FiniteSetsExt, TLC

CONSTANTS
    Contents,     \* what an image may hold: records of type Content
    ActiveNow,    \* the contents of all first banks at the start
    MaxUpdates, MaxTrouble

VARIABLES flash, active, pending, minsrev, drv, stale, phase, told,
          nupdates, ntrouble

xvars == <<flash, active, pending, minsrev, drv, stale, phase, told,
           nupdates, ntrouble>>

Modules == {"nvm", "orom", "netlist"}
Banks == {1, 2}

\* hdr: length of the CSS header in the image, in double words; sum: whether
\* the check sum of the Option ROM's version data is right.
Content == [ver : 1 .. 9, srev : 1 .. 9, hdr : 1 .. 3, nodes : 0 .. 1,
            sum : BOOLEAN]

W == 128
Flag4K == 64            \* IXGBE_SR_NVM_PTR_4KB_UNITS
Unit == 4               \* 4 KB
Chunk == 8              \* IXGBE_ACI_MAX_BUFFER_SIZE
Round == 4              \* the 32 words of ROUND_UP(hdr_len, 32)
AuthLen == 2            \* IXGBE_NVM_AUTH_HEADER_LEN
Step == 4               \* IXGBE_OROM_STEP
Civ == 77               \* "$CIV"
Topo == 27              \* IXGBE_NETLIST_LINK_TOPO_MOD_ID
IdBlk == 2              \* IXGBE_NETLIST_ID_BLK_SIZE

FlashSize == 112
MaxOffset == 127        \* IXGBE_ACI_NVM_MAX_OFFSET
Base == [nvm |-> 24, orom |-> 56, netlist |-> 88]
Size == [nvm |-> 16, orom |-> 16, netlist |-> 12]

-----------------------------------------------------------------------------
(* The flash as the device presents it (external).                         *)

HdrLen(h) == (2 * h) + AuthLen
RoundUp(n) == ((n + Round - 1) \div Round) * Round
EeTrack(v) == (v * W) + v + 1

NvmWord(c, o) ==
    CASE o = 0 -> c.hdr % W
      [] o = 1 -> c.hdr \div W
      [] o = 2 -> c.srev % W
      [] o = 3 -> c.srev \div W
      [] o = RoundUp(HdrLen(c.hdr)) -> c.ver
      [] o = RoundUp(HdrLen(c.hdr)) + 1 -> EeTrack(c.ver) % W
      [] o = RoundUp(HdrLen(c.hdr)) + 2 -> EeTrack(c.ver) \div W
      [] OTHER -> 0

\* The version data starts at the second step; its signature also occurs
\* inside a step.
OromWord(c, o) ==
    CASE o = 2 -> Civ
      [] o = Step -> Civ
      [] o = Step + 1 -> c.ver
      [] o = Step + 2 -> IF c.sum THEN 0 ELSE 1
      [] o = Size.orom - HdrLen(c.hdr) + 2 -> c.srev % W
      [] o = Size.orom - HdrLen(c.hdr) + 3 -> c.srev \div W
      [] OTHER -> 0

NetlistWord(c, o) ==
    CASE o = 0 -> Topo
      [] o = 1 -> IdBlk
      [] o = 2 -> c.nodes
      [] o = 5 + (2 * c.nodes) -> c.ver
      [] o = 6 + (2 * c.nodes) -> c.ver + 1
      [] OTHER -> 0

\* Shadow RAM: control word with one bit for each module, pointers, sizes;
\* the NVM pointer is in units of 4 KB, the others in words.
ShadowWord(o) ==
    CASE o = 0 -> (IF active["orom"] = 2 THEN 8 ELSE 0)
                + (IF active["netlist"] = 2 THEN 16 ELSE 0)
                + (IF active["nvm"] = 2 THEN 32 ELSE 0) + 64
      [] o = 1 -> Flag4K + (Base.nvm \div Unit)
      [] o = 2 -> Size.nvm \div Unit
      [] o = 3 -> Base.orom
      [] o = 4 -> Size.orom \div Unit
      [] o = 5 -> Flag4K + (Base.netlist \div Unit)
      [] o = 6 -> Size.netlist \div Unit
      [] OTHER -> 0

FlashWord(o) ==
    LET m == CHOOSE x \in Modules :
                 Base[x] <= o /\ o < Base[x] + (2 * Size[x])
        b == IF o < Base[m] + Size[m] THEN 1 ELSE 2
        at == (o - Base[m]) % Size[m]
    IN IF o < Base.nvm THEN ShadowWord(o)
       ELSE CASE m = "nvm" -> NvmWord(flash[m][b], at)
              [] m = "orom" -> OromWord(flash[m][b], at)
              [] m = "netlist" -> NetlistWord(flash[m][b], at)

-----------------------------------------------------------------------------
(* Reading.  s is the state of a request: the driver's copy d, whether it  *)
(* has failed, the words read last, the reads that may still fail.         *)

\* The words ixgbe_read_flat_nvm reads: chunks that do not cross a boundary
\* of the buffer, one after the other.
Flat[o \in 0 .. MaxOffset, n \in 0 .. MaxOffset] ==
    LET size == Min({Chunk - (o % Chunk), n})
        first == [i \in 1 .. size |-> o + i - 1]
    IN IF size >= n THEN first ELSE first \o Flat[o + size, n - size]

Fails(s) == IF s.t > 0 THEN {[s EXCEPT !.err = TRUE, !.t = @ - 1]} ELSE {}
Refused(s) == {[s EXCEPT !.err = TRUE, !.lost = TRUE]}

Then(S, Op(_)) == UNION {IF t.err THEN {t} ELSE Op(t) : t \in S}

\* What follows whether or not the request failed.
Ignoring(S, Op(_)) == UNION {Op([t EXCEPT !.err = FALSE]) : t \in S}

\* Behind the end of the flash the device answers EINVAL.
Read(s, o, n) ==
    Fails(s) \cup
    IF o + n > FlashSize THEN Refused(s)
    ELSE {[s EXCEPT !.v = [i \in 1 .. n |-> FlashWord(Flat[o, n][i])]]}

Word(s) == s.v[1]

BankOffsetFirst(d, sel, m) ==
    IF d.bank[m] = 0 THEN 0
    ELSE d.ptr[m] + (IF sel = "active" THEN 0 ELSE d.size[m])

\* ixgbe_get_flash_bank_offset; 0 when the banks are not known.
BankOffset(d, sel, m) ==
    IF d.bank[m] = 0 THEN 0
    ELSE d.ptr[m] + (IF (d.bank[m] = 2) = (sel = "active")
                     THEN d.size[m] ELSE 0)

\* ixgbe_read_flash_module
ReadModule(s, sel, m, o, n) ==
    IF BankOffset(s.d, sel, m) = 0 THEN Refused(s)
    ELSE Read(s, BankOffset(s.d, sel, m) + o, n)

\* Two words of a module, the low one first.
ReadPair(s, sel, m, o) ==
    Then(ReadModule(s, sel, m, o, 1), LAMBDA a :
    Then(ReadModule(a, sel, m, o + 1, 1), LAMBDA b :
        {[b EXCEPT !.v = <<Word(a) + (W * Word(b))>>]}))

\* ixgbe_get_nvm_css_hdr_len
CssHdrLen(s, sel) ==
    Then(ReadPair(s, sel, "nvm", 0), LAMBDA a :
        {[a EXCEPT !.v = <<(2 * Word(a)) + AuthLen>>]})

\* ixgbe_read_nvm_sr_copy
SrCopy(s, sel, o) ==
    Then(CssHdrLen(s, sel), LAMBDA a :
        ReadModule(a, sel, "nvm", RoundUp(Word(a)) + o, 1))

\* ixgbe_get_nvm_ver_info into s.info.nvm, as far as it gets.  A failure to
\* read the security revision is not reported.
NvmVerInfo(s, sel) ==
    Then(SrCopy(s, sel, 0), LAMBDA a :
    Then(SrCopy([a EXCEPT !.info.nvm.ver = Word(a)], sel, 1), LAMBDA b :
    Then(SrCopy(b, sel, 2), LAMBDA c :
        {IF x.err THEN [x EXCEPT !.err = FALSE]
                  ELSE [x EXCEPT !.info.nvm.srev = Word(x)] :
            x \in ReadPair([c EXCEPT !.info.nvm.eetrack =
                                         (W * Word(c)) + Word(b)],
                           sel, "nvm", 2)})))

\* ixgbe_get_orom_civd_data: the first step of the module that starts with
\* the signature holds the version, if its check sum is right.
CivdData(s, sel) ==
    Then(ReadModule(s, sel, "orom", 0, s.d.size["orom"]), LAMBDA a :
        LET at == {o \in 0 .. (a.d.size["orom"] - Step) :
                       o % Step = 0 /\ a.v[o + 1] = Civ}
        IN IF at = {} \/ a.v[Min(at) + 3] # 0 THEN Refused(a)
           ELSE {[a EXCEPT !.v = <<a.v[Min(at) + 2]>>]})

\* ixgbe_get_orom_srev; the header length is that of the NVM module.
OromSrev(s, sel) ==
    Then(CssHdrLen(s, sel), LAMBDA a :
        IF a.d.size["orom"] < Word(a) THEN Refused(a)
        ELSE ReadPair(a, sel, "orom", a.d.size["orom"] - Word(a) + 2))

\* ixgbe_get_orom_ver_info
OromVerInfo(s, sel) ==
    Then(CivdData(s, sel), LAMBDA a :
    Then(OromSrev([a EXCEPT !.info.orom.ver = Word(a)], sel), LAMBDA b :
        {[b EXCEPT !.info.orom.srev = Word(b)]}))

\* ixgbe_get_netlist_info
NetlistInfo(s, sel) ==
    Then(ReadModule(s, sel, "netlist", 0, 1), LAMBDA a :
    Then(IF Word(a) = Topo THEN ReadModule(a, sel, "netlist", 1, 1)
                           ELSE Refused(a), LAMBDA b :
    Then(IF Word(b) >= IdBlk THEN ReadModule(b, sel, "netlist", 2, 1)
                             ELSE Refused(b), LAMBDA c :
    Then(ReadModule(c, sel, "netlist", 5 + (2 * Word(c)), IdBlk), LAMBDA d :
        {[d EXCEPT !.info.netlist = [ver |-> d.v[1], hash |-> d.v[2]]]}))))

\* ixgbe_discover_flash_size: the smallest offset that cannot be read, found
\* by halving.
Discover[lo \in 0 .. MaxOffset + 1, hi \in 0 .. MaxOffset + 1] ==
    LET mid == (lo + hi) \div 2
    IN IF hi - lo <= 1 THEN hi
       ELSE IF mid < FlashSize THEN Discover[mid, hi] ELSE Discover[lo, mid]

\* ixgbe_read_sr_pointer, ixgbe_read_sr_area_size
SrPointer(x) == IF x >= Flag4K THEN (x - Flag4K) * Unit ELSE x
AreaSize(x) == x * Unit

Bit(x, b) == (x \div b) % 2

\* ixgbe_determine_active_flash_banks
FlashBanks(s) ==
    LET Place(S, m, o) ==
            Then(S, LAMBDA x :
            Then(Read(x, o, 1), LAMBDA p :
            Then(Read([p EXCEPT !.d.ptr[m] = SrPointer(Word(p))], o + 1, 1),
                 LAMBDA z : {[z EXCEPT !.d.size[m] = AreaSize(Word(z))]})))
        Bits == Then(Read(s, 0, 1), LAMBDA c :
                   IF Bit(Word(c), 64) # 1 THEN Refused(c)
                   ELSE {[c EXCEPT !.d.bank =
                           [nvm |-> 1 + Bit(Word(c), 32),
                            orom |-> 1 + Bit(Word(c), 8),
                            netlist |-> 1 + Bit(Word(c), 16)]]})
    IN Place(Place(Place(Bits, "nvm", 1), "orom", 3), "netlist", 5)

\* ixgbe_init_nvm; the versions of the Option ROM and of the netlist are not
\* required.
InitNvm(s) ==
    LET sized == Fails(s) \cup
                 {[s EXCEPT !.d.flash_size = Discover[0, MaxOffset + 1]]}
    IN Then(sized, LAMBDA a :
       Then(FlashBanks(a), LAMBDA b :
       Then(NvmVerInfo(b, "active"), LAMBDA c :
       Ignoring(OromVerInfo(c, "active"), LAMBDA d :
       Ignoring(NetlistInfo(d, "active"), LAMBDA e : {e})))))

-----------------------------------------------------------------------------
NoInfo == [nvm |-> [ver |-> 0, eetrack |-> 0, srev |-> 0],
           orom |-> [ver |-> 0, srev |-> 0],
           netlist |-> [ver |-> 0, hash |-> 0]]

NotTold == [sound |-> FALSE, running |-> NoInfo, stored |-> NoInfo]

Request(info) == [d |-> drv.place, info |-> info, err |-> FALSE, v |-> <<>>,
                  lost |-> FALSE, t |-> MaxTrouble - ntrouble]

\* No read of the request failed, ignored or not.
Sound(s) == ~s.err /\ ~s.lost /\ s.t = MaxTrouble - ntrouble

Init ==
    /\ flash = [m \in Modules |-> [b \in Banks |-> ActiveNow]]
    /\ active = [m \in Modules |-> 1]
    /\ pending = {}
    /\ minsrev = [nvm |-> 0, orom |-> 0]
    /\ drv = [place |-> [bank |-> [m \in Modules |-> 0],
                         ptr |-> [m \in Modules |-> 0],
                         size |-> [m \in Modules |-> 0], flash_size |-> 0],
              info |-> NoInfo]
    /\ stale = TRUE
    /\ phase = "down"
    /\ told = NotTold
    /\ nupdates = 0
    /\ ntrouble = 0

\* ixgbe_refresh_fw_version, and the same call in the probe.
Refresh ==
    /\ \E s \in InitNvm(Request(drv.info)) :
          /\ drv' = [place |-> s.d, info |-> s.info]
          /\ stale' = (stale /\ ~Sound(s))
          /\ ntrouble' = MaxTrouble - s.t
    /\ phase' = "ready"
    /\ UNCHANGED <<flash, active, pending, minsrev, told, nupdates>>

\* ixgbe_probe goes on when ixgbe_init_nvm fails.
Probe == phase = "down" /\ Refresh

\* A flash update by any function of the device (external): the inactive
\* bank of a module is written and used after the next reset.  The firmware
\* refuses an image below the minimum security revision.
Update(m, c) ==
    /\ phase = "ready" /\ nupdates < MaxUpdates
    /\ (m \in DOMAIN minsrev) => minsrev[m] <= c.srev
    /\ flash' = [flash EXCEPT ![m][3 - active[m]] = c]
    /\ pending' = pending \cup {m}
    /\ nupdates' = nupdates + 1
    /\ told' = NotTold
    /\ UNCHANGED <<active, minsrev, drv, stale, phase, ntrouble>>

\* The reset of the embedded processor (external).
EmpReset ==
    /\ active' = [m \in Modules |-> IF m \in pending THEN 3 - active[m]
                                                    ELSE active[m]]
    /\ pending' = {}
    /\ stale' = TRUE
    /\ told' = NotTold
    /\ UNCHANGED <<flash, minsrev, drv, nupdates, ntrouble>>

\* ixgbe_devlink_reload_empr_start
ReloadStart ==
    /\ phase = "ready" /\ pending # {}
    /\ EmpReset
    /\ phase' = "empr"

\* Another function of the device does the same.
OtherReload ==
    /\ phase = "ready" /\ pending # {}
    /\ EmpReset
    /\ UNCHANGED phase

\* ixgbe_devlink_reload_empr_finish
ReloadFinish == phase = "empr" /\ Refresh

ReloadTimeout ==
    /\ phase = "empr" /\ ntrouble < MaxTrouble
    /\ phase' = "ready"
    /\ ntrouble' = ntrouble + 1
    /\ UNCHANGED <<flash, active, pending, minsrev, drv, stale, told,
                   nupdates>>

\* ixgbe_devlink_info_get: the inactive bank of each module with a pending
\* update; when it cannot be read the running version stands for it.
Inactive(s, m) ==
    CASE m = "nvm" -> NvmVerInfo(s, "inactive")
      [] m = "orom" -> OromVerInfo(s, "inactive")
      [] m = "netlist" -> NetlistInfo(s, "inactive")

Pending(S, m) ==
    UNION {IF m \in pending
           THEN {[t EXCEPT !.err = FALSE,
                           !.read = IF t.err THEN @ ELSE @ \cup {m},
                           !.lost = @ \/ t.err] : t \in Inactive(s, m)}
           ELSE {s} : s \in S}

\* The table of versions: the getter, or its fallback.  The getter of the
\* stored netlist version reads the running one.
Stored(s) ==
    [nvm |-> IF "nvm" \in s.read THEN s.info.nvm ELSE drv.info.nvm,
     orom |-> IF "orom" \in s.read THEN s.info.orom ELSE drv.info.orom,
     netlist |-> [ver |-> drv.info.netlist.ver,
                  hash |-> IF "netlist" \in s.read THEN s.info.netlist.hash
                           ELSE drv.info.netlist.hash]]

InfoGet ==
    /\ phase = "ready"
    /\ LET s0 == [read |-> {}] @@ Request(NoInfo)
       IN \E s \in Pending(Pending(Pending({s0}, "orom"), "nvm"), "netlist") :
             /\ told' = [sound |-> Sound(s) /\ ~stale,
                         running |-> drv.info, stored |-> Stored(s)]
             /\ ntrouble' = MaxTrouble - s.t
    /\ UNCHANGED <<flash, active, pending, minsrev, drv, stale, phase,
                   nupdates>>

\* ixgbe_devlink_minsrev_validate and ixgbe_devlink_minsrev_set, which devlink
\* calls one after the other.
ValidAny(m, x) == x <= drv.info[m].srev
Valid(m, x) == minsrev[m] <= x /\ x <= drv.info[m].srev

SetMinsrev(m, x) ==
    /\ phase = "ready"
    /\ Valid(m, x)
    /\ minsrev' = [minsrev EXCEPT ![m] = x]
    /\ UNCHANGED <<flash, active, pending, drv, stale, phase, told, nupdates,
                   ntrouble>>

Next ==
    \/ Probe
    \/ \E m \in Modules, c \in Contents : Update(m, c)
    \/ ReloadStart
    \/ OtherReload
    \/ ReloadFinish
    \/ ReloadTimeout
    \/ InfoGet
    \/ \E m \in {"nvm", "orom"}, x \in 1 .. 2 : SetMinsrev(m, x)

Spec == Init /\ [][Next]_xvars

-----------------------------------------------------------------------------
(* Properties.                                                             *)

TypeOK ==
    /\ flash \in [Modules -> [Banks -> Content]]
    /\ active \in [Modules -> Banks]
    /\ pending \subseteq Modules
    /\ minsrev \in [{"nvm", "orom"} -> 0 .. 9]
    /\ phase \in {"down", "ready", "empr"}
    /\ stale \in BOOLEAN /\ told.sound \in BOOLEAN
    /\ nupdates \in 0 .. MaxUpdates /\ ntrouble \in 0 .. MaxTrouble

\* What the banks really hold.
Real(m, b) ==
    LET c == flash[m][b]
    IN CASE m = "nvm" -> [ver |-> c.ver, eetrack |-> EeTrack(c.ver),
                          srev |-> c.srev]
         [] m = "orom" -> [ver |-> c.ver, srev |-> c.srev]
         [] m = "netlist" -> [ver |-> c.ver, hash |-> c.ver + 1]

StoredBank(m) == IF m \in pending THEN 3 - active[m] ELSE active[m]

\* devlink reports the versions that the flash holds: the running ones are
\* those of the active banks, the stored ones those of the banks that the next
\* reset activates (ixgbe_devlink_info_get, ixgbe_get_flash_bank_offset and
\* the readers on them); provided that the driver refreshed its copy since the
\* banks changed and that no read failed.  The stored netlist version is left
\* out, see StoredNetlist.
InfoTrue ==
    told.sound =>
        /\ \A m \in Modules : told.running[m] = Real(m, active[m])
        /\ \A m \in {"nvm", "orom"} : told.stored[m] = Real(m, StoredBank(m))
        /\ told.stored.netlist.hash =
               Real("netlist", StoredBank("netlist")).hash

\* The stored netlist version is that of the pending update, as the comment
\* of ixgbe_info_pending_netlist_ver says.
StoredNetlist ==
    told.sound => told.stored.netlist.ver =
                      Real("netlist", StoredBank("netlist")).ver

\* "Each minimum security revision can only be increased, not decreased", and
\* is never set higher than the security revision of the active component
\* (ixgbe_devlink_minsrev_validate), while the driver's copy is fresh.
MinsrevStep ==
    \A m \in {"nvm", "orom"} :
        minsrev'[m] # minsrev[m] /\ ~stale =>
            /\ minsrev[m] < minsrev'[m]
            /\ minsrev'[m] <= flash[m][active[m]].srev

MinsrevChecked == [][MinsrevStep]_xvars
=============================================================================
