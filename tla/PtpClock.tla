------------------------------ MODULE PtpClock ------------------------------
(***************************************************************************)
(* The PTP hardware clock (ixgbe_ptp.c, ixgbe_ptp_e600.c): a free-running  *)
(* counter in the device (SYSTIME), the kernel's timecounter that turns it *)
(* into nanoseconds, and what the driver does to both.                     *)
(*                                                                         *)
(* A tick is one turn of the service task (2 s; on the E610 one of the     *)
(* clock's worker, 1 s).  Nanoseconds are scaled                           *)
(* to PerTick units a tick at the nominal frequency; the counter advances  *)
(* 2^shift counts a unit.  `due` is what the clock has to show: the time   *)
(* it was set to, adjusted by and reset to, and everything counted since.  *)
(***************************************************************************)
EXTENDS Integers

CONSTANTS
    Boards,       \* subset of {"82599", "X540", "X550", "E610"}
    Mask,         \* the counter of the 82599 and the X540 wraps after Mask
    Mask32,       \* the E610's cyclecounter has 32 bits of nanoseconds
    Period,       \* IXGBE_OVERFLOW_PERIOD, in ticks
    PerTick, Second,
    Rates,        \* frequencies that adjfine asks for, in units a tick
    Flaps,        \* boards whose link goes down and comes up
    Speeds,       \* at one of these speeds
    MaxTicks, MaxCalls

VARIABLES
    board, speed,
    systime,      \* the counter
    inc,          \* what TIMINCA makes it advance in a tick, in units
    shift,        \* adapter->hw_cc.shift: counts in a unit are 2^shift
    mult,         \* adapter->hw_cc.mult of the E610, in units a tick
    cycle_last, nsec,            \* adapter->hw_tc
    last_overflow_check, ticks,
    pps,          \* IXGBE_FLAG2_PTP_PPS_ENABLED
    edge,         \* counts until SYSTIME meets the next programmed edge
    registered,   \* adapter->ptp_clock
    due, calls

pcvars == <<board, speed, systime, inc, shift, mult, cycle_last, nsec,
            last_overflow_check, ticks, pps, edge, registered, due, calls>>

\* ixgbe_ptp_link_speed_adjust
SpeedShift(v) == CASE v = "100M" -> 0 [] v = "1G" -> 1 [] OTHER -> 2

\* ixgbe_ptp_create_clock: boards whose clock drives a pulse per second
HasPps == board \in {"X540", "X550"}

Counts(units) == units * 2^shift

-----------------------------------------------------------------------------
(* The kernel's timecounter                                                *)

CcMask == CASE board = "E610" -> Mask32 [] board = "X550" -> 0 [] OTHER -> Mask

\* A mask of 0 stands for a counter that does not wrap in the life of a device.
Delta(c) ==
    IF CcMask = 0 THEN c - cycle_last ELSE (c - cycle_last) % (CcMask + 1)

\* cyclecounter_cyc2ns; the E610 scales by its multiplier.
ToNs(d) == IF board = "E610" THEN (d * mult) \div PerTick ELSE d \div 2^shift

\* timecounter_read
ReadNs == nsec + ToNs(Delta(systime))

TcRead == nsec' = ReadNs /\ cycle_last' = systime
TcInit(ns) == nsec' = ns /\ cycle_last' = systime

\* timecounter_cyc2time: more than half the range ahead means before.
Cyc2Time(c) ==
    IF CcMask # 0 /\ Delta(c) > CcMask \div 2
    THEN nsec - ToNs(CcMask + 1 - Delta(c))
    ELSE nsec + ToNs(Delta(c))

\* What a caller who asks for the time is told, and the time a stamp that the
\* device takes now is given.
GetTimex == Cyc2Time(systime)
GetTimeE600 == ReadNs
ConvertToHwtstamp == Cyc2Time(systime)

-----------------------------------------------------------------------------
Init ==
    /\ board \in Boards /\ speed = "10G"
    /\ systime = 0 /\ inc = PerTick /\ mult = PerTick
    /\ shift = IF board \in {"82599", "X540"} THEN 2 ELSE 0
    /\ cycle_last = 0 /\ nsec = 0
    /\ last_overflow_check = 0 /\ ticks = 0
    /\ pps = FALSE /\ edge = 0
    /\ registered = TRUE
    /\ due = 0 /\ calls = 0

\* The next full second, in counts from now, when the clock reads ns.  The
\* X550's target is in seconds and nanoseconds of SYSTIME.
SetupSdpX540(ns) == Counts(Second - (ns % Second))
SetupSdpX550(ns) == Second - (ns % Second)

SetupSdp(on, ns) ==
    edge' = CASE on /\ board = "X540" -> SetupSdpX540(ns)
              [] on /\ board = "X550" -> SetupSdpX550(ns)
              [] OTHER -> 0

Call == registered /\ calls < MaxCalls /\ calls' = calls + 1

\* The time is set to a second and a bit later than it is.
SetTimeOnly ==
    /\ Call /\ board # "E610"
    /\ due' = due + Second + 1
    /\ TcInit(due') /\ UNCHANGED edge
    /\ UNCHANGED <<board, speed, systime, inc, shift, mult, last_overflow_check, ticks, pps, registered>>

SetTime ==
    /\ Call /\ board # "E610"
    /\ due' = due + Second + 1
    /\ TcInit(due') /\ SetupSdp(pps, due')
    /\ UNCHANGED <<board, speed, systime, inc, shift, mult, last_overflow_check, ticks, pps, registered>>

SetTimeE600 ==
    /\ Call /\ board = "E610"
    /\ due' = due + Second + 1
    /\ TcInit(due')
    /\ UNCHANGED <<board, speed, systime, inc, shift, mult, last_overflow_check, ticks, pps, edge, registered>>

\* timecounter_adjtime; setting up the pulse reads the timecounter.
AdjTime ==
    /\ Call /\ board # "E610"
    /\ due' = due + 3
    /\ IF HasPps /\ pps
       THEN nsec' = ReadNs + 3 /\ cycle_last' = systime
       ELSE nsec' = nsec + 3 /\ cycle_last' = cycle_last
    /\ SetupSdp(pps, ReadNs + 3)
    /\ UNCHANGED <<board, speed, systime, inc, shift, mult, last_overflow_check, ticks, pps, registered>>

AdjTimeE600 ==
    /\ Call /\ board = "E610"
    /\ due' = due + 3 /\ nsec' = nsec + 3
    /\ UNCHANGED <<board, speed, systime, inc, shift, mult, cycle_last, last_overflow_check, ticks,
                   pps, edge, registered>>

\* The device counts faster or slower: a new increment (ixgbe_ptp_adjfine_82599)
\* or a correction of the X550's fixed one.
AdjFine82599(r) ==
    /\ Call /\ board \in {"82599", "X540"}
    /\ inc' = r
    /\ UNCHANGED <<board, speed, systime, shift, mult, cycle_last, nsec, last_overflow_check,
                   ticks, pps, edge, registered, due>>

AdjFineX550(r) ==
    /\ Call /\ board = "X550"
    /\ inc' = r
    /\ UNCHANGED <<board, speed, systime, shift, mult, cycle_last, nsec, last_overflow_check,
                   ticks, pps, edge, registered, due>>

\* ixgbe_ptp_adjfine_e600: the driver scales; what was counted until now is
\* first turned into time at the old scale.
AdjFineE600Unread(r) ==
    /\ Call /\ board = "E610"
    /\ mult' = r
    /\ UNCHANGED <<board, speed, systime, inc, shift, last_overflow_check, ticks, pps, edge,
                   registered, due, nsec, cycle_last>>

AdjFineE600(r) ==
    /\ Call /\ board = "E610"
    /\ TcRead
    /\ mult' = r
    /\ UNCHANGED <<board, speed, systime, inc, shift, last_overflow_check, ticks, pps, edge,
                   registered, due>>

\* ixgbe_ptp_feature_enable; the pulse's set-up reads the timecounter.
FeatureEnable ==
    /\ Call /\ HasPps
    /\ pps' = ~pps
    /\ IF pps' THEN TcRead ELSE UNCHANGED <<nsec, cycle_last>>
    /\ SetupSdp(pps', ReadNs)
    /\ UNCHANGED <<board, speed, systime, inc, shift, mult, last_overflow_check, ticks, registered, due>>

\* ixgbe_ptp_start_cyclecounter: TIMINCA and the cyclecounter for the link's
\* speed; on the X550 the counter starts again from 0.
Counter(v) ==
    /\ shift' = IF board \in {"82599", "X540"} THEN SpeedShift(v) ELSE shift
    /\ inc' = IF board \in {"82599", "X540"} THEN PerTick ELSE inc
    /\ systime' = IF board = "X550" THEN 0 ELSE systime
    /\ edge' = IF board = "X550" /\ pps THEN edge + systime ELSE edge

\* The clock shows the system's time, one second from here.
Reset ==
    /\ Call /\ board # "E610"
    /\ due' = due + Second
    /\ shift' = IF board = "X550" THEN shift ELSE SpeedShift(speed)
    /\ inc' = IF board = "X550" THEN inc ELSE PerTick
    /\ systime' = IF board = "X550" THEN 0 ELSE systime
    /\ nsec' = due' /\ cycle_last' = systime'
    /\ last_overflow_check' = ticks
    /\ edge' = IF HasPps /\ pps THEN (Second - (due' % Second)) * 2^shift' ELSE 0
    /\ UNCHANGED <<board, speed, mult, ticks, pps, registered>>

StartClockE600 ==
    /\ Call /\ board = "E610"
    /\ due' = due + Second
    /\ systime' = 0 /\ inc' = PerTick /\ mult' = PerTick
    /\ nsec' = due' /\ cycle_last' = 0
    /\ UNCHANGED <<board, speed, shift, last_overflow_check, ticks, pps, edge, registered>>

\* ixgbe_watchdog_link_is_down, then _is_up at the partner's speed
LinkFlap ==
    /\ Call /\ board \in Flaps
    /\ speed' \in Speeds
    /\ IF board = "E610" THEN UNCHANGED <<systime, inc, shift, edge>> ELSE Counter(speed')
    /\ UNCHANGED <<board, mult, cycle_last, nsec, last_overflow_check, ticks, pps, registered, due>>

\* ixgbe_ptp_stop, then ixgbe_ptp_init at the next ixgbe_open: the pulse is
\* off, a new clock shows the system's time.  The E610's clock stays from
\* probe to remove (ixgbe_ptp_init_e600, ixgbe_ptp_release_e600).
Stop ==
    /\ Call /\ board # "E610"
    /\ registered' = FALSE /\ pps' = FALSE /\ edge' = 0
    /\ UNCHANGED <<board, speed, systime, inc, shift, mult, cycle_last, nsec, last_overflow_check,
                   ticks, due>>

PtpInit ==
    /\ ~registered
    /\ registered' = TRUE
    /\ due' = due + Second
    /\ Counter(speed)
    /\ nsec' = due' /\ cycle_last' = systime'
    /\ last_overflow_check' = ticks
    /\ UNCHANGED <<board, speed, mult, ticks, pps, calls>>

\* The service task reads the timecounter once the period is over, the E610's
\* worker at every turn.
OverflowDueLate == ticks > last_overflow_check + Period + 2
OverflowDue == ticks > last_overflow_check + Period

ReadDue == registered /\ (IF board = "E610" THEN cycle_last # systime ELSE OverflowDue)

OverflowCheck ==
    /\ ReadDue /\ board # "E610"
    /\ TcRead
    /\ last_overflow_check' = ticks
    /\ UNCHANGED <<board, speed, systime, inc, shift, mult, ticks, pps, edge, registered, due, calls>>

DoAuxWork ==
    /\ ReadDue /\ board = "E610"
    /\ TcRead
    /\ UNCHANGED <<board, speed, systime, inc, shift, mult, last_overflow_check, ticks, pps, edge,
                   registered, due, calls>>

\* Time passes; a turn of the service task that found the clock due to be read
\* has read it before the next one.
Tick ==
    /\ ticks < MaxTicks /\ ~ReadDue
    /\ ticks' = ticks + 1
    /\ LET s == systime + Counts(inc) IN systime' = IF CcMask = 0 THEN s ELSE s % (CcMask + 1)
    /\ due' = due + (IF board = "E610" THEN mult ELSE inc)
    /\ edge' = IF pps THEN (edge - Counts(inc)) % Counts(Second) ELSE edge
    /\ UNCHANGED <<board, speed, inc, shift, mult, cycle_last, nsec, last_overflow_check, pps,
                   registered, calls>>

Next ==
    \/ SetTime \/ SetTimeE600 \/ AdjTime \/ AdjTimeE600
    \/ \E r \in Rates : AdjFine82599(r) \/ AdjFineX550(r) \/ AdjFineE600(r)
    \/ FeatureEnable \/ Reset \/ StartClockE600 \/ LinkFlap \/ Stop \/ PtpInit
    \/ Tick \/ OverflowCheck \/ DoAuxWork

Spec == Init /\ [][Next]_pcvars

-----------------------------------------------------------------------------
TypeOK ==
    /\ registered \in BOOLEAN /\ pps \in BOOLEAN
    /\ shift \in 0..2 /\ last_overflow_check \in 0..ticks

\* However the clock is set, adjusted, slowed down or sped up, reset and
\* restarted, reading it (ixgbe_ptp_gettimex, _gettime_e600) and converting a
\* stamp the device has just taken (ixgbe_ptp_convert_to_hwtstamp) give the
\* time that is due: no wrap of SYSTIME between two overflow checks, and no
\* change of scale, makes it jump; and the pulse of ixgbe_ptp_setup_sdp stays
\* on the full second.  It fails where the link comes and goes on an X550, or
\* comes back at another speed on an 82599 or an X540.
ClockTrue ==
    registered => /\ (IF board = "E610" THEN GetTimeE600 ELSE GetTimex) = due
                  /\ ConvertToHwtstamp = due
                  /\ pps => (due + (edge \div 2^shift)) % Second = 0
=============================================================================
