------------------------------- MODULE I2cBus -------------------------------
(***************************************************************************)
(* Reading and writing the EEPROM of a pluggable module over I2C, driven   *)
(* bit by bit through the I2CCTL register (ixgbe_phy.c).                   *)
(*                                                                         *)
(* The driver is the bus master. The module (external) follows the I2C     *)
(* protocol: it sees START and STOP conditions, samples SDA on rising      *)
(* clock edges and changes its own output on falling ones. Both ends pull  *)
(* SDA low, so the line is the minimum of the two. Once in a while the     *)
(* module loses a clock edge and is out of step with the master; the       *)
(* master finds out, if it does, by a bit it cannot raise or a missing     *)
(* acknowledge, clears the bus and tries again. A byte has Bits bits.      *)
(***************************************************************************)
EXTENDS Integers, SequencesExt

CONSTANTS
    Bits,           \* bits of a byte (8 in the code)
    MaxRetry,       \* max_retry of a read; a write retries once
    LoseMax,        \* bound: the module may lose one of the first edges
    MaxJobs         \* bound: transactions

VARIABLES
    bus,            \* the lines and the module, see Bus0
    mem,            \* the module's registers
    call,           \* the transaction running, or the last one
    lost,           \* an edge may be lost during this transaction, and was
    before,         \* during the one before it
    jobs

ivars == <<bus, mem, call, lost, before, jobs>>

Byte == 0 .. 2^Bits - 1
BitsOf(v) == [i \in 1..Bits |-> (v \div 2^(Bits - i)) % 2]
ValueOf(s) == FoldLeft(LAMBDA acc, b : (2 * acc) + b, 0, s)

\* The module's bus address, its top bit set as in 0xA0; the lowest bit says
\* read.
DevAddr == 2^(Bits - 1)

\* mda, scl: what the master drives. mode, sh, n, out, ptr: the module's shift
\* register, the clocks of this byte, its own SDA and its address counter.
\* lose: the number of the clock edge it will miss, 0 for none.
Bus0 == [mda |-> 1, scl |-> 1, mode |-> "idle", sh |-> <<>>, n |-> 0, out |-> 1,
         ptr |-> 0, lose |-> 0, wrote |-> <<>>]

Sda(b) == IF b.mda = 0 \/ b.out = 0 THEN 0 ELSE 1

---------------------------------------------------------------------------
(* The module. (external)                                                  *)

Receiving(b) == b.mode \in {"addr", "reg", "data"}

Rise(b) ==
    IF Receiving(b) /\ b.n < Bits THEN [b EXCEPT !.sh = Append(@, Sda(b)), !.n = @ + 1]
    ELSE IF b.mode \in {"addr", "reg", "data", "send"}
         THEN [b EXCEPT !.n = @ + 1, !.sh = IF b.mode = "send" /\ b.n = Bits
                                            THEN <<Sda(b)>> ELSE @]
         ELSE b

Sending(b) == [b EXCEPT !.mode = "send", !.n = 0, !.sh = <<>>,
                        !.out = BitsOf(mem[b.ptr])[1]]

\* The byte and its acknowledge are over.
ByteDone(b) ==
    LET v == ValueOf(b.sh)
        next == [b EXCEPT !.n = 0, !.sh = <<>>, !.out = 1]
    IN  CASE b.mode = "addr" /\ v = DevAddr -> [next EXCEPT !.mode = "reg"]
          [] b.mode = "addr" /\ v = DevAddr + 1 -> Sending(next)
          [] b.mode = "addr" /\ v \notin {DevAddr, DevAddr + 1} ->
                 [next EXCEPT !.mode = "deaf"]
          [] b.mode = "reg" -> [next EXCEPT !.mode = "data", !.ptr = v]
          [] b.mode = "data" -> [next EXCEPT !.wrote = <<b.ptr, v>>]

Fall(b) ==
    CASE Receiving(b) /\ b.n = Bits ->
             IF b.mode = "addr" /\ ValueOf(b.sh) \notin {DevAddr, DevAddr + 1}
             THEN [b EXCEPT !.mode = "deaf"] ELSE [b EXCEPT !.out = 0]
      [] Receiving(b) /\ b.n > Bits -> ByteDone(b)
      [] b.mode = "send" /\ b.n < Bits -> [b EXCEPT !.out = BitsOf(mem[b.ptr])[b.n + 1]]
      [] b.mode = "send" /\ b.n = Bits -> [b EXCEPT !.out = 1]
      [] b.mode = "send" /\ b.n > Bits ->
             IF b.sh = <<0>> THEN Sending([b EXCEPT !.ptr = (@ + 1) % 2^Bits])
             ELSE [b EXCEPT !.mode = "deaf", !.out = 1]
      [] OTHER -> b

\* SDA moving while SCL is high is a START or a STOP.
Condition(b, was) ==
    IF b.scl = 0 \/ Sda(b) = was THEN b
    ELSE IF Sda(b) = 0 THEN [b EXCEPT !.mode = "addr", !.n = 0, !.sh = <<>>, !.out = 1]
    ELSE [b EXCEPT !.mode = "idle", !.n = 0, !.sh = <<>>, !.out = 1]

Edge(b, F(_)) ==
    CASE b.lose = 0 -> F(b)
      [] b.lose = 1 -> [b EXCEPT !.lose = 0]
      [] b.lose > 1 -> F([b EXCEPT !.lose = @ - 1])

---------------------------------------------------------------------------
(* The master: ixgbe_set_i2c_data, ixgbe_raise_i2c_clk and                 *)
(* ixgbe_lower_i2c_clk, and what is built from them.                       *)

Data(b, v) == Condition([b EXCEPT !.mda = v], Sda(b))
Raise(b) == IF b.scl = 1 THEN b ELSE Edge([b EXCEPT !.scl = 1], Rise)
Lower(b) == IF b.scl = 0 THEN b ELSE Edge([b EXCEPT !.scl = 0], Fall)

\* ixgbe_i2c_start and ixgbe_i2c_stop.
I2cStart(b) == Lower(Data(Raise(Data(b, 1)), 0))
I2cStop(b) == Data(Raise(Data(b, 0)), 1)

\* The state of a try: the bus, whether a step failed, and the byte read.
\* ixgbe_clock_out_i2c_bit: a one that does not read back fails the try.
Clocked(t, v, b) ==
    IF v = 1 /\ Sda(b) = 0 THEN [t EXCEPT !.b = b, !.ok = FALSE]
    ELSE [t EXCEPT !.b = Lower(Raise(b))]
OutBit(t, v) == IF t.ok THEN Clocked(t, v, Data(t.b, v)) ELSE t

\* ixgbe_clock_out_i2c_byte, which releases SDA, then ixgbe_get_i2c_ack.
Released(t) == [t EXCEPT !.b = Data(@, 1)]
Acked(t, b) == [t EXCEPT !.b = Lower(b), !.ok = (Sda(b) = 0)]
GetAck(t) == IF t.ok THEN Acked(t, Raise(Data(t.b, 1))) ELSE t
OutByte(t, v) == IF t.ok THEN GetAck(Released(FoldLeft(OutBit, t, BitsOf(v)))) ELSE t

\* ixgbe_clock_in_i2c_bit and ixgbe_clock_in_i2c_byte.
Sampled(t, b) == [t EXCEPT !.b = Lower(b), !.data = (2 * @) + Sda(b)]
InBit(t, i) == Sampled(t, Raise(Data(t.b, 1)))
InByte(t) == IF t.ok THEN FoldLeft(InBit, [t EXCEPT !.data = 0], BitsOf(0)) ELSE t

Started(t) == IF t.ok THEN [t EXCEPT !.b = I2cStart(@)] ELSE t

\* ixgbe_i2c_bus_clear: START, nine clocks with SDA released, START, STOP.
BusClear(b) ==
    LET pulse(x, i) == Lower(Raise(x))
    IN  I2cStop(I2cStart(FoldLeft(pulse, Data(I2cStart(b), 1), [i \in 1..(Bits + 1) |-> i])))

\* One try of ixgbe_read_i2c_byte_generic_int: address and register, START
\* again, address with the read bit, the byte, and a NACK.
TryReadAck(b, reg) ==
    LET t0 == [b |-> I2cStart(b), ok |-> TRUE, data |-> 0]
        t1 == OutByte(OutByte(t0, DevAddr), reg)
        t2 == OutByte(Started(t1), DevAddr + 1)
    IN  OutBit(InByte(t2), 0)
TryRead(b, reg) ==
    LET t0 == [b |-> I2cStart(b), ok |-> TRUE, data |-> 0]
        t1 == OutByte(OutByte(t0, DevAddr), reg)
        t2 == OutByte(Started(t1), DevAddr + 1)
    IN  OutBit(InByte(t2), 1)

\* One try of ixgbe_write_i2c_byte_generic_int.
TryWrite(b, reg, v) ==
    LET t0 == [b |-> I2cStart(b), ok |-> TRUE, data |-> 0]
    IN  OutByte(OutByte(OutByte(t0, DevAddr), reg), v)

---------------------------------------------------------------------------
Init ==
    /\ bus = Bus0
    /\ mem = [r \in Byte |-> (r + 2) % 2^Bits]
    /\ call = [op |-> "none", reg |-> 0, val |-> 0, state |-> "done", retry |-> 0,
               got |-> 0]
    /\ lost = FALSE /\ before = FALSE /\ jobs = 0

\* A transaction starts; the module may lose an edge in the course of it.
Begin(op, r, v, k) ==
    /\ call.state # "busy" /\ jobs < MaxJobs /\ jobs' = jobs + 1
    /\ call' = [op |-> op, reg |-> r, val |-> v, state |-> "busy", retry |-> 0,
                got |-> 0]
    /\ bus' = [bus EXCEPT !.lose = k]
    /\ lost' = (k > 0) 
    /\ before' = (lost \/ (before /\ call.state = "locked_out"))
    /\ UNCHANGED mem

\* The semaphore cannot be had: a read asks for it at every try, a write once.
SwfwSync ==
    /\ call.state = "busy" /\ call.op = "write" => call.retry = 0
    /\ call' = [call EXCEPT !.state = "locked_out"]
    /\ UNCHANGED <<bus, mem, lost, before, jobs>>

\* One try. A success sends STOP; a failure clears the bus and, while retries
\* are left, is followed by another try.
Attempt ==
    /\ call.state = "busy"
    /\ \E t \in {IF call.op = "read" THEN TryRead(bus, call.reg)
                 ELSE TryWrite(bus, call.reg, call.val)} :
       \E b \in {IF t.ok THEN I2cStop(t.b) ELSE BusClear(t.b)} :
       LET max == IF call.op = "read" THEN MaxRetry ELSE 1
       IN  /\ bus' = [b EXCEPT !.wrote = <<>>]
           /\ mem' = IF b.wrote = <<>> THEN mem
                     ELSE [mem EXCEPT ![b.wrote[1]] = b.wrote[2]]
           /\ call' = IF t.ok THEN [call EXCEPT !.state = "done", !.got = t.data]
                      ELSE IF call.retry < max THEN [call EXCEPT !.retry = @ + 1]
                      ELSE [call EXCEPT !.state = "failed"]
    /\ UNCHANGED <<lost, before, jobs>>

Next == \/ \E op \in {"read", "write"}, r \in {0, 1}, k \in 0..LoseMax :
              Begin(op, r, 1, k)
        \/ SwfwSync
        \/ Attempt

Spec == Init /\ [][Next]_ivars

---------------------------------------------------------------------------
TypeOK ==
    /\ bus.mda \in {0, 1} /\ bus.scl \in {0, 1} /\ bus.out \in {0, 1}
    /\ mem \in [Byte -> Byte] /\ call.retry \in 0..MaxRetry
    /\ call.state \in {"done", "busy", "failed", "locked_out"}

\* A transaction in which the module loses no clock edge succeeds, in whatever
\* state the one before left the module, because a bus clear brings it back in
\* step; and when nothing was lost in the one before either, it reads what the
\* register holds and writes what it was given
\* (ixgbe_read_i2c_byte_generic_int, ixgbe_i2c_bus_clear).
BusRecovers ==
    (~lost /\ call.op # "none") =>
        /\ call.state # "failed"
        /\ (call.state = "done" /\ ~before) =>
               IF call.op = "read" THEN call.got = mem[call.reg]
               ELSE mem[call.reg] = call.val
=============================================================================
