------------------------------- MODULE Eeprom -------------------------------
(***************************************************************************)
(* Writing the EEPROM with ethtool. On 82599 the words go to an SPI chip   *)
(* in bursts that must not cross one of its pages; the page size is        *)
(* guessed by a marching write the first time a large buffer is written.   *)
(* On X540 (EEWR register) and X550 (host interface) they go to a shadow   *)
(* RAM that is dumped to flash after its checksum was updated. Power may   *)
(* be lost between any two steps, and the firmware may refuse the          *)
(* semaphore or not answer. The caller holds rtnl: one request at a time.  *)
(***************************************************************************)
EXTENDS Integers, Sequences, FiniteSetsExt

CONSTANTS
    Kinds,      \* \subseteq {"82599", "X540", "X550"}
    Byte,       \* a word is two bytes, each in 0..Byte-1
    Size,       \* eeprom.word_size
    Csum, Last, \* IXGBE_EEPROM_CHECKSUM, IXGBE_EEPROM_LAST_WORD
    Ptrs,       \* the words that point to sections (PCIE_ANALOG_PTR..FW_PTR)
    Sized,      \* X550: pointers to sections of a fixed size, and that size
    Image,      \* the words the board is shipped with, but for the checksum
    Writes,     \* requests: [off, len, fill], in bytes
    ChipPage,   \* the page size of the SPI chip. External.
    PageMax,    \* IXGBE_EEPROM_PAGE_SIZE_MAX
    ChunkMax,   \* IXGBE_EEPROM_RD_BUFFER_MAX_COUNT
    MaxWrites, MaxFaults

VARIABLES
    ekind,  \* the MAC
    mem,    \* 82599: the chip; otherwise the shadow RAM
    flash,  \* X540, X550: the flash. 82599: unused
    page,   \* eeprom.word_page_size, 0 when not known
    job,    \* the request being served: see Job
    probed, \* the checksum was valid at the last probe
    writes, efaults

evars == <<ekind, mem, flash, page, job, probed, writes, efaults>>

Base == Byte * Byte
Bad == Base - 1                   \* 0xFFFF
Words == 0..(Size - 1)
Lesser(a, b) == IF a < b THEN a ELSE b

-----------------------------------------------------------------------------
(* Checksums. Failed: a read was refused.                                  *)
Failed == -1

Skipped == {0, Bad}

\* The words of the section behind pointer i of the words m, after its length;
\* {} if it is skipped. The 82599 trusts the pointer and the length.
Counted(m, p) == (p + 1)..(p + m[p])
Section82599(m, i) ==
    LET p == m[i] IN
    CASE p \in Skipped -> {}
      [] p >= Size -> {p}
      [] m[p] \in Skipped -> {}
      [] OTHER -> Counted(m, p)
SectionX540(m, i) ==
    LET p == m[i] IN
    IF p \in Skipped \/ p >= Size THEN {}
    ELSE IF m[p] \in Skipped \/ m[p] > Size - p THEN {} ELSE Counted(m, p)
SectionX550(m, i) ==
    LET p == m[i] IN
    IF p \in Skipped \/ p >= Size THEN {}
    ELSE IF i \in DOMAIN Sized THEN p..(p + Sized[i] - 1)
    ELSE IF m[p] \in Skipped \/ m[p] > Size - p THEN {} ELSE Counted(m, p)

\* What is missing to a multiple of 2^16 from the words of the header and those
\* of the sections.
SumOf(m, header, Section(_, _)) ==
    IF \E i \in Ptrs : ~(Section(m, i) \subseteq Words) THEN Failed
    ELSE LET word(x) == m[x]
             behind(i) == MapThenSumSet(word, Section(m, i))
             sum == MapThenSumSet(word, header) + MapThenSumSet(behind, Ptrs)
         IN (Base * Base * Size - sum) % Base

CalcGeneric(m) == SumOf(m, 0..(Csum - 1), Section82599)
CalcX540(m) == SumOf(m, 0..(Csum - 1), SectionX540)
CalcX550(m) == SumOf(m, (0..Last) \ {Csum}, SectionX550)

CalcChecksum(k, m) ==
    CASE k = "82599" -> CalcGeneric(m) [] k = "X540" -> CalcX540(m) [] OTHER -> CalcX550(m)

ValidGeneric(m) == CalcGeneric(m) = m[Csum]
ValidX540(m) == CalcX540(m) = m[Csum]
ValidX550(m) == CalcX550(m) = m[Csum]

Valid(k, m) ==
    CASE k = "82599" -> ValidGeneric(m) [] k = "X540" -> ValidX540(m) [] OTHER -> ValidX550(m)

-----------------------------------------------------------------------------
Idle == [ph |-> "idle"]

\* ph: "march" finds the page size, "write" writes, "sum" updates the checksum.
Job(ph, first, data, before) ==
    [ph |-> ph, first |-> first, data |-> data, i |-> 0, before |-> before]

Born(k) == LET m == [x \in Words |-> Image[x + 1]]
           IN [m EXCEPT ![Csum] = CalcChecksum(k, m)]

Init ==
    /\ ekind \in Kinds
    /\ mem = Born(ekind)
    /\ flash = mem
    /\ page = 0
    /\ job = Idle
    /\ probed = TRUE
    /\ writes = 0 /\ efaults = 0

Fault == efaults < MaxFaults /\ efaults' = efaults + 1

\* ixgbe_set_eeprom: the words of the buffer; a first or last word that is
\* written only in part keeps its other byte.
Merged(w, m) ==
    [x \in 1..((w.off + w.len - 1) \div 2 - w.off \div 2 + 1) |->
        LET a == w.off \div 2 + x - 1
            kept(b, v) == IF 2 * a + b \in w.off..(w.off + w.len - 1) THEN w.fill ELSE v
        IN kept(0, m[a] % Byte) + Byte * kept(1, m[a] \div Byte)]

\* ixgbe_set_eeprom up to the write, with the head of
\* ixgbe_write_eeprom_buffer_bit_bang_generic.
SetEeprom(w) ==
    LET first == w.off \div 2
        data == Merged(w, mem)
        march == ekind = "82599" /\ page = 0 /\ Len(data) > PageMax
    IN /\ job = Idle /\ probed
       /\ writes < MaxWrites /\ writes' = writes + 1
       /\ job' = Job(IF march THEN "march" ELSE "write", first, data, mem)
       /\ UNCHANGED <<ekind, mem, flash, page, probed, efaults>>

\* A read of a boundary word fails: nothing is written.
SetEepromFails(w) ==
    /\ job = Idle /\ probed
    /\ w.off % 2 = 1 \/ (w.off + w.len) % 2 = 1
    /\ Fault
    /\ UNCHANGED <<ekind, mem, flash, page, job, probed, writes>>

-----------------------------------------------------------------------------
(* The SPI chip: a burst stays in the page of its first word. External.    *)
ChipWrite(m, a, words) ==
    LET at(n) == (a \div ChipPage) * ChipPage + ((a + n - 1) % ChipPage)
        hits(x) == {n \in DOMAIN words : at(n) = x}
    IN [x \in Words |-> IF hits(x) = {} THEN m[x] ELSE words[Max(hits(x))]]

\* How many words the do-while of ixgbe_write_eeprom_buffer_bit_bang sends
\* from word a of the chip with n words left: to the end of the page. And a
\* form that does not stop there.
BurstAll(a, n, pg) == IF pg = 0 THEN 1 ELSE Lesser(n, pg)
BurstLen(a, n, pg) == IF pg = 0 THEN 1 ELSE Lesser(n, pg - (a % pg))

Marching == [n \in 1..PageMax |-> n - 1]

\* ixgbe_acquire_eeprom or ixgbe_ready_eeprom fail, at the head of a chunk.
Acquires(i) == i % ChunkMax = 0

\* One burst of ixgbe_detect_eeprom_page_size_generic. After the last, the
\* first word is read back: what it holds tells where the chip wrapped.
March ==
    /\ job.ph = "march"
    /\ LET a == job.first + job.i
           n == BurstLen(a, PageMax - job.i, PageMax)
           m == ChipWrite(mem, a, SubSeq(Marching, job.i + 1, job.i + n))
       IN /\ mem' = m
          /\ IF job.i + n < PageMax
             THEN job' = [job EXCEPT !.i = @ + n] /\ UNCHANGED page
             ELSE /\ job' = [job EXCEPT !.ph = "write", !.i = 0]
                  /\ page' = PageMax - m[job.first]
    /\ UNCHANGED <<ekind, flash, probed, writes, efaults>>

\* The first write or the read back is refused: written without a page size.
MarchFails ==
    /\ job.ph = "march" /\ job.i = 0
    /\ Fault
    /\ job' = [job EXCEPT !.ph = "write"]
    /\ UNCHANGED <<ekind, mem, flash, page, probed, writes>>

\* n words are written, and the memory becomes m; after the last the checksum
\* is updated.
Written(n, m) ==
    /\ mem' = m
    /\ job' = IF job.i + n < Len(job.data) THEN [job EXCEPT !.i = @ + n]
              ELSE [job EXCEPT !.ph = "sum"]
    /\ UNCHANGED <<ekind, flash, page, probed, writes, efaults>>

\* A burst of ixgbe_write_eeprom_buffer_bit_bang, in its chunk.
WriteSpi ==
    /\ ekind = "82599" /\ job.ph = "write"
    /\ LET a == job.first + job.i
           left == Lesser(Len(job.data) - job.i, ChunkMax - (job.i % ChunkMax))
           n == BurstLen(a, left, page)
       IN Written(n, ChipWrite(mem, a, SubSeq(job.data, job.i + 1, job.i + n)))

\* A word of ixgbe_write_eewr_buffer_generic.
WriteEewr ==
    /\ ekind = "X540" /\ job.ph = "write"
    /\ Written(1, [mem EXCEPT ![job.first + job.i] = job.data[job.i + 1]])

\* A word of ixgbe_write_ee_hostif_buffer_X550: a command to the firmware.
HostifData(m, a, word) == [m EXCEPT ![a] = word]
WriteHostif ==
    /\ ekind = "X550" /\ job.ph = "write"
    /\ Written(1, HostifData(mem, job.first + job.i, job.data[job.i + 1]))

\* The semaphore is refused (82599: at any chunk), or a word times out.
WriteFails ==
    /\ job.ph = "write"
    /\ ekind # "82599" \/ Acquires(job.i)
    /\ Fault
    /\ job' = Idle
    /\ UNCHANGED <<ekind, mem, flash, page, probed, writes>>

\* ixgbe_update_eeprom_checksum_*: the checksum of what the words are now, and
\* on X540 and X550 the dump to flash. A form that dumps before it writes:
DumpFirst(m, sum) == m
Dump(m, sum) == [m EXCEPT ![Csum] = sum]

Updated(sum) ==
    /\ job.ph = "sum"
    /\ sum # Failed
    /\ mem' = [mem EXCEPT ![Csum] = sum]
    /\ job' = Idle
    /\ UNCHANGED <<ekind, page, probed, writes, efaults>>

UpdateGeneric ==
    /\ ekind = "82599" /\ Updated(CalcGeneric(mem))
    /\ UNCHANGED flash
UpdateX540 ==
    /\ ekind = "X540" /\ Updated(CalcX540(mem))
    /\ flash' = Dump(mem, CalcX540(mem))
UpdateX550 ==
    /\ ekind = "X550" /\ Updated(CalcX550(mem))
    /\ flash' = Dump(mem, CalcX550(mem))

\* It fails before the write or before the dump; ixgbe_set_eeprom ignores it.
UpdateFails ==
    /\ job.ph = "sum"
    /\ job' = Idle
    /\ LET sum == CalcChecksum(ekind, mem) IN
       \/ sum = Failed /\ UNCHANGED <<mem, efaults>>
       \/ sum # Failed /\ Fault /\ UNCHANGED mem
       \/ sum # Failed /\ Fault /\ ekind # "82599" /\ mem' = [mem EXCEPT ![Csum] = sum]
    /\ UNCHANGED <<ekind, flash, page, probed, writes>>

\* Power is lost: the shadow RAM is loaded from flash, and the driver probes
\* (ixgbe_validate_eeprom_checksum_*).
PowerCycle ==
    /\ mem' = IF ekind = "82599" THEN mem ELSE flash
    /\ job' = Idle
    /\ page' = 0
    /\ probed' = Valid(ekind, mem')
    /\ <<mem', job', page', probed'>> # <<mem, job, page, probed>>
    /\ UNCHANGED <<ekind, flash, writes, efaults>>

Next ==
    \/ \E w \in Writes : SetEeprom(w) \/ SetEepromFails(w)
    \/ March \/ MarchFails \/ WriteSpi \/ WriteEewr \/ WriteHostif \/ WriteFails
    \/ UpdateGeneric \/ UpdateX540 \/ UpdateX550 \/ UpdateFails \/ PowerCycle

Spec == Init /\ [][Next]_evars

-----------------------------------------------------------------------------
TypeOK ==
    /\ ekind \in Kinds
    /\ mem \in [Words -> 0..(Base - 1)] /\ flash \in [Words -> 0..(Base - 1)]
    /\ page \in 0..PageMax
    /\ job.ph \in {"idle", "march", "write", "sum"}
    /\ probed \in BOOLEAN

\* A write that ixgbe_set_eeprom reports as done has put its words in place
\* and has left every other word alone, whatever the page size of the chip.
WritesLand ==
    job.ph = "sum" =>
    \A x \in Words :
        mem[x] = IF x - job.first \in 0..(Len(job.data) - 1)
                 THEN job.data[x - job.first + 1] ELSE job.before[x]

\* Wherever power is lost, the image in the flash of an X540 or X550 has a
\* valid checksum: it is only written from a shadow RAM that has one.
FlashWhole == ekind # "82599" => Valid(ekind, flash) /\ probed
=============================================================================
