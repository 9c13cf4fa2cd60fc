------------------------------- MODULE FwLog -------------------------------
(***************************************************************************)
(* Firmware logging and debug dump of the E610 (ixgbe_e610.c, the fwlog    *)
(* part of ixgbe_main.c and ixgbe_debugfs.c): the log configuration kept   *)
(* by the firmware and cached in hw->fwlog_cfg, the ring of log pages that *)
(* the service task fills and the debugfs file drains, and the dump of the *)
(* firmware's internal tables.                                             *)
(*                                                                         *)
(* One debugfs call at a time; the service task runs between the pages of  *)
(* a read and between the commands of a dump.  An admin command may fail,  *)
(* and then leaves the firmware as it was.                                 *)
(***************************************************************************)
EXTENDS Integers, Sequences, FiniteSets

CONSTANTS Modules,      \* log modules (IXGBE_ACI_FW_LOG_ID_*)
          Levels,       \* log levels
          RingDflt,     \* IXGBE_FWLOG_RING_SIZE_DFLT
          RingSizes,    \* powers of two up to IXGBE_FWLOG_RING_SIZE_MAX
          Clusters,     \* firmware tables: cluster -> blocks of each table
          MaxSent,      \* log events the firmware sends
          MaxOps,       \* debugfs writes
          MaxLate       \* log events waiting in the firmware's queue

VARIABLES fwl,          \* the firmware's log configuration
          fwlog_cfg,    \* hw->fwlog_cfg
          fwlog_ring,   \* hw->fwlog_ring, and the array behind it
          mail,         \* log events not yet fetched
          got,          \* the pages read from the data file
          dump,         \* fw_dump, the blob and the file over it
          bound,        \* what is set up
          stray,        \* a ring was used after it was freed
          fwops         \* debugfs writes so far

fwvars == <<fwl, fwlog_cfg, fwlog_ring, mail, got, dump, bound, stray, fwops>>

NoPage == 0

\* ixgbe_fwlog_ring_increment: sizes are powers of two.
Advance(i, size) == (i + 1) % size

RingEmpty(r) == r.head = r.tail

RingFullNoWrap(r) == r.head < r.tail /\ r.tail - r.head = r.size - 1

RingFull(r) ==
  \/ r.head < r.tail /\ r.tail - r.head = r.size - 1
  \/ r.head > r.tail /\ r.tail = r.head - 1

\* A ring of n pages; the array behind it always has the default number of
\* entries.
NewRing(n) == [size |-> n, entries |-> RingDflt, head |-> 0, tail |-> 0,
               page |-> [i \in 0..(n - 1) |-> NoPage]]

\* ixgbe_get_fwlog_data: the page goes to the tail; a full ring drops its
\* oldest page.
Stored(r, p) ==
  LET s == [r EXCEPT !.page[r.tail] = p, !.tail = Advance(@, r.size)]
  IN IF RingFull(s) THEN [s EXCEPT !.head = Advance(@, r.size)] ELSE s

-----------------------------------------------------------------------------
\* The commands of the log configuration. Each gives the possible pairs of
\* firmware and cached configuration.

\* ixgbe_fwlog_set: levels, options and resolution of the cache go down.
FwlogSet(f, c) ==
  {[f |-> f, c |-> c, ok |-> FALSE],
   [f |-> [c EXCEPT !.registered = f.registered], c |-> c, ok |-> TRUE]}

\* ixgbe_fwlog_register and _unregister
FwlogRegister(f, c, on) ==
  {[f |-> f, c |-> c, ok |-> FALSE],
   [f |-> [f EXCEPT !.registered = on], c |-> [c EXCEPT !.registered = on], ok |-> TRUE]}

\* ixgbe_fwlog_get: the cache becomes what the firmware says.
FwlogGet(f, c) == {[f |-> f, c |-> c, ok |-> FALSE], [f |-> f, c |-> f, ok |-> TRUE]}

CachedEntriesKept(c, ms, level) == c

\* ixgbe_fwlog_update_cached_entries
CachedEntries(c, ms, level) ==
  [c EXCEPT !.level = [m \in Modules |-> IF m \in ms THEN level ELSE @[m]]]

\* ixgbe_fwlog_update_modules for one module
UpdateModule(f, c, m, level) ==
  UNION {IF ~g.ok THEN {g}
         ELSE {g, [f |-> [f EXCEPT !.level[m] = level],
                   c |-> CachedEntries(g.c, {m}, level), ok |-> TRUE]} :
         g \in FwlogGet(f, c)}

-----------------------------------------------------------------------------
Quiet == [resolution |-> 1, arq |-> FALSE, registered |-> FALSE,
          level |-> [m \in Modules |-> 0]]

NoDump == [busy |-> FALSE, all |-> FALSE, at |-> <<0, 0, 0>>, first |-> 0,
           blob |-> <<>>, file |-> FALSE]

Init ==
  /\ fwl = Quiet /\ fwlog_cfg = Quiet
  /\ fwlog_ring = NewRing(1)
  /\ mail = [sent |-> 0, waiting |-> <<>>] /\ got = 0
  /\ dump = NoDump
  /\ bound = "none" /\ stray = FALSE
  /\ fwops = 0

\* ixgbe_pf_fwlog_init: the query that tells whether logging is supported, a
\* second one for the cache, the ring. The option to register at once is
\* gone with the first query.
FwlogInit ==
  /\ bound = "none"
  /\ \E g \in FwlogGet(fwl, fwlog_cfg) :
       /\ fwlog_cfg' = g.c
       /\ fwlog_ring' = IF g.ok THEN NewRing(RingDflt) ELSE fwlog_ring
       /\ bound' = IF g.ok THEN "log" ELSE "nolog"
  /\ UNCHANGED <<fwl, mail, got, dump, fwops, stray>>

\* ixgbe_dbg_adapter_init
DbgInit ==
  /\ bound = "log"
  /\ bound' = "files"
  /\ UNCHANGED <<fwl, fwlog_cfg, fwlog_ring, mail, got, dump, fwops, stray>>

Call ==
  /\ bound = "files"
  /\ ~dump.busy
  /\ fwops < MaxOps
  /\ fwops' = fwops + 1

\* ixgbe_debugfs_enable_write: the option is set in the cache before the
\* firmware is asked.
EnableWrite ==
  /\ Call
  /\ \E on \in BOOLEAN :
       \E s \in FwlogSet(fwl, [fwlog_cfg EXCEPT !.arq = on]) :
         \E r \in IF s.ok THEN FwlogRegister(s.f, s.c, on) ELSE {s} :
           fwl' = r.f /\ fwlog_cfg' = r.c
  /\ UNCHANGED <<fwlog_ring, mail, got, dump, bound, stray>>

\* The loop over all modules: some of the calls take effect, and their
\* results are not looked at.
UpdateAll(f, c, level) ==
  {[f |-> f, c |-> c]} \cup
  {LET g == [f EXCEPT !.level = [m \in Modules |-> IF m \in took THEN level ELSE @[m]]]
   IN [f |-> g, c |-> g] : took \in SUBSET Modules}

\* ixgbe_debugfs_module_write, for one module or for "all"
ModuleWrite ==
  /\ Call
  /\ \E level \in Levels :
       \E u \in UpdateAll(fwl, fwlog_cfg, level)
                \cup UNION {UpdateModule(fwl, fwlog_cfg, m, level) : m \in Modules} :
         fwl' = u.f /\ fwlog_cfg' = u.c
  /\ UNCHANGED <<fwlog_ring, mail, got, dump, bound, stray>>

\* ixgbe_debugfs_resolution_write: the cache only, until the next enable.
ResolutionWrite ==
  /\ Call
  /\ fwlog_cfg' = [fwlog_cfg EXCEPT !.resolution = 3 - @]
  /\ UNCHANGED <<fwl, fwlog_ring, mail, got, dump, bound, stray>>

\* ixgbe_debugfs_nr_buffs_write and ixgbe_fwlog_realloc_rings; without memory
\* the old ring stays.
NrBuffsWrite ==
  /\ Call
  /\ ~fwlog_cfg.registered
  /\ \E n \in RingSizes \ {fwlog_ring.size} :
       fwlog_ring' \in {fwlog_ring, NewRing(n)}
  /\ UNCHANGED <<fwl, fwlog_cfg, mail, got, dump, bound, stray>>

\* ixgbe_debugfs_data_write
DataClear ==
  /\ Call
  /\ ~fwlog_cfg.registered
  /\ fwlog_ring' = [fwlog_ring EXCEPT !.head = 0, !.tail = 0]
  /\ UNCHANGED <<fwl, fwlog_cfg, mail, got, dump, bound, stray>>

\* One turn of the loop of ixgbe_debugfs_data_read; the loop may end after
\* any page, for want of room.
DataRead ==
  /\ bound \in {"files", "freed"} /\ ~dump.busy
  /\ ~RingEmpty(fwlog_ring)
  /\ stray' = (stray \/ bound = "freed")
  /\ got' = fwlog_ring.page[fwlog_ring.head]
  /\ fwlog_ring' = [fwlog_ring EXCEPT !.head = Advance(@, fwlog_ring.size)]
  /\ UNCHANGED <<fwl, fwlog_cfg, mail, dump, bound, fwops>>

\* The firmware posts a page of log lines.
FirmwareLogs ==
  /\ fwl.registered /\ fwl.arq
  /\ mail.sent < MaxSent /\ Len(mail.waiting) < MaxLate
  /\ mail' = [sent |-> mail.sent + 1, waiting |-> Append(mail.waiting, mail.sent + 1)]
  /\ UNCHANGED <<fwl, fwlog_cfg, fwlog_ring, got, dump, bound, fwops, stray>>

\* ixgbe_handle_fw_event with ixgbe_get_fwlog_data
HandleFwEvent ==
  /\ bound \in {"log", "files", "freed"}
  /\ mail.waiting /= <<>>
  /\ stray' = (stray \/ bound = "freed")
  /\ fwlog_ring' = Stored(fwlog_ring, Head(mail.waiting))
  /\ mail' = [mail EXCEPT !.waiting = Tail(@)]
  /\ UNCHANGED <<fwl, fwlog_cfg, got, dump, bound, fwops>>

-----------------------------------------------------------------------------
\* The debug dump.

LastId    == 65535
LastIndex == 65536

\* What the firmware answers for a block: the block, and where to go on.
Answer(c, t, b) ==
  LET tables == Clusters[c]
      more   == b + 1 < tables[t + 1]
      another == t + 1 < Len(tables)
  IN [idx     |-> IF more THEN b + 1 ELSE LastIndex,
      table   |-> IF more THEN t ELSE IF another THEN t + 1 ELSE LastId,
      cluster |-> IF more \/ another THEN c
                  ELSE IF c + 1 \in DOMAIN Clusters THEN c + 1 ELSE LastId]

\* dump_cluster_id_write: the file of the last dump goes, then its memory.
DumpBegin ==
  /\ Call
  /\ \E c \in DOMAIN Clusters, all \in BOOLEAN :
       /\ all => c = 0
       /\ dump' = [NoDump EXCEPT !.busy = TRUE, !.all = all,
                                 !.first = c, !.at = <<c, 0, 0>>]
  /\ UNCHANGED <<fwl, fwlog_cfg, fwlog_ring, mail, got, bound, stray>>

\* The cluster, table and block to ask for next; <<>> when the dump is over.
NextBlockOfOne(at, a, all) ==
  CASE a.idx /= LastIndex -> <<at[1], at[2], a.idx>>
    [] a.cluster = at[1]  -> <<at[1], IF a.table /= LastId THEN a.table ELSE at[2], 0>>
    [] OTHER              -> <<>>

NextBlock(at, a, all) ==
  CASE a.idx /= LastIndex    -> <<at[1], at[2], a.idx>>
    [] a.cluster = LastId    -> <<>>
    [] a.cluster = at[1]     -> <<at[1], IF a.table /= LastId THEN a.table ELSE at[2], 0>>
    [] OTHER -> IF all THEN <<a.cluster, 0, 0>> ELSE <<>>

\* One turn of the loop of ixgbe_debugfs_fw_dump. The header gives the place
\* of the block in its table.
DumpBlock ==
  /\ dump.busy
  /\ LET at   == dump.at
         a    == Answer(at[1], at[2], at[3])
         next == NextBlock(at, a, dump.all)
         blob == Append(dump.blob, [cluster |-> at[1], table |-> at[2], offset |-> at[3]])
     IN dump' = IF next = <<>>
                THEN [dump EXCEPT !.busy = FALSE, !.blob = blob, !.file = TRUE]
                ELSE [dump EXCEPT !.blob = blob, !.at = next]
  /\ UNCHANGED <<fwl, fwlog_cfg, fwlog_ring, mail, got, bound, fwops, stray>>

\* The command fails, or there is no memory: no file.
DumpFails ==
  /\ dump.busy
  /\ dump' = NoDump
  /\ UNCHANGED <<fwl, fwlog_cfg, fwlog_ring, mail, got, bound, fwops, stray>>

-----------------------------------------------------------------------------
\* ixgbe_pf_fwlog_deinit; the files and the service task go after it.
FwlogDeinit ==
  /\ bound = "files" /\ ~dump.busy
  /\ \E r \in FwlogRegister(fwl, fwlog_cfg, FALSE) : fwl' = r.f /\ fwlog_cfg' = r.c
  /\ bound' = "freed"
  /\ UNCHANGED <<fwlog_ring, mail, got, dump, fwops, stray>>

DbgExit ==
  /\ bound = "freed"
  /\ bound' = "gone"
  /\ dump' = NoDump
  /\ UNCHANGED <<fwl, fwlog_cfg, fwlog_ring, mail, got, fwops, stray>>

Next ==
  \/ FwlogInit \/ DbgInit \/ EnableWrite \/ ModuleWrite \/ ResolutionWrite
  \/ NrBuffsWrite \/ DataClear \/ DataRead \/ FirmwareLogs \/ HandleFwEvent
  \/ DumpBegin \/ DumpBlock \/ DumpFails \/ FwlogDeinit \/ DbgExit

Spec == Init /\ [][Next]_fwvars

-----------------------------------------------------------------------------
TypeOK ==
  /\ fwlog_ring.head \in 0..(fwlog_ring.size - 1)
  /\ fwlog_ring.tail \in 0..(fwlog_ring.size - 1)
  /\ got \in 0..MaxSent /\ mail.sent \in 0..MaxSent
  /\ bound \in {"none", "nolog", "log", "files", "freed", "gone"}

\* Pages held by the ring.
Held(r) == (r.tail - r.head + r.size) % r.size

\* However the service task, the reader, a clear and a change of nr_buffs
\* interleave, the ring holds an unbroken run of the newest pages, in order,
\* that the reader has not had yet: ixgbe_get_fwlog_data drops only the
\* oldest, and the array behind the ring is large enough for its size.
LogNewest ==
  LET r    == fwlog_ring
      last == mail.sent - Len(mail.waiting)
      n    == Held(r)
  IN /\ \A i \in 0..(n - 1) : r.page[(r.head + i) % r.size] = last - n + 1 + i
     /\ n > 0 => got <= last - n
     /\ r.size > 2 => n <= r.size - 2
     /\ r.size <= r.entries

\* hw->fwlog_cfg agrees with the firmware on what decides whether the ring
\* may be changed, and on every level the modules file shows; so no page is
\* posted for a ring that has been cleared or replaced, except one already on
\* its way.
CacheTrue ==
  /\ fwlog_cfg.registered = fwl.registered
  /\ fwlog_cfg.level = fwl.level

\* The firmware's blocks, and their order.
Blocks ==
  UNION {UNION {{[cluster |-> c, table |-> t, offset |-> b] : b \in 0..(Clusters[c][t + 1] - 1)} :
                t \in 0..(Len(Clusters[c]) - 1)} : c \in DOMAIN Clusters}

Before(x, y) ==
  \/ x.cluster < y.cluster
  \/ x.cluster = y.cluster /\ x.table < y.table
  \/ x.cluster = y.cluster /\ x.table = y.table /\ x.offset < y.offset

\* A dump file has every block of the cluster it was asked for, or of all
\* clusters, once and in the firmware's order (the comment of
\* ixgbe_debugfs_fw_dump: "Repeat until all tables in given cluster were
\* read").
DumpWhole ==
  dump.file =>
    /\ {dump.blob[i] : i \in DOMAIN dump.blob}
         = {x \in Blocks : dump.all \/ x.cluster = dump.first}
    /\ \A i, j \in DOMAIN dump.blob : i < j => Before(dump.blob[i], dump.blob[j])
=============================================================================
