------------------------------ MODULE TsgenSync ------------------------------
(***************************************************************************)
(* The synchronisation of a second chip's CoreSight timestamp generator    *)
(* with chip 0's (bs1000/drivers/bs1000_coresight.c), at boot in           *)
(* bs1000_coresight_init() and then periodically from the sync timer       *)
(* (bs1000_resync_system_counters()).                                     *)
(*                                                                         *)
(* Both generators count the same reference clock: Tick advances the      *)
(* master m and, while it is enabled, the slave s. The CPU reaches them    *)
(* through MMIO accesses of Latency ticks, MaxLate of them one tick later; *)
(* a counter is 64 bits read and written as two words, of LoBits bits     *)
(* here for the low word so that carries into the high word happen.       *)
(*                                                                         *)
(* The two generator pairs of a chip (TSGEN_TS and TSGEN_CNT) run the     *)
(* same code on independent counters one after the other; one pair is    *)
(* modelled.                                                               *)
(***************************************************************************)
EXTENDS Integers

CONSTANTS
  LoBits,                 \* width of the low word CNTCVL (32 in hardware)
  Latency,                \* ticks between two MMIO accesses of the CPU
  MaxLate,                \* accesses that take one tick longer
  TimerPeriod,            \* ticks between two sync timer interrupts
  BS1000_TSGEN_MAX_OFFSET,
  BS1000_TSGEN_MAX_SYNC,
  MaxResync,              \* timer interrupts followed
  MasterStart, SlaveStart \* counter values when bs1000_coresight_init() runs

VARIABLES
  m, s, en,     \* master and slave count, slave CNTCR.EN
  gap,          \* ticks since the CPU's last access
  late,         \* accesses so far that took Latency + 1 ticks
  pc,           \* the statement of the CPU
  acc,          \* the access of css600_tsgen_read()/_write() under way
  up, lo, val,  \* css600_tsgen_read(): the words read and the result
  rStart,       \* the counter's value when the current read began
  wval,         \* the value css600_tsgen_write() writes
  ret,          \* where css600_tsgen_check() or css600_tsgen_adj() returns
  c0, c1,       \* cnt[0], cnt[1] of check() and sync()
  dr, dw, offset, \* the slave's css600_tsgen_data fields
  i, is_synced, \* the sync loop of bs1000_coresight_init()
  resyncs,      \* sync timer interrupts handled
  setupOff      \* history: the slave's offset when the runtime began

vars == <<m, s, en, gap, late, late, pc, acc, up, lo, val, rStart, wval, ret, c0, c1,
          dr, dw, offset, i, is_synced, resyncs, setupOff>>

Lo(v) == v % 2^LoBits
Up(v) == v \div 2^LoBits
Abs(x) == IF x < 0 THEN -x ELSE x
LongestGap == IF late < MaxLate THEN Latency + 1 ELSE Latency

\* The statements that read a counter, and which one; the rest write the
\* slave or run no MMIO.
ReadsMaster == {"Chk0", "SyncR", "SyncM", "AdjR"}
ReadsSlave == {"Chk1", "Chk2", "SyncS"}
Writes == {"SyncW", "AdjW"}

Cnt == IF pc \in ReadsMaster THEN m ELSE s

TypeOK ==
  /\ m \in Nat /\ s \in Nat /\ en \in BOOLEAN
  /\ gap \in 0..Latency + 1 + TimerPeriod /\ late \in 0..MaxLate
  /\ acc \in {"up", "lo", "tmp", "done", "stop", "wlo", "wup", "start"}
  /\ ret \in {"First", "Loop", "Sync", "Resync"}
  /\ i \in 0..BS1000_TSGEN_MAX_SYNC /\ is_synced \in BOOLEAN
  /\ resyncs \in 0..MaxResync
-----------------------------------------------------------------------------
Init ==
  /\ m \in MasterStart /\ s \in SlaveStart /\ en = TRUE
  /\ gap = 0 /\ late = 0
  /\ pc = "Chk0" /\ acc = "up" /\ rStart = m
  /\ up = 0 /\ lo = 0 /\ val = 0 /\ wval = 0
  /\ ret = "First"
  /\ c0 = 0 /\ c1 = 0 /\ dr = 0 /\ dw = 0 /\ offset = 0
  /\ i = 0 /\ is_synced = FALSE /\ resyncs = 0 /\ setupOff = 0

\* The reference clock. While the CPU is busy an access is never further
\* than LongestGap ticks from the last; while it waits for the timer, no
\* further than TimerPeriod.
Tick ==
  /\ gap < IF pc = "Idle" THEN TimerPeriod ELSE LongestGap
  /\ m' = m + 1
  /\ s' = IF en THEN s + 1 ELSE s
  /\ gap' = gap + 1
  /\ UNCHANGED <<en, late, pc, acc, up, lo, val, rStart, wval, ret, c0, c1, dr,
                 dw, offset, i, is_synced, resyncs, setupOff>>

\* An MMIO access of the CPU: it takes Latency ticks, or one more.
Access ==
  /\ \/ gap = Latency /\ UNCHANGED late
     \/ gap = Latency + 1 /\ late' = late + 1
  /\ gap' = 0
-----------------------------------------------------------------------------
(* css600_tsgen_read(): CNTCVU, CNTCVL, CNTCVU again until both high      *)
(* words agree.                                                            *)
ReadUp ==
  /\ pc \in ReadsMaster \cup ReadsSlave /\ acc = "up" /\ Access
  /\ up' = Up(Cnt) /\ acc' = "lo"
  /\ UNCHANGED <<m, s, en, pc, lo, val, rStart, wval, ret, c0, c1, dr, dw,
                 offset, i, is_synced, resyncs, setupOff>>

ReadLo ==
  /\ acc = "lo" /\ Access
  /\ lo' = Lo(Cnt) /\ acc' = "tmp"
  /\ UNCHANGED <<m, s, en, pc, up, val, rStart, wval, ret, c0, c1, dr, dw,
                 offset, i, is_synced, resyncs, setupOff>>

\* Mutant: the high word read once, without the second read.
ReadTmpNoRecheck ==
  /\ acc = "tmp" /\ Access
  /\ acc' = "done" /\ val' = up * 2^LoBits + lo
  /\ UNCHANGED <<m, s, en, pc, up, lo, rStart, wval, ret, c0, c1, dr, dw,
                 offset, i, is_synced, resyncs, setupOff>>

ReadTmp ==
  /\ acc = "tmp" /\ Access
  /\ IF Up(Cnt) = up
       THEN acc' = "done" /\ val' = up * 2^LoBits + lo
       ELSE acc' = "up" /\ UNCHANGED val
  /\ UNCHANGED <<m, s, en, pc, up, lo, rStart, wval, ret, c0, c1, dr, dw,
                 offset, i, is_synced, resyncs, setupOff>>

(* css600_tsgen_write(): clear CNTCR.EN, write CNTCVL then CNTCVU, set     *)
(* CNTCR.EN.                                                               *)
WriteStop ==
  /\ pc \in Writes /\ acc = "stop" /\ Access
  /\ en' = FALSE /\ acc' = "wlo"
  /\ UNCHANGED <<m, s, pc, up, lo, val, rStart, wval, ret, c0, c1, dr, dw,
                 offset, i, is_synced, resyncs, setupOff>>

WriteLo ==
  /\ acc = "wlo" /\ Access
  /\ s' = Up(s) * 2^LoBits + Lo(wval) /\ acc' = "wup"
  /\ UNCHANGED <<m, en, pc, up, lo, val, rStart, wval, ret, c0, c1, dr, dw,
                 offset, i, is_synced, resyncs, setupOff>>

WriteUp ==
  /\ acc = "wup" /\ Access
  /\ s' = Up(wval) * 2^LoBits + Lo(s) /\ acc' = "start"
  /\ UNCHANGED <<m, en, pc, up, lo, val, rStart, wval, ret, c0, c1, dr, dw,
                 offset, i, is_synced, resyncs, setupOff>>

WriteStart ==
  /\ acc = "start" /\ Access
  /\ en' = TRUE /\ acc' = "done"
  /\ UNCHANGED <<m, s, pc, up, lo, val, rStart, wval, ret, c0, c1, dr, dw,
                 offset, i, is_synced, resyncs, setupOff>>

Bus == ReadUp \/ ReadLo \/ ReadTmp \/ WriteStop \/ WriteLo \/ WriteUp \/ WriteStart
-----------------------------------------------------------------------------
(* The CPU's statements between accesses; they take no time.               *)
Locals == <<c0, c1, dr, dw, offset, i, is_synced>>

\* A new read or write; the words of the last read are dead from here.
StartRead(p) ==
  /\ pc' = p /\ acc' = "up" /\ up' = 0 /\ lo' = 0 /\ val' = 0
  /\ rStart' = IF p \in ReadsMaster THEN m ELSE s

\* A statement that leaves the read's words dead.
Forget == up' = 0 /\ lo' = 0 /\ val' = 0 /\ rStart' = 0

StartWrite(p, v) ==
  /\ pc' = p /\ acc' = "stop" /\ wval' = v
  /\ Forget

Done(p) == pc = p /\ acc = "done"

\* Mutant: the offset as the first distance alone, the read time forgotten.
OffsetOneWay(a, b, c) == b - a

\* The slave's offset estimated from three reads a (master), b, c (slave).
Offset(a, b, c) == 2 * b - a - c

(* css600_tsgen_check(): cnt[0] from the master, cnt[1] and cnt[2] from    *)
(* the slave; dr is their distance, offset the slave's offset estimated   *)
(* from the two halves of the round trip.                                  *)
Check0 ==
  /\ Done("Chk0") /\ c0' = val /\ StartRead("Chk1")
  /\ UNCHANGED <<m, s, en, gap, late, wval, ret, c1, dr, dw, offset,
                 i, is_synced, resyncs, setupOff>>

Check1 ==
  /\ Done("Chk1") /\ c1' = val /\ StartRead("Chk2")
  /\ UNCHANGED <<m, s, en, gap, late, wval, ret, c0, dr, dw, offset,
                 i, is_synced, resyncs, setupOff>>

\* Mutant: the loop moves dw by the offset before it tests for synced.
Check2MovesDwFirst ==
  LET off == Offset(c0, c1, val)
      synced == Abs(off) <= BS1000_TSGEN_MAX_OFFSET
  IN /\ Done("Chk2")
     /\ dr' = val - c1 /\ offset' = off
     /\ \/ ret = "First" /\ StartRead("SyncR")
           /\ UNCHANGED <<dw, ret, is_synced>>
        \/ ret = "Loop" /\ synced /\ is_synced' = TRUE /\ pc' = "Setup"
           /\ dw' = dw - off /\ Forget /\ UNCHANGED <<acc, ret>>
        \/ ret = "Loop" /\ ~synced /\ is_synced' = FALSE
           /\ dw' = dw - off /\ StartRead("AdjR")
           /\ UNCHANGED ret
     /\ c0' = 0 /\ c1' = 0
     /\ UNCHANGED <<m, s, en, gap, late, wval, i, resyncs, setupOff>>

\* The return of check(): at its first call its result is ignored and
\* css600_tsgen_sync() follows; in the loop a synced result ends the loop,
\* any other moves dw by the offset and adjusts the slave.
Check2 ==
  LET off == Offset(c0, c1, val)
      synced == Abs(off) <= BS1000_TSGEN_MAX_OFFSET
  IN /\ Done("Chk2")
     /\ dr' = val - c1 /\ offset' = off
     /\ \/ ret = "First" /\ StartRead("SyncR")
           /\ UNCHANGED <<dw, ret, is_synced>>
        \/ ret = "Loop" /\ synced /\ is_synced' = TRUE /\ pc' = "Setup"
           /\ Forget /\ UNCHANGED <<acc, dw, ret>>
        \/ ret = "Loop" /\ ~synced /\ is_synced' = FALSE
           /\ dw' = dw - off /\ StartRead("AdjR")
           /\ UNCHANGED ret
     /\ c0' = 0 /\ c1' = 0
     /\ UNCHANGED <<m, s, en, gap, late, wval, i, resyncs, setupOff>>

(* css600_tsgen_sync(): write the master's count into the slave, measure   *)
(* the write's delay dw from one more pair of reads, then adjust.          *)
SyncRead ==
  /\ Done("SyncR") /\ StartWrite("SyncW", val)
  /\ UNCHANGED <<m, s, en, gap, late, ret, c0, c1, dr, dw,
                 offset, i, is_synced, resyncs, setupOff>>

SyncWrite ==
  /\ Done("SyncW") /\ StartRead("SyncM") /\ wval' = 0
  /\ UNCHANGED <<m, s, en, gap, late, ret, resyncs, setupOff>>
  /\ UNCHANGED Locals

SyncMaster ==
  /\ Done("SyncM") /\ c0' = val /\ StartRead("SyncS")
  /\ UNCHANGED <<m, s, en, gap, late, wval, ret, c1, dr, dw, offset,
                 i, is_synced, resyncs, setupOff>>

SyncSlave ==
  /\ Done("SyncS") /\ dw' = c0 - val + dr /\ c0' = 0
  /\ ret' = "Sync" /\ StartRead("AdjR")
  /\ UNCHANGED <<m, s, en, gap, late, wval, c1, dr, offset, i,
                 is_synced, resyncs, setupOff>>

(* css600_tsgen_adj(): write the master's count plus dw into the slave.    *)
AdjRead ==
  /\ Done("AdjR") /\ StartWrite("AdjW", val + dw)
  /\ UNCHANGED <<m, s, en, gap, late, ret, c0, c1, dr, dw,
                 offset, i, is_synced, resyncs, setupOff>>

\* The return of adj(): into the loop of bs1000_coresight_init(), as its
\* first iteration after sync() or its next one, or out of the timer
\* interrupt.
AdjWrite ==
  /\ Done("AdjW")
  /\ \/ ret = "Sync" /\ pc' = "Loop" /\ i' = 0 /\ is_synced' = FALSE
        /\ UNCHANGED resyncs
     \/ ret = "Loop" /\ pc' = "Loop" /\ i' = i + 1
        /\ UNCHANGED <<is_synced, resyncs>>
     \/ ret = "Resync" /\ pc' = "Idle" /\ resyncs' = resyncs + 1
        /\ UNCHANGED <<i, is_synced>>
  /\ wval' = 0
  /\ UNCHANGED <<m, s, en, gap, late, acc, up, lo, val, rStart, ret, c0, c1,
                 dr, dw, offset, setupOff>>

\* Mutant: the loop bound tested with <=.
LoopHeadInclusive ==
  /\ pc = "Loop"
  /\ IF i <= BS1000_TSGEN_MAX_SYNC
       THEN ret' = "Loop" /\ StartRead("Chk0")
       ELSE pc' = "Setup" /\ UNCHANGED <<acc, up, lo, val, rStart, ret>>
  /\ UNCHANGED <<m, s, en, gap, late, wval, resyncs, setupOff>>
  /\ UNCHANGED Locals

\* The loop of bs1000_coresight_init(): at most BS1000_TSGEN_MAX_SYNC checks.
LoopHead ==
  /\ pc = "Loop"
  /\ IF i < BS1000_TSGEN_MAX_SYNC
       THEN ret' = "Loop" /\ StartRead("Chk0")
       ELSE pc' = "Setup" /\ UNCHANGED <<acc, up, lo, val, rStart, ret>>
  /\ UNCHANGED <<m, s, en, gap, late, wval, resyncs, setupOff>>
  /\ UNCHANGED Locals

(* bl31_plat_runtime_setup(): the sync timer is registered with an empty   *)
(* handler table and started; from now on it interrupts every period.     *)
RuntimeSetup ==
  /\ pc = "Setup" /\ pc' = "Idle" /\ gap' = 0 /\ setupOff' = s - m
  /\ UNCHANGED <<m, s, en, late, acc, up, lo, val, rStart, wval, ret, resyncs>>
  /\ UNCHANGED Locals

(* The sync timer interrupt: baikal_el3_interrupt_handler() finds the     *)
(* timer's handler, bs1000_sync_timer_handler() calls                     *)
(* bs1000_resync_system_counters(), which adjusts the slave.              *)
SyncTimerIrq ==
  /\ pc = "Idle" /\ resyncs < MaxResync /\ gap = TimerPeriod
  /\ gap' = 0 /\ ret' = "Resync" /\ StartRead("AdjR")
  /\ UNCHANGED <<m, s, en, late, wval, resyncs, setupOff>>
  /\ UNCHANGED Locals

\* After the last interrupt followed, the behaviour ends.
Finished ==
  /\ pc = "Idle" /\ resyncs = MaxResync /\ gap = TimerPeriod
  /\ UNCHANGED vars

Cpu == Check0 \/ Check1 \/ Check2 \/ SyncRead \/ SyncWrite \/ SyncMaster
       \/ SyncSlave \/ AdjRead \/ AdjWrite \/ LoopHead \/ RuntimeSetup
       \/ SyncTimerIrq

Next == Tick \/ Bus \/ Cpu \/ Finished

Spec == Init /\ [][Next]_vars
-----------------------------------------------------------------------------
\* A completed css600_tsgen_read() returns a value the counter held while
\* it was being read: neither a low word from after a carry with the high
\* word from before, nor the reverse.
ReadIsConsistent ==
  acc = "done" /\ pc \in ReadsMaster \cup ReadsSlave => rStart <= val /\ val <= Cnt

\* When bs1000_coresight_init() reports the slave synced, it is: the slave
\* runs at most BS1000_TSGEN_MAX_OFFSET ticks away from the master.
\* When bs1000_coresight_init() reports the slave synced, the slave runs at
\* most BS1000_TSGEN_MAX_OFFSET ticks from the master, and one more for each
\* access that took longer than the others: the offset estimate of
\* css600_tsgen_check() and the delay dw of css600_tsgen_sync() are exact
\* only when all accesses take the same time.
SyncedIsTrue ==
  pc = "Setup" /\ is_synced => Abs(s - m) <= BS1000_TSGEN_MAX_OFFSET + late

\* The periodic css600_tsgen_adj() of bs1000_resync_system_counters() leaves
\* the slave where bs1000_coresight_init() put it, but for the late
\* accesses: the delay dw it adds is the one it measured at boot.
ResyncKeepsOffset ==
  pc = "Idle" /\ resyncs > 0 => Abs((s - m) - setupOff) <= late

\* Once the runtime has started, the system counter of the slave chip,
\* which its cores read as their time, never goes backwards, also while
\* css600_tsgen_write() writes it.
Runtime == pc = "Idle" \/ ret = "Resync"

CounterMonotonic == [][Runtime => s' >= s]_s
====
