# TLA+ models of the Baikal platform code (arm-tf, `src/plat/baikal`)

The modules in this directory model four parts of the port with real
control state. The first is the DDR bring-up of the Baikal BM1000 SoC
(`src/plat/baikal/bm1000/drivers/ddr/`): polls with deadlines, hardware
that runs at the same time as the CPU, settings kept in flash across
boots, and arithmetic on SPD fields that ends up in register fields. The
second is the synchronisation of the CoreSight timestamp generators of a
multi-chip BS1000 (`bs1000/drivers/bs1000_coresight.c`): 64-bit counters
that keep counting while the CPU reads and writes them 32 bits at a
time. The third is the common EL3 interrupt path
(`common/baikal_interrupt_mgmt.c`, `common/dw_apb_timer.c`) that drives
the periodic resync: handler tables filled at setup, and a FIQ handler
that runs in steps against a GIC and timers that keep going. The fourth
is the memory the BS1000 BL31 reports to the OS (`bs1000/bs1000_dt.c`)
and the PSCI entry points it then accepts (`bs1000/bs1000_pm.c`). Every
definition is
translated from the C source. The `map` of `PROJECT.json` gives the lines
each definition stands for.

## The system and how its parts interact

`dram_init()` (ddr_main.c) runs once per boot in BL31:

1. It reads the SPD of both DIMM slots and sets a `conf` bit for each
   DDR4 module it finds.
2. It calls `ddr_port_init()` for port 0, then for port 1. A failure of
   port 0 jumps to the error exit.
3. When every present port trains, it makes the TrustZone controllers
   transparent (`tzc_set_transparent`).

`ddr_port_init()` runs these steps for one port:

1. **Load.** `ddr_flash_conf_load()` (ddr_menu.c) reads the port's slot
   of the boot flash into the single global buffer `ddr_storage`. The
   slot's signature is USE_SPD, USE_STR (a user override confirmed in the
   UEFI menu), zero (uninitialised, which sets `ddr_flash_init_flag`) or
   erased.
2. **Configure.** `ddr_config_by_spd()` (ddr_master.c) decodes the DIMM
   geometry and derives the clock, CL, CWL and the timings from the SPD.
   Under USE_STR the speed bin, CL, tRAS, tRP, tRCD and tFAW come from the
   slot. `ddr_odt_configuration()` (ddr_odt_settings.c) then picks the
   termination and drive strength by board, SPD CRC, module type and rank
   count; under USE_STR the slot overrides these too.
3. **Store.** While the flag is set, `ddr_flash_conf_store()` erases the
   slot and writes the derived configuration to it as USE_SPD.
4. **Clocks.** `ddr_lcru_initport()` starts the port's clocks.
5. **Train.** `ddr_init()` (ddr_init.c) programs the controller
   (`baikal_ddrc_set_registers`: address map, timings) and the PHY
   (`baikal_ddrphy_set_registers`: DCR, lanes, PUB timings). It then runs
   the PHY training phases through PIR and sends DRAM mode registers
   through the DCU. Finally it re-enables refresh and opens the AXI port.
6. **ECC.** With ECC on, `ddr_init_ecc_memory()` closes the AXI port,
   zeroes the memory with the controller scrubber, and reopens the port
   with a slow read patrol.
7. **On failure** the port's clocks are disabled. A USE_STR slot is
   written back as USE_SPD, so that the next boot uses the SPD again.

The hardware is the environment throughout:

- the PHY answers PGSR0 with done, done-with-errors or busy;
- the DCU finishes a command, finishes it late, or never;
- the controller answers STAT;
- the scrubber works through memory at its own pace, or stalls;
- the boot flash read, erase and write may each fail;
- the power may go at any step.

### BS1000 timestamp generators

Each BS1000 chip has its own system counter generator (TSGEN_CNT, the
time its cores read) and CoreSight timestamp generator (TSGEN_TS). Chip 0
is the master.

1. **At boot.** `bs1000_coresight_init()` brings every other chip's pair
   in line with chip 0's:
   - `css600_tsgen_check()` reads the master once and the slave twice.
     The distance of the two slave reads is `dr`. The difference of the
     two halves is the slave's estimated `offset`.
   - `css600_tsgen_sync()` writes the master's count into the slave.
     From one more pair of reads and `dr` it derives `dw`, the delay the
     write itself costs. Then it adjusts.
   - `css600_tsgen_adj()` writes the master's count plus `dw` into the
     slave.
   - A loop of at most `BS1000_TSGEN_MAX_SYNC` checks follows. It moves
     `dw` by each measured offset and adjusts again, until an offset of
     at most `BS1000_TSGEN_MAX_OFFSET` is seen.
2. **At run time.** `bl31_plat_runtime_setup()` registers a DW APB timer
   at 100 Hz. Its interrupt handler calls
   `bs1000_resync_system_counters()`, which adjusts every slave again
   with the `dw` measured at boot.

A read is `CNTCVU`, `CNTCVL`, `CNTCVU` again until the two high words
agree. A write clears `CNTCR.EN`, writes `CNTCVL`, then `CNTCVU`, and
sets `CNTCR.EN`. Both counters count the whole time, the slave only
while enabled.

### EL3 interrupts and the APB timer

The resync of step 2 reaches the CPU through common code:

1. **Registration, during BL31 setup.** FIQs are masked here.
   `baikal_el3_interrupt_config()` installs `baikal_el3_interrupt_handler()`
   for EL3 interrupts. `dw_apb_timer_register()` checks its arguments and
   duplicates. It then claims the IRQ with `request_intr_type_el3()`,
   which appends `(id, dw_apb_timer_handler)` to a table of
   `MAX_INTR_EL3` entries, and only then fills its own `timers[]` entry.
   `dw_apb_timer_start_periodic()` clears and enables the block.
2. **Dispatch, at run time.** The GIC signals IRQ 90 as Group 0
   (`baikal_gicv3.c`), so it arrives as a FIQ at EL3. The handler:
   - reads the highest pending ID;
   - acknowledges it;
   - finds the first table entry with that ID and calls its handler.
     `dw_apb_timer_handler()` finds the timer, reads its EOI register
     (the level line drops) and calls the callback;
   - ends the interrupt at the GIC.

### BS1000 memory description

`baikal_fdt_memory_update()` runs once per boot. For each chip it:

1. sums the capacity of every DIMM whose SPD checksum is right
   (`baikal_detect_sdram_capacity()`). `baikal_dimm_spd_get()` returns
   NULL past the last slot, and a buffer of 0xff for an empty slot;
2. lays the sum over the chip's three DRAM windows in order, shrinking
   the first window it fits in and stopping there;
3. writes the regions into the chip's `/memory` node.

Later, `bs1000_validate_ns_entrypoint()` accepts a CPU_ON or
SYSTEM_SUSPEND entry point in any chip-0 window outside secure DRAM.

### BS1000 PCIe bring-up

`pcie_init()` runs once in `bl31_plat_arch_setup()`, before the MMU is
on, and reads the same secure device tree. It:

1. records, for each enabled `baikal,bs1000-pcie` (root complex) or
   `baikal,bs1000-pcie-ep` (endpoint) node, its type and `num-lanes`
   against the controller whose DBI base its `reg` names (14 per chip:
   PCIe0..2 with two ports, PCIe3 and PCIe4 with four);
2. per chip, sets the device type: only P0 of PCIe0..2 has a DEVTYPE
   field, and an endpoint elsewhere panics;
3. per subsystem, chooses the lane split (SSMODE) from which ports are
   present, by a chain of tests, each guarded by a check of the lanes;
   a failed check panics on PCIe0..2 and only logs on PCIe3/4;
4. takes every subsystem with a controller through power-up reset.

## Modules

| Module | Models | State | Actions |
|---|---|---|---|
| `TrainingPhases` | the promise of one port's training (abstract) | `stage` | `Advance`, `Fail` |
| `DdrTraining` | `ddr_init()` and the training functions it calls | `pc`, `phase`, poll counter `elapsed`, PGSR0 outcome per phase, PHY registers altered for a phase, DRAM MR2/MR6 state, refresh, PUB mode, AXI port, `result`, how the STAT poll ended `stat` | `Program`, `PirPoll`, `DramPrep`, `VrefDqOn`, `VrefDqOff`, `WlPrep`, `WlRestore`, `DqsRestore`, `VrefPrep`, `VrefRestore`, `RefreshOn`, `EnableAxi`, `StatPoll` |
| `EccScrub` | `ddr_init_ecc_memory()` against the scrubber | CPU `pc`, poll counter, AXI port, SBRCTL fields, scrubber progress, SBRSTAT busy/done | CPU: `Configure`, `EnableScrub`, `WaitDone`, `WaitIdle`, `ExitReconfigure`, `ExitEnable`; scrubber: `EngineWrite`, `EngineIdle` |
| `DdrPort` | steps 5 and 6 of `ddr_port_init()`: `DdrTraining` and `EccScrub` composed over the AXI port | the union of both, `eccOn`, `scrubPc` | `Train`, `CallScrub`, `ScrubCpu`, `ScrubEngine`, `PortReturned` |
| `DramInit` | `dram_init()`, `ddr_port_init()`, `ddr_flash_conf_load/store()` over several boots | boot count, `pc`, current port, present ports, port state, LCRU, TZC, `ddr_storage` (signature, and the slot it came from), `ddr_flash_init_flag`, the flash slots | `PortStart`, `Load`, `Config`, `StoreErase`, `StoreWrite`, `Train`, `Revert`, `NextPort`; environment: `Reboot` |
| `SpdTiming` | clock snapping, CL/CWL scans, `CLOCK_PS`, `SPD_TO_PS`, `set_mr0/2/5` | SPD fields of one DIMM (constant) | none: every state is one decoding |
| `DdrTimings` | the other timing parameters of `ddr_config_by_spd()` and the DDRC/PUB timing register fields they are packed into | as `SpdTiming`, plus one DIMM's timing bytes | none |
| `DdrAddrMap` | the geometry checks of `ddr_config_by_spd()`; MSTR, ADDRMAP0..8, DTCR1, DCR and DXnGCR0 | SPD bytes 4, 5, 12, 13, DIMM count, mirrored/registered, flash 2T flag | none |
| `StoredSettings` | ODT selection, the flash overrides and `ddr_flash_conf_store()` | board, port, CRC, module type, ranks, DIMMs, SPD clock and timings | none: each state is one port configured on two boots |
| `TsgenSync` | `css600_tsgen_read/write/check/sync/adj()`, the sync loop of `bs1000_coresight_init()` for one chip pair, `bl31_plat_runtime_setup()`, `bs1000_resync_system_counters()` | counts `m`, `s`, `en`; ticks since the last access `gap`; late accesses `late`; CPU `pc`, access `acc`, read words, `wval`, return site `ret`, `cnt[]`, `dr`, `dw`, `offset`, loop `i`, `is_synced`; `resyncs`; history `rStart`, `setupOff` | `Tick`; one action per MMIO access (`ReadUp`, `ReadLo`, `ReadTmp`, `WriteStop`, `WriteLo`, `WriteUp`, `WriteStart`); one per return from a read or write (`Check0..2`, `SyncRead`, `SyncWrite`, `SyncMaster`, `SyncSlave`, `AdjRead`, `AdjWrite`); `LoopHead`, `RuntimeSetup`, `SyncTimerIrq` |
| `El3Interrupts` | `request_intr_type_el3()`, `baikal_el3_interrupt_handler()`, `dw_apb_timer_register/start_periodic/stop()`, `dw_apb_timer_handler()` | `phase`, the EL3 table `intr` and `index`, `timers` and `n_timers`, per timer block enable and line, GIC `active`, handler step `cpu` and `intr_id`, setup calls; history `expiries`, `served` | setup: `RequestIntrCall`, `TimerRegister`, `TimerStart`, `TimerStop`, `Exit`; hardware: `Expire`; handler: `FiqGetPending`, `FiqAcknowledge`, `FiqDispatch`, `FiqEndOfInterrupt`; `NormalWorld` |
| `DtMemory` | `baikal_detect_sdram_capacity()`, the region split of `baikal_fdt_memory_update()`, `bs1000_validate_ns_entrypoint()` | what the SPD read gives for each slot of each chip (constant) | none: every state is one DIMM population |
| `Bs1000Pcie` | `pcie_init()` for one chip: the parse loop, the device-type switch, the SSMODE chains, the reset release | `dt`: one chip's PCIe nodes (constant) | none: every state is one device tree |
| `MC_*` | the input sets TLC enumerates for the pure modules, `TsgenSync` and `El3Interrupts` | — | — |

### How the modules correspond to the code

**DdrTraining.**

- `pc` is the statement about to run. Each action is the code between two
  waits: a poll, or a DCU command with its own poll.
- A poll loop `while (!done) { if (timeout_elapsed()) ...; }` is one
  action, `PirPoll`, taken once per read of PGSR0. `elapsed` counts reads
  up to `PollBound`, where `TimeoutElapsed` holds.
- The callers that restore PHY registers (write leveling, DQS gating,
  Vref training) go on to their restore step whatever the PIR result;
  the others fail the port on a non-zero result.
- The register synthesizers are the single step `Program`: they write
  registers and never wait. What they write is checked in `DdrAddrMap`
  and `DdrTimings`.

`DdrTraining` refines `TrainingPhases`. `stageBar` maps each `pc`, and
each phase being polled, to the abstract stage. `PhasesInOrder` is
`TrainingPhases!Spec` under that mapping.

**DdrPort** instances `DdrTraining` as is and `EccScrub` with its `pc`
and poll counter renamed; `axiOn` is the one variable they share. The
scrub is called only when training returned 0 with ECC on, and starts in
the state training really leaves. `DramInit` takes the two functions as
single steps that always return; `DdrPort`'s `PhasesInOrder` and
`PortEndsServing` check that contract.

**DramInit.** `storage` is `ddr_storage`: its signature and the port
whose slot it was read from. `slot` is the boot flash. `Reboot` is a
power loss or reset at any step: it clears RAM state and keeps the
flash. Between boots the UEFI menu may set USE_STR in any slot.

**TsgenSync.**

- The pair modelled is TSGEN_CNT, the system counter: `Init` is the
  first `css600_tsgen_check()` of its copy of the boot sequence
  (bs1000_coresight.c:155), and `LoopHead` and `AdjWrite` are the head
  and the returns of its loop (lines 156-157). The TSGEN_TS copy above
  it (lines 144-154) is the same code on the other counter.
- Time is explicit. `Tick` advances the master and, while it is enabled,
  the slave.
- Every MMIO access of the CPU is an action taken `Latency` ticks after
  the previous one. At most `MaxLate` accesses take one tick more.
  `gap` counts the ticks and bounds them, so the CPU always gets its
  turn.
- A function call is a `pc` value. Its reads and writes are the access
  actions, and the statement after them is an action of its own that
  takes no time. `ret` says where `css600_tsgen_check()` or
  `css600_tsgen_adj()` returns, since both are called from two or three
  places.
- The words of a read are cleared when a new access starts, because
  they are dead from there on.
- `rStart` is the counter's value when a read began, and `setupOff` is
  the slave's offset when the run time began. Both are history: no
  action reads them.

**El3Interrupts.**

- The tables are functions over their slots, with the zero entries of
  the static arrays (`id` 0, handler `NULL`). The lookups scan slots in
  order, as the loops do (`FirstMatch`).
- `request_intr_type_el3()` is an operator returning the error code and
  the new table. It is used both by another EL3 client (`RequestIntrCall`)
  and inside `TimerRegister`.
- The hardware is the environment:
  - a timer block raises its level line when it expires, and keeps it
    high until its EOI register is read;
  - the GIC holds the IDs it acknowledged as `active`;
  - an ID is pending while its line is high, it is Group 0, and it is
    not active.
- A timer block is registered with the IRQ it is wired to, as the one
  caller does.
- `served` and `expiries` are history.

**DtMemory.** The window bases and sizes, secure DRAM,
`PLATFORM_ADDR_OUT_CHIP` and the SPD capacity decoder are defined outside
`src/`, so they are constants: addresses are in units of a window
granule, and the chip offset is `c * ChipSpan`. `Split` is the loop of
lines 171-177 as a recursive operator. `ReferenceLayout` is the layout
in closed form: window i holds the part of the capacity between the sum
of the sizes before it and the end of its own.

**Bs1000Pcie.** A device-tree node is reduced to what the parse loop
keeps of it: "none" (no node at that DBI base, disabled, another
compatible, malformed `reg`), or a root complex or endpoint with its
`num-lanes` (0 when the property is missing). `SsMode2` and `SsMode4`
are the if-chains of lines 245-383, with `KEEP` for a block that writes
nothing and `ERR` for a failed lane check. `ChipInit` is the chip-loop
body: a panic leaves the chip untouched, otherwise every subsystem with
a controller is released from reset. `Width` is the reference: the
lanes each split gives each port, as the checks before its write bound
them. MC_DtMemory extends both `DtMemory` and `Bs1000Pcie`. The two readers
of the device tree share no state and no property relates them. An
initial state is therefore either a DIMM population with no PCIe node,
or one subsystem's PCIe nodes with every slot empty. The union of the
two input sets is checked rather than their product.

**The pure modules.** Their state is an input that never changes, and
`Init` enumerates the inputs. `Snap` is the if-chain of ddr_master.c
116-126. `ScanUp` and `ScanDown` are the CAS and CWL loops. `Field` and
`FieldOf` are `GENMASK(...) & (v << lo)` and its reading.
`StoredSettings` composes `ddr_config_by_spd()`, `ddr_odt_configuration()`
and `ddr_flash_conf_store()` over two boots. The flash codes and tables
are constants translated from ddr_menu.h and ddr_odt_settings.c. The
first CRC match in the if-chain is `SelectInSeq` over the chain's order.

## Runs

| Run | Expect | What it shows |
|---|---|---|
| `ddr_port` | pass | The AXI port opens only after every phase ran, refresh is back on and no PHY register is left altered, also while the scrub closes and reopens it (`AxiOnlyWhenTrained`). DTCR0 and DXCCR are restored on every return (`RestoredOnReturn`). The phases run in order and training ends (`PhasesInOrder`, refinement). The port is never open during the write scrub (`NoTrafficDuringWriteScrub`). Memory is zeroed unless a wait timed out (`ScrubbedUnlessTimedOut`). A phase that completed with PGSR0 error bits fails the port, also through the callers that restore registers before they look at ret (`ErrorBitsFatal`). A trained port always ends open, and with ECC in read patrol, even against a stalled scrubber (`PortEndsServing`). |
| `ddr_training_silent_timeout` | violation | Deadlines pass silently (`NoSilentTimeout`). The trace TLC reports: the DCU command that zeroes RTT_WR in MR2 never finishes, `dcu_load_mode_command()` only logs it, and write leveling runs with RTT_WR still on, against the comment before it (ddr_init.c:629-638, 784). The same timeout can leave MR2 or MR6 not restored on a port that succeeds. With `DcuAnswers = {"Done"}` TLC reports a second case: a DDRC STAT that reads all ones never shows operating mode 1, and at the deadline `ret = ~reg` is 0, so the port is reported trained (ddr_init.c:842). A PIR deadline returns PGSR0 itself (`ret = reg`, ddr_init.c:688), so it is silent only when PGSR0 reads 0 at the deadline; the model lets it (`TimeoutRegs`), but no trace above depends on it. |
| `dram_init` | pass | The TZC is opened only when every present port trained. A failed port's clocks are off. A port takes an override only from a slot holding a setting saved from the menu, and a slot left erased by a power loss between erase and write is not one (`OverrideOnlyFromSavedSettings`). All hold over two boots with flash failures and power loss. |
| `dram_init_ports_independent` | violation | The two ports are not independent (`PortsIndependent`, spec sections 5-7). When port 1's slot read fails, port 1 is configured from port 0's override left in `ddr_storage` (ddr_menu.c:20). A failed erase leaves `ddr_flash_init_flag` set, and port 1's override is then rewritten as USE_SPD although port 1 trains (ddr_menu.c:35). A failure of port 0 makes `dram_init()` return with port 1 never tried (ddr_main.c:155). Each bug violates one conjunct on its own. |
| `spd_timing` | pass | Clock snapping follows the half-open bins. CL is the least supported latency covering tAA. CWL is the greatest allowed value not above CL. The CL check at ddr_master.c:180 only logs, but it stays quiet only for a CL of 9..32. So the CL of 64 that the scan gives when no supported latency is found, which MR0 cannot carry, is always logged. MR0/MR2/MR5 carry CL, CWL and PL in their JEDEC encodings. Every DDRC timing field holds its computed value. |
| `spd_timings_short` | violation | At DDR4 speeds (tCK of 625 ps or more) programmed timings fall short of their minimum (`TimingsCoverMinima`). The trace TLC reports is tCK 625 ps (DDR4-3200): the 200 us reset low time, 320000 cycles, is masked to the 18-bit tDINIT2 field of PTR4 and becomes 57856, about 36 us (ddr_init.c:413). With the PTR4 conjunct taken out TLC reports a second bug, at tCK 751 ps: the timings are computed with the SPD tCK, not the period of the 1333 MHz bin the clock snapped up to, so tRFC1 gets 733 cycles where the running clock needs 734 (ddr_master.c:114). |
| `el3_interrupts` | pass | Registrations, starts and stops run in any order during setup, and FIQs are taken at run time while timers keep expiring. A timer callback runs no more often than its timer expired, because the handler drops the line before the GIC end of interrupt (`CallbacksMatchExpiries`). Every interrupt a registered Group 0 timer raises is served (`TimerInterruptServed`). |
| `bl31_device_tree` | pass | For every population of four slots on two chips, from empty to more than the windows hold, with modules whose checksum is wrong, each chip's `/memory` node is the reference layout: windows filled in order, none empty, excess dropped (`RegionsTileCapacity`). It has at most three regions, none of size 0, also when the capacity ends exactly on a window (`TypeOK`). Every non-secure address of chip 0's node is accepted as a PSCI entry point (`ReportedMemoryAccepted`). For every choice of PCIe nodes for one subsystem, `pcie_init()` either panics or releases the subsystem of every controller, in a lane split that gives it lanes, at least `num-lanes` of them (`ModeServesController`). The one exception is a failed PCIe3/4 check, below. Every released controller has the role its node asks for (`RolesAsDescribed`). |
| `ddr_address_map` | pass | For every accepted geometry, the ADDRMAP registers map the DIMM's address bits one-to-one onto contiguous HIF bits. Every selectable rank is active in MSTR and trained (DTCR1). The PHY enables exactly the DIMM's data and ECC lanes and drives BG1 exactly when the map uses it. Controller (MSTR) and PHY (DCR, DXnGCR0) agree on the half bus and on 2T timing. |
| `tsgen_sync` | pass | Every `css600_tsgen_read()` returns a value the counter held while it was read, also across a carry of the low word. A pair reported synced is within `BS1000_TSGEN_MAX_OFFSET` plus one tick per late access. The periodic resync leaves the slave where the boot put it, apart from late accesses. This holds at every phase of the low word, for two slave start values, with up to three late accesses. |
| `tsgen_counter_backwards` | violation | With no late access at all, a periodic resync whose new value has another high word than the stopped slave makes the slave's system counter read `old_high:new_low` between the two writes. That is a whole low-word period back in time (bs1000_coresight.c:62). |
| `stored_settings_roundtrip` | pass | What the first boot stores configures the next boot identically once the user confirms the slot (USE_STR). This covers clock, CL, tRCD, tRP, tRAS, tFAW, 2T, drive strength, terminations and Vref. It holds for every build, port, table CRC, module type, rank count, bin and DIMM count. |

Every property of a pass run has a mutant in PROJECT.json. The mutant
changes one mapped definition the way a plausible bug would, and TLC then
finds the property violated. Examples:

- a DXCCR restore only on success;
- the scrub exit that leaves write mode on;
- a poll that never times out;
- MSTR with one rank too few;
- the ECC lane left enabled;
- a table row read with two columns swapped;
- the stored Vref marked in use.

### Observations without a run

These were found while modelling. They are recorded here because they
are either not checkable against anything in `src/`, or would repeat a
run:

- Completion of a PIR phase with error bits is fatal in the code, while
  the specification calls it non-fatal. The code errs on the safe side.
- On PCIe3 and PCIe4, a `num-lanes` that does not fit the chosen lane
  split only logs "incorrect subsystem mode" (bs1000_pcie.c:314-340 and
  the PCIe4 block). The subsystem is then taken out of power-up reset
  in whatever split SSMODE held, where the same failure on PCIe0..2
  panics. For example, a root complex on PCIe3 P1 with `num-lanes = 8`
  is released in a split that gives it at most 4 lanes.
  `ModeServesController` states this case as its exception. The
  register's reset value is not in `src/`, so the split the port
  actually gets cannot be checked.
- `CLOCK_PS` rounds down when the fractional cycle count is at most
  0.025. The downward CWL scan gives CL 17 a CWL of 16 at 2400 MT/s but
  14 at 2666 MT/s.
- The flash names of the RTT_WR codes disagree with the MR2 codes they
  decode to. `RTTWR_RZQ_DIV_4` gives code 1 and `RTTWR_RZQ_DIV_2` gives
  code 2. JESD79-4 defines codes 1 and 2 as RZQ/2 and RZQ/1.
- The table row for CRC 0x399d (DBM and MBM) has DIC 2, which is
  reserved. MR1 keeps only its bit 0, and `ddr_flash_conf_store()` leaves the slot's
  previous DIC code for it. The round trip still holds because the table
  row is re-read.
- In RDIMMGCR1, `GENMASK(23, 20) & 0xc << 8` is always 0 (`<<` binds
  tighter than `&`), so the mirroring bits are never set (ddr_init.c
  ~466).
- The base value of DCR, 0x28000404, already has bits 27 and 29 set, so
  the `mirrored_dimm` and `registered_dimm` ORs of DCR change nothing.
- The comment on SAR region 2 says 240 GiB; SARSIZE 1919 is 480 GiB.
- The 1-tick threshold of `css600_tsgen_check()` holds strictly only
  while at most two accesses are a tick slower than the rest. With a
  third, a pair can be reported synced 2 ticks apart. The first check,
  whose result `bs1000_coresight_init()` discards, still supplies the
  `dr` that `css600_tsgen_sync()` builds `dw` from, so a slow access
  there lasts through every later resync. `SyncedIsTrue` states the
  bound that does hold: one tick per late access.

## Bounds and why they are enough

- **DdrPort.** `PollBound = 2` gives every poll its three outcomes: done
  at once, done after waiting, deadline. Every DCU, STAT and PGSR0 answer
  occurs. With `Blocks = 4` and `ScrubPollBound = 4` the scrubber can
  finish before, at or after either deadline, or stall at any block.
- **DramInit.** Two boots and two ports, with every training result and
  every flash operation failing or not. Two boots are the fewest that
  show state carried across a reboot.
- **MC_SpdTiming.** Every tCK from 437 to 1437 ps, each once: medium
  units 4..11 with fine corrections -63..62. That covers every bin and
  every edge. It also covers tAA 1 ps below and 25 ps above 12.5 ns and
  15 ns, tWR empty or 15 ns, four CAS masks
  (low, wider low, high range, empty) and two real DIMMs: DDR4-2400 x8
  UDIMM and DDR4-3200 x16 RDIMM with the longest tRFC1.
- **MC_DdrAddrMap.** Every ranks/width, bank-group, row-bit and bus-width
  code the checks accept, plus rejected ones. It covers one and two
  DIMMs, and mirrored/registered/2T flag in both values.
- **MC_StoredSettings.** Every board, both ports, every CRC in the tables
  and the DBM20 dual-channel CRCs, one unknown CRC, every module type
  including the refused LRDIMM, both rank counts, every clock bin, and
  two timing sets, one with tRP different from tRCD.

- **MC_TsgenSync.** `LoBits = 8`: the low word carries every 256
  ticks, at most twice in a run of a few hundred ticks. The master starts
  at every phase of the low word (256..511), so every read and every
  write of the run meets a carry in some behaviour. With 32-bit words
  two carries in one run never happen; with 4 bits they come every 16
  ticks and give retries in consecutive checks that real hardware never
  sees. `Latency = 2` and up to `MaxLate = 3` late accesses: two is the
  most under which the strict claim holds, and three shows the bound.
  `BS1000_TSGEN_MAX_SYNC = 3` instead of 10: every iteration runs the
  same code, and three are enough to leave the loop synced, after a
  wrong adjustment, or exhausted. One timer interrupt, since every
  resync is the same adjustment.

- **MC_El3Interrupts.** The model has:
  - two timer blocks: the sync timer on IRQ 90, which is Group 0, and
    one on IRQ 91, which is not;
  - another EL3 client that may claim IRQ 29, 90 or 91;
  - tables of two entries, so a third request finds the EL3 table full;
  - four setup calls;
  - two expiries per timer, so an expiry can arrive while the previous
    one is being handled.

- **MC_DtMemory.** Two chips of four slots. Each slot is empty, a DDR4
  module of 1 or 4 units, or a module of 4 units with a wrong checksum.
  The windows hold 2, 4 and 4 units, and secure DRAM is the last unit of
  the first window. The sums 0..16 reach:
  - an empty node;
  - a capacity ending exactly on each window boundary (2, 6, 10);
  - one ending inside each window;
  - one beyond all three.

  The second chip checks the chip address offset.

  The PCIe inputs are every choice of nodes for the controllers of one
  subsystem, the other subsystems absent: 11 choices per controller
  (none, or a root complex or endpoint with `num-lanes` 0, 4, 8, 16 or
  32). That is 11^4 trees for PCIe3 and PCIe4 and 11^2 for PCIe0..2.
  The lane values sit on every bound of the checks (4, 8, 16) and
  beyond them. A panic anywhere stops the whole chip, and the
  subsystems' SSMODE blocks do not read each other's entries, so one
  subsystem at a time reaches every branch.

## Fairness

- **DdrPort.** Weak fairness on the CPU actions (`Train`, `CallScrub`,
  `ScrubCpu`). Both functions run on one CPU without preemption, and the
  PHY's answers are part of the CPU's poll steps. The scrubber gets no
  fairness, because the code is written for one that may never finish:
  both waits have a deadline.
- **DramInit.** No fairness. Its properties are safety, and power loss
  may interrupt any boot.
- **TsgenSync.** No fairness. Its properties are safety. Time cannot
  stop the CPU, because `Tick` is disabled once `gap` reaches the
  access latency (or the timer period). The behaviour ends, stuttering,
  after the last timer interrupt.

- **El3Interrupts.** Weak fairness on `Exit`, because BL31 setup runs
  to its end. Weak fairness on the four handler steps together: at run
  time the GIC signals a pending Group 0 interrupt, the CPU takes the
  FIQ, and the handler runs to its end with FIQs masked. Timers get no
  fairness.

- **DtMemory, Bs1000Pcie.** None: the state never changes, and
  Bs1000Pcie has no state.

## What is not modelled

See `components` in PROJECT.json for the reasons. In brief:

- **Pure I/O or constant definitions.** The splash screen, the VDU, the
  SMMU/USB/LCRU register setup, the NIC security and ITS target writes
  of `pcie_init()`, the straight-line early setup of
  `bs1000_bl31_setup.c`, and the MediaTek platform definitions.
- **BS1000 DDR I/O and ODT.** `ddr_io.c` maps a port number to a chip
  and controller block for the BS1000 DDR driver, which is not under
  `src/`; neither is the address map to check it against.
  `ddr_odt_configuration()` picks one of four constant rows by DIMM and
  rank count. Its values mean something only against the PHY and DRAM
  data sheets.
- **Not modelled in `pcie_init()`.** Two nodes for one controller (an
  `assert`, so a release build keeps the last). The chip index taken
  from `reg`, which is not bounds-checked against `PLATFORM_CHIP_COUNT`;
  `PLATFORM_ADDR_CHIP` is defined outside `src/`.
- **Not yet modelled in BM1000 DDR.**
  - The SAR regions, DIMMCTL and the DQ bit map of
    `baikal_ddrc_set_registers()`. No memory-map header in `src/` gives
    a reference to check them against.
  - The ZQ, PLL and RDIMM control-word registers of
    `baikal_ddrphy_set_registers()`.

- **Not modelled in the BS1000 timestamp generators.**
  - Drift between the chips' reference clocks. With drift, a resync also
    sets a slave that ran fast back by the drift.
  - The TSGEN_TS pair, which runs the same code on an independent
    counter.
  - The NIC security writes.
  - The path from the timer to `SyncTimerIrq`. El3Interrupts models it
    separately, without the resync.

- **Not modelled in the EL3 interrupt path.**
  - The timer period (`freq / rate`).
  - The GIC driver's initialisation, of which only the Group 0
    membership enters.
  - Interrupt priorities, since every configured secure interrupt has
    the same one.
  - Why the race in the handler matters only in principle. The handler
    acknowledges without checking the ID it is given, and ends the ID it
    read before. With one Group 0 ID the two always agree. With the
    second line made Group 0 in the model, `TimerInterruptServed`
    fails.

- **Not modelled in the BS1000 memory description.**
  - The EDAC enable of `baikal_fdt_ddr_node_enable()`. It looks only at
    the even slot of each controller, and at the type byte without the
    checksum. So a controller fitted only in its odd slot gets no EDAC
    node. Nothing depends on that node, and the specification does not
    say which controllers need one.
  - `bs1000_validate_ns_entrypoint()` knows the windows, not the fitted
    memory. It accepts entry points in a window with no DIMM behind it,
    and it rejects the memory that other chips' `/memory` nodes report.
    `ReportedMemoryAccepted` checks only the direction that must hold.
  - The I2C transfers of `baikal_dimm_spd_read()`.
  - The PSCI power-state handlers. Their partners (the PSCI framework,
    the secondary-core hold loop, the `ca75_*` helpers) are not in
    `src/`.
