------------------------------ MODULE Bs1000Pcie ------------------------------
(***************************************************************************)
(* pcie_init() of the BS1000 BL31 (bs1000_pcie.c), for one chip.           *)
(*                                                                         *)
(* The function reads the PCIe nodes of the secure device tree into        *)
(* pcie_types[][] and pcie_lanes[][], one entry per controller (the 14     *)
(* DBI bases of pcie_dbis[]), then, chip by chip: sets each controller's   *)
(* device type (panicking on an endpoint where the subsystem has no        *)
(* device-type field), chooses the lane split (SSMODE) of each of the      *)
(* five subsystems from the controllers present, and takes every          *)
(* subsystem with a controller out of power-up reset.                      *)
(*                                                                         *)
(* It runs once, on the boot core, before the MMU is on; nothing happens   *)
(* concurrently and its result is a function of the device tree, so it is *)
(* modelled as operators from a chip's nodes to what the chip is left in; *)
(* a state is one chip's nodes and never changes.                          *)
(* The NIC security and ITS target writes have no branches beyond the      *)
(* type tests modelled here and are not modelled.                          *)
(***************************************************************************)
EXTENDS Integers

CONSTANT LaneValues   \* num-lanes values a node can carry; 0 is also what
                      \* a node without a 4-byte num-lanes property gives

PCIE_TYPE_RC == 1
PCIE_TYPE_EP == 2

\* An SSMODE block that writes nothing, and one that fails its lane check.
KEEP == -1
ERR == -2

Ctrls == 0..13        \* index into pcie_dbis[]: PCIE0_P0 .. PCIE4_P3
Subsystems == 0..4    \* PCIe0 .. PCIe4
Ports(s) == IF s < 3 THEN 0..1 ELSE 0..3
Ctl(s, p) == IF s < 3 THEN 2 * s + p ELSE 6 + 4 * (s - 3) + p

\* What the device tree holds for one controller: "none" is no node at its
\* DBI base, a disabled one, one of another compatible or one whose reg is
\* malformed; those are all skipped by the parse loop.
Nodes == {[compat |-> "none", lanes |-> 0]} \cup [compat : {"rc", "ep"}, lanes : LaneValues]

VARIABLE dt   \* dt[i]: the node of controller i on the chip

\* The parse loop: baikal,bs1000-pcie gives a root complex and
\* baikal,bs1000-pcie-ep an endpoint, with its num-lanes.
Parse(tree) ==
  [types |-> [i \in Ctrls |-> IF tree[i].compat = "rc" THEN PCIE_TYPE_RC
                              ELSE IF tree[i].compat = "ep" THEN PCIE_TYPE_EP ELSE 0],
   lanes |-> [i \in Ctrls |-> IF tree[i].compat = "none" THEN 0 ELSE tree[i].lanes]]

\* Mutant: the default branch logs the endpoint and goes on.
DevTypeRejectsNoPanic(t) == FALSE

\* "Set PCIe device type": only P0 of PCIe0..2 has a device-type field; an
\* endpoint anywhere else ends in plat_panic_handler().
DevTypeRejects(t) == \E i \in Ctrls \ {Ctl(0, 0), Ctl(1, 0), Ctl(2, 0)} : t[i] = PCIE_TYPE_EP

\* The DEVTYPE field of PCIe0..2 as the same switch leaves it.
DevType(t, s) ==
  IF t[Ctl(s, 0)] = PCIE_TYPE_EP THEN "EP"
  ELSE IF t[Ctl(s, 0)] = PCIE_TYPE_RC THEN "RC" ELSE "keep"

\* SSMODE of a two-controller subsystem (PCIe0..2): KEEP when no
\* controller is present, ERR where the code panics.
SsMode2(t, l, s) ==
  LET L(p) == l[Ctl(s, p)] IN
  IF t[Ctl(s, 1)] > 0 THEN IF L(0) <= 8 /\ L(1) <= 8 THEN 2 ELSE ERR
  ELSE IF t[Ctl(s, 0)] > 0 THEN IF L(0) <= 16 THEN 0 ELSE ERR
  ELSE KEEP

\* Mutant: the P2 test comes before the P3 one.
SsMode4SwapP2P3(t, l, s) ==
  LET L(p) == l[Ctl(s, p)] IN
  IF t[Ctl(s, 1)] > 0 THEN IF \A p \in 0..3 : L(p) <= 4 THEN 2 ELSE ERR
  ELSE IF t[Ctl(s, 2)] > 0 THEN IF L(0) <= 8 /\ L(2) <= 8 THEN 1 ELSE ERR
  ELSE IF t[Ctl(s, 3)] > 0 THEN IF L(0) <= 8 /\ L(2) <= 4 /\ L(3) <= 4 THEN 3 ELSE ERR
  ELSE IF t[Ctl(s, 0)] > 0 THEN IF L(0) <= 16 THEN 0 ELSE ERR
  ELSE KEEP

\* SSMODE of a four-controller subsystem (PCIe3, PCIe4): ERR is an ERROR
\* message with the register left as it was.
SsMode4(t, l, s) ==
  LET L(p) == l[Ctl(s, p)] IN
  IF t[Ctl(s, 1)] > 0 THEN IF \A p \in 0..3 : L(p) <= 4 THEN 2 ELSE ERR
  ELSE IF t[Ctl(s, 3)] > 0 THEN IF L(0) <= 8 /\ L(2) <= 4 /\ L(3) <= 4 THEN 3 ELSE ERR
  ELSE IF t[Ctl(s, 2)] > 0 THEN IF L(0) <= 8 /\ L(2) <= 8 THEN 1 ELSE ERR
  ELSE IF t[Ctl(s, 0)] > 0 THEN IF L(0) <= 16 THEN 0 ELSE ERR
  ELSE KEEP

SsMode(t, l, s) == IF s < 3 THEN SsMode2(t, l, s) ELSE SsMode4(t, l, s)

\* The body of the chip loop: a panic in the device-type switch or in the
\* SSMODE blocks of PCIe0..2 stops before any reset is touched; otherwise
\* every subsystem with a controller has power-up reset asserted, PERST
\* cleared and power-up reset deasserted.
ChipInit(tree) ==
  LET p == Parse(tree)
      t == p.types
      l == p.lanes
      panic == DevTypeRejects(t) \/ \E s \in 0..2 : SsMode(t, l, s) = ERR
  IN  [types    |-> t,
       lanes    |-> l,
       panic    |-> panic,
       devtype  |-> [s \in 0..2 |-> DevType(t, s)],
       ssmode   |-> [s \in Subsystems |-> SsMode(t, l, s)],
       released |-> IF panic THEN {}
                    ELSE {s \in Subsystems : \E q \in Ports(s) : t[Ctl(s, q)] # 0}]
-----------------------------------------------------------------------------
(* Bounded inputs: every choice of nodes for the controllers of one        *)
(* subsystem, the others absent.                                           *)
SubsystemTree(s, c) ==
  [i \in Ctrls |-> IF \E q \in Ports(s) : i = Ctl(s, q) THEN c[i - Ctl(s, 0)] ELSE [compat |-> "none", lanes |-> 0]]

PcieInit == \E s \in Subsystems : \E c \in [Ports(s) -> Nodes] : dt = SubsystemTree(s, c)

\* Reference: the lanes each SSMODE gives each port, as the checks before
\* each mode write bound them (0: the port has no lanes in that mode).
Width(s, m) ==
  IF s < 3 THEN (IF m = 0 THEN <<16, 0>> ELSE <<8, 8>>)
  ELSE IF m = 0 THEN <<16, 0, 0, 0>>
  ELSE IF m = 1 THEN <<8, 0, 8, 0>>
  ELSE IF m = 2 THEN <<4, 4, 4, 4>> ELSE <<8, 0, 4, 4>>

Needs(l) == IF l = 0 THEN 1 ELSE l

\* pcie_init() gives every controller of the device tree a lane split with
\* lanes for it, at least num-lanes of them, before the subsystem leaves
\* power-up reset: the order of the SSMODE tests decides the split from
\* the controllers present. A chip either panics or releases the subsystem
\* of every controller it has. The exception is PCIe3/4, where a failed
\* lane check only logs an error and the subsystem leaves reset in the
\* split the register already held.
ModeServesController ==
  LET r == ChipInit(dt) IN
  \A s \in Subsystems :
    ~r.panic =>
      \A q \in Ports(s) : r.types[Ctl(s, q)] # 0 =>
        /\ s \in r.released
        /\ \/ s \in 3..4 /\ r.ssmode[s] = ERR
           \/ r.ssmode[s] \in 0..3 /\ Width(s, r.ssmode[s])[q + 1] >= Needs(r.lanes[Ctl(s, q)])

\* Every controller that leaves reset works in the role its node asks for:
\* an endpoint only on P0 of PCIe0..2 with DEVTYPE set to endpoint, and
\* P0 of PCIe0..2 as a root complex with DEVTYPE set to root complex.
RolesAsDescribed ==
  LET r == ChipInit(dt) IN
  \A s \in Subsystems : \A q \in Ports(s) :
      LET i == Ctl(s, q) IN
      s \in r.released /\ r.types[i] # 0 =>
        /\ r.types[i] = PCIE_TYPE_EP => s < 3 /\ q = 0 /\ r.devtype[s] = "EP"
        /\ r.types[i] = PCIE_TYPE_RC /\ s < 3 /\ q = 0 => r.devtype[s] = "RC"
=============================================================================
