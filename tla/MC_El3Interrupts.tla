--------------------------- MODULE MC_El3Interrupts ---------------------------
(***************************************************************************)
(* Two timer blocks: the BS1000 sync timer, wired to IRQ 90, the one ID    *)
(* baikal_gicv3.c configures as Group 0, and a second block wired to IRQ   *)
(* 91, which stays Group 1; another EL3 client may claim 29, 90 or 91.     *)
(* Both tables hold two entries, so both timers, or a timer and another    *)
(* client, fill the EL3 table and a third request is refused.              *)
(***************************************************************************)
EXTENDS El3Interrupts

MC_Wiring == [b \in Bases |-> IF b = "SyncTimer" THEN 90 ELSE 91]
MC_Bases == {"SyncTimer", "Timer1"}
MC_Irqs == {29, 90, 91}
MC_Group0 == {90}
=============================================================================
