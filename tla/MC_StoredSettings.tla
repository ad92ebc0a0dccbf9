--------------------------- MODULE MC_StoredSettings ---------------------------
(***************************************************************************)
(* StoredSettings for TLC. The SPD timings, in clocks, of a DDR4-2400 x8  *)
(* module (CL = tRCD = tRP) and of a DDR4-1600 one whose tRP is shorter   *)
(* than its tRCD, so that a timing stored in the wrong field shows.        *)
(***************************************************************************)
EXTENDS StoredSettings

MC_Timings == {<<17, 17, 17, 39, 26>>, <<11, 11, 10, 28, 20>>}
====
