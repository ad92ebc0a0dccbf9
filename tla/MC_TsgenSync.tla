---------------------------- MODULE MC_TsgenSync ----------------------------
(* TsgenSync for TLC: a low word of 8 bits, so that the high word carries  *)
(* at most twice a run, the master started at every phase of it.           *)
EXTENDS TsgenSync

MC_MasterStart == 256..511
MC_SlaveStart == {3, 40}
====
