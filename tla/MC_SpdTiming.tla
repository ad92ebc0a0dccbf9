---------------------------- MODULE MC_SpdTiming ----------------------------
(***************************************************************************)
(* SPD values for checking SpdTiming: every tCKAVGmin from 437 ps to    *)
(* 1437 ps, each once; tAAmin 1 ps below and 25 ps above 12.5 ns and     *)
(* 15 ns; four CAS latency sets: DDR4-2133 (CL 10-16), DDR4-2400          *)
(* (CL 10-18), a high-range set (CL 23-24) and an empty one; tWRmin left *)
(* empty (0) or the DDR4 value of 15 ns; and two DIMMs for the other    *)
(* timings: a DDR4-2400 x8 8 Gb UDIMM and a DDR4-3200 x16 16 Gb RDIMM    *)
(* (tRFC1 550 ns, the longest refresh of DDR4).                          *)
(***************************************************************************)
EXTENDS DdrTimings

MC_TckMtbs == 4..11
MC_TckFtbs == -63..62
MC_TaaMtbs == {100, 120}
MC_TaaFtbs == {-1, 25}
MC_CasBytes == {<<248, 3, 0, 0>>, <<248, 15, 0, 0>>, <<3, 0, 0, 128>>, <<0, 0, 0, 0>>}
MC_TwrMtbs == {0, 120}

\* DDR4-2400 UDIMM, x8 devices of 8 Gb: tRCD = tRP = 13.32 ns, tRAS 32 ns,
\* tRC 45.32 ns, tRFC1/4 350/160 ns, tFAW 21 ns, tRRD_S/L 3.3/4.9 ns.
Udimm2400 ==
  [trcd_min |-> 107, fine_trcd_min |-> -55, trp_min |-> 107, fine_trp_min |-> -55,
   tras_trc_ext |-> 17, tras_min_lsb |-> 0, trc_min_lsb |-> 107, fine_trc_min |-> -55,
   twtr_min_ext |-> 0, twtrl_min_lsb |-> 60, twtrs_min_lsb |-> 20,
   trrdl_min |-> 40, fine_trrdl_min |-> -100, trrds_min |-> 27, fine_trrds_min |-> -75,
   trfc1_min_msb |-> 10, trfc1_min_lsb |-> 240, trfc4_min_msb |-> 5, trfc4_min_lsb |-> 0,
   tfaw_msb |-> 0, tfaw_min |-> 168, tccdl_min |-> 40, fine_tccdl_min |-> 0,
   device_width |-> 8, registered_dimm |-> 0]

\* DDR4-3200 RDIMM, x16 devices of 16 Gb: tRCD = tRP = 13.75 ns, tRAS 32 ns,
\* tRC 45.75 ns, tRFC1/4 550/260 ns, tFAW 30 ns, tRRD_S/L 5.3/6.4 ns.
Rdimm3200 ==
  [trcd_min |-> 110, fine_trcd_min |-> 0, trp_min |-> 110, fine_trp_min |-> 0,
   tras_trc_ext |-> 17, tras_min_lsb |-> 0, trc_min_lsb |-> 110, fine_trc_min |-> 0,
   twtr_min_ext |-> 0, twtrl_min_lsb |-> 60, twtrs_min_lsb |-> 20,
   trrdl_min |-> 51, fine_trrdl_min |-> 25, trrds_min |-> 42, fine_trrds_min |-> 50,
   trfc1_min_msb |-> 17, trfc1_min_lsb |-> 48, trfc4_min_msb |-> 8, trfc4_min_lsb |-> 32,
   tfaw_msb |-> 0, tfaw_min |-> 240, tccdl_min |-> 40, fine_tccdl_min |-> 0,
   device_width |-> 16, registered_dimm |-> 1]

MC_Dimms == {Udimm2400, Rdimm3200}
=============================================================================
