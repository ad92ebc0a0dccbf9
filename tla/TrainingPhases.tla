--------------------------- MODULE TrainingPhases ---------------------------
(***************************************************************************)
(* What the training of one DDR port promises, independent of registers:  *)
(* the hardware training phases run one after the other in a fixed order, *)
(* a port that fails stops for good, and every port eventually either     *)
(* finishes or fails (every wait is bounded by a timeout).                *)
(*                                                                         *)
(* DdrTraining refines this specification.                                 *)
(***************************************************************************)
EXTENDS Naturals, Sequences

VARIABLE stage

\* The order in which ddr_init() and baikal_ddrphy_dram_init() run the phases.
Order == <<"PhyReset", "PhyInit", "DramInit", "WriteLeveling", "DqsGate",
           "AddressDataTrain", "VrefTrain", "Enable", "Done">>

Stages == {Order[i] : i \in 1..Len(Order)} \cup {"Failed"}

Terminal == {"Done", "Failed"}

Position(s) == CHOOSE i \in 1..Len(Order) : Order[i] = s

TypeOK == stage \in Stages

Init == stage = "PhyReset"

\* The phase in progress completes and the next one starts.
Advance ==
  /\ stage \notin Terminal
  /\ stage' = Order[Position(stage) + 1]

\* Any phase may end the training of the port with a failure.
Fail ==
  /\ stage \notin Terminal
  /\ stage' = "Failed"

Next == Advance \/ Fail

Spec == Init /\ [][Next]_stage /\ WF_stage(Next)
=============================================================================
