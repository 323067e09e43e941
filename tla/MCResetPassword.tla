--------------------------- MODULE MCResetPassword ---------------------------
(***************************************************************************)
(* Safety: two resets that may overlap, with the user and two luan         *)
(* processes (the one in reset mode and the one before or after it, or one *)
(* started by hand), or three processes as long as none was started in     *)
(* reset mode.                                                             *)
(* Liveness: one reset and two processes on a free port.                   *)
(***************************************************************************)
EXTENDS ResetPassword, TLC

CONSTANTS r1, r2

MCTwoProcs == 1..2
MCProcs == 1..3
MCReset == {r1}
MCResets == {r1, r2}

Symmetry == Permutations(MCResets)

\* The bound on processes: the third one is for the supervisor by itself.
ThirdWithoutResets ==
    phase[3] # "unborn" => flow = NoFlow /\ env = "normal" /\ \A p \in Procs : mode[p] = "normal"

FreePortInit == FlowInit /\ port = NoProc

FreePortSpec == FreePortInit /\ [][FlowNext]_flowVars /\ Fairness /\ FlowFairness
==============================================================================
