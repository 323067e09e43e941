------------------------------ MODULE MCLuaLock ------------------------------
(***************************************************************************)
(* A main thread and two workers, sections two deep, two saved depths: a   *)
(* section nested in a callback of the event loop inside a protected call. *)
(***************************************************************************)
EXTENDS LuaLock, TLC

CONSTANTS main, w1, w2

MCThreads == {main, w1, w2}

\* The workers are interchangeable; only Main is named by the specification.
MCSymmetry == Permutations({w1, w2})
==============================================================================
