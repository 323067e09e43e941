--------------------------- MODULE MCChromeManager ---------------------------
(***************************************************************************)
(* A free and a taken port, two views, two listeners, two overlapping      *)
(* calls and two Chromes.                                                  *)
(***************************************************************************)
EXTENDS ChromeManager

CONSTANTS c1, c2, t1, t2

MCCallers == {c1, c2}
MCTokens == {t1, t2}
MCPorts == {9323, 9324}
MCTaken == {9324}
==============================================================================
