--------------------------- MODULE MCBrowserWSPool ---------------------------
(***************************************************************************)
(* Three calls, two lives of the browser and an answer that names no       *)
(* endpoint, three connections, one event.                                 *)
(***************************************************************************)
EXTENDS BrowserWSPool

CONSTANTS c1, c2, c3, u1, u2, bad

MCCalls == {c1, c2, c3}
MCUrls == {u1, u2}
MCBadUrls == {bad}
==============================================================================
