----------------------------- MODULE MCLuaRunner -----------------------------
(***************************************************************************)
(* Three luan processes: two sessions of the app and one started by hand,  *)
(* or three sessions, with the port free or taken by another server.       *)
(***************************************************************************)
EXTENDS LuaRunner

MCProcs == 1..3
==============================================================================
