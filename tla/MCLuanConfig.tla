----------------------------- MODULE MCLuanConfig -----------------------------
(***************************************************************************)
(* Three starts of luan and two ports: enough for a secret or a port to be *)
(* saved, used again, lost and missed, by hand or from the app.            *)
(***************************************************************************)
EXTENDS LuanConfig
==============================================================================
