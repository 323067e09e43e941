------------------------------ MODULE LuaSection ------------------------------
(***************************************************************************)
(* What the global Lua lock promises its callers: at most one thread is    *)
(* inside a lua_lock ... lua_unlock section, and the section is given up   *)
(* before another thread enters it (there is no handing over).             *)
(***************************************************************************)
CONSTANT Threads

VARIABLE inside   \* the threads that are inside a section

Init == inside = {}

Enter(t) == inside = {} /\ inside' = {t}

Leave(t) == inside = {t} /\ inside' = {}

Next == \E t \in Threads : Enter(t) \/ Leave(t)

Spec == Init /\ [][Next]_inside
===============================================================================
