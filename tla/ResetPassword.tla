---------------------------- MODULE ResetPassword ----------------------------
(***************************************************************************)
(* Resetting the root password from the settings sheet, performResetPassword *)
(* in LuanMac/ContentView.swift: a task that drives the runner through     *)
(* stop, a start with ALLOW_RESET_ROOT, a request, stop and a normal start, *)
(* waiting between them while everything else goes on.                     *)
(*                                                                         *)
(* Nothing keeps others away from the runner meanwhile: the sheet can be   *)
(* dismissed, which leaves the task running and the start and stop button  *)
(* within reach, and another sheet knows nothing of the task of the first. *)
(***************************************************************************)
EXTENDS LuaRunner

CONSTANT Resets   \* sheets, each with one task at a time

VARIABLE flow   \* where the task of each sheet is

flowVars == <<vars, flow>>

\* gaveUp: the last task of the sheet ended without its stop and normal start.
Over == {"none", "gaveUp"}
Stages == Over \cup {"stopped", "started", "asking", "leaving"}

FlowTypeOK == TypeOK /\ flow \in [Resets -> Stages]

NoFlow == [r \in Resets |-> "none"]

FlowInit == Init /\ flow = NoFlow

At(r, here, there) == app = "up" /\ flow[r] = here /\ flow' = [flow EXCEPT ![r] = there]

\* runner.stop() and runner.start() are calls: they do nothing out of turn.
CallStop == IF CanStop /\ process # NoProc THEN Stop ELSE UNCHANGED vars

CallStart(e) == IF CanStart /\ process = NoProc THEN Start(e) ELSE UNCHANGED vars

StopCurrent(r) == (\E over \in Over : At(r, over, "stopped")) /\ CallStop

StartInResetMode(r) == At(r, "stopped", "started") /\ state # "stopping" /\ CallStart("reset")

ServiceUp(r) == At(r, "started", "asking") /\ state = "running" /\ UNCHANGED vars

\* The same poll, and no URL for the request.
InvalidURL(r) == At(r, "started", "gaveUp") /\ state = "running" /\ UNCHANGED vars

\* Mutant of ServiceNotUp: the polls never end.
ServicePolledForEver(r) == FALSE

\* Fifty polls, 200 ms apart, did not see the service running.
ServiceNotUp(r) == At(r, "started", "gaveUp") /\ state # "running" /\ UNCHANGED vars

\* Mutant: the service is not stopped after the request.
LeaveWithoutStop(r) == At(r, "asking", "leaving") /\ UNCHANGED vars

\* The answer to the request, good or bad.
LeaveResetMode(r) == At(r, "asking", "leaving") /\ CallStop

RestartNormally(r) == At(r, "leaving", "none") /\ state # "stopping" /\ CallStart("normal")

Flow ==
    \E r \in Resets :
        \/ StopCurrent(r) \/ StartInResetMode(r)
        \/ ServiceUp(r) \/ InvalidURL(r) \/ ServiceNotUp(r)
        \/ LeaveResetMode(r) \/ RestartNormally(r)

FlowNext ==
    \/ Internal /\ flow' = IF app' = "gone" THEN NoFlow ELSE flow
    \/ User /\ UNCHANGED flow
    \/ Flow

\* The main actor comes to every task that is ready, between the calls of
\* others.  A task that waits for the end of a stop looks every 100 ms, and the
\* next stop is at least 200 ms away, the delay of the first health check.
FlowFairness ==
    \A r \in Resets :
        /\ SF_flowVars(StartInResetMode(r))
        /\ SF_flowVars(ServiceUp(r) \/ InvalidURL(r) \/ ServiceNotUp(r))
        /\ SF_flowVars(LeaveResetMode(r))
        /\ SF_flowVars(RestartNormally(r))

FlowSpec == FlowInit /\ [][FlowNext]_flowVars

FairFlowSpec == FlowSpec /\ Fairness /\ FlowFairness

-------------------------------------------------------------------------------
(* Properties. *)

\* ContentView.swift 597-680: a reset always ends; it cannot wait for ever
\* for a service that does not stop or does not come up, whatever the user and
\* other resets do to the service meanwhile.
ResetEnds == \A r \in Resets : flow[r] \notin Over ~> flow[r] \in Over

\* ContentView.swift 605-669: a service that accepts a new root password is
\* wanted only as long as some reset is on its way to the stop that ends it, or
\* after one that gave up before its stop.  Nothing the user, other resets,
\* the service or other processes do between makes a stop miss it.
ResetModeIsHeld ==
    \A p \in Procs : mode[p] = "reset" /\ pipe[p] = "open" =>
        \E r \in Resets : flow[r] \in {"stopped", "started", "asking", "gaveUp"}

\* ContentView.swift 661: the service does not stay in reset mode when every
\* reset is over.
ResetModeEnds ==
    /\ \A r \in Resets : flow[r] \in Over
    /\ state \in {"starting", "running"} /\ process # NoProc
    => mode[process] = "normal"
==============================================================================
