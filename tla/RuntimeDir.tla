----------------------------- MODULE RuntimeDir -----------------------------
(***************************************************************************)
(* How a luan process finds its tree of Lua modules: LuanCLI/main.swift,   *)
(* then LuanMac/LuaBridge.m once more, look at documentRoot/runtime and    *)
(* make it a symbolic link to the tree of the build that runs.  The link   *)
(* is removed and created in two steps, between which the process may be   *)
(* killed.  The lock of the document root admits one process at a time.    *)
(***************************************************************************)
EXTENDS Integers, FiniteSets

CONSTANT Builds    \* installed copies of luan

ASSUME BuildAssumption == Builds # {} /\ Builds \cap {"absent", "deployed", "broken", "legacy", "none"} = {}

VARIABLES
    runtime,      \* documentRoot/runtime: absent, a directory deployed by the
                  \* user or one without core.lua, or a link to a tree
    hasSource,    \* builds that main.swift finds a tree for
    hasBundle,    \* builds whose main bundle has one
    hasLegacy,    \* documentRoot/service has core.lua
    build,        \* the build that runs
    step,         \* where it is
    used          \* the tree it runs

dirVars == <<runtime, hasSource, hasBundle, hasLegacy, build, step, used>>

Links == Builds \cup {"legacy"}
Steps == {"source", "sourceLink", "check", "checkLink", "bundle", "bundleLink", "choose"}

DirTypeOK ==
    /\ runtime \in Links \cup {"absent", "deployed", "broken"}
    /\ hasSource \subseteq Builds /\ hasBundle \subseteq hasSource /\ hasLegacy \in BOOLEAN
    /\ build \in Builds
    /\ step \in Steps \cup {"off", "running", "failed"}
    /\ used \in Links \cup {"deployed", "none"}

DirInit ==
    /\ runtime \in {"absent", "deployed", "broken"}
    /\ hasSource \in SUBSET Builds /\ hasBundle \in SUBSET hasSource /\ hasLegacy \in BOOLEAN
    /\ build \in Builds /\ step = "off" /\ used = "none"

IsLink == runtime \in Links

\* core.lua is there, through the link if there is one.
HasCore ==
    \/ runtime = "deployed"
    \/ runtime \in hasSource
    \/ runtime = "legacy" /\ hasLegacy

\* fileExists follows a link: one to a tree that is gone does not exist.
FileExists == HasCore \/ runtime = "broken"

\* Creating a link fails where something is.
CreateLink(target) == runtime' = IF runtime = "absent" THEN target ELSE runtime

Step(here, there) == step = here /\ step' = there

Keep == UNCHANGED <<hasSource, hasBundle, hasLegacy, build>>

StartProcess(b) ==
    /\ step \in {"off", "failed"}
    /\ step' = "source"
    /\ build' = b /\ used' = "none"
    /\ UNCHANGED <<runtime, hasSource, hasBundle, hasLegacy>>

\* Mutant: a link that leads to some build is kept.
RefreshBroken ==
    /\ IF IsLink /\ ~HasCore /\ build \in hasSource
       THEN Step("source", "sourceLink") /\ runtime' = "absent"
       ELSE Step("source", "check") /\ UNCHANGED runtime
    /\ Keep /\ UNCHANGED used

\* main.swift: a link is made anew, for it may lead to an older build.
RefreshSource ==
    /\ IF IsLink /\ build \in hasSource
       THEN Step("source", "sourceLink") /\ runtime' = "absent"
       ELSE Step("source", "check") /\ UNCHANGED runtime
    /\ Keep /\ UNCHANGED used

LinkSource == Step("sourceLink", "check") /\ CreateLink(build) /\ Keep /\ UNCHANGED used

CheckSource ==
    /\ Step("check", IF HasCore THEN "bundle" ELSE IF build \in hasSource THEN "checkLink" ELSE "failed")
    /\ runtime' = IF ~HasCore /\ build \in hasSource /\ FileExists THEN "absent" ELSE runtime
    /\ Keep /\ UNCHANGED used

LinkChecked == Step("checkLink", "bundle") /\ CreateLink(build) /\ Keep /\ UNCHANGED used

\* LuaBridge.m: its own tree before the legacy one, whatever the comment says.
LinkTarget == IF build \in hasBundle THEN build ELSE IF hasLegacy THEN "legacy" ELSE "none"

\* Mutant: a link is made although there is nothing to lead it to.
RefreshForNothing ==
    /\ IF IsLink \/ ~HasCore
       THEN /\ Step("bundle", "bundleLink")
            /\ runtime' = IF IsLink \/ FileExists THEN "absent" ELSE runtime
       ELSE Step("bundle", "choose") /\ UNCHANGED runtime
    /\ Keep /\ UNCHANGED used

RefreshBundle ==
    /\ IF LinkTarget # "none" /\ (IsLink \/ ~HasCore)
       THEN /\ Step("bundle", "bundleLink")
            /\ runtime' = IF IsLink \/ FileExists THEN "absent" ELSE runtime
       ELSE Step("bundle", "choose") /\ UNCHANGED runtime
    /\ Keep /\ UNCHANGED used

LinkBundle == Step("bundleLink", "choose") /\ CreateLink(LinkTarget) /\ Keep /\ UNCHANGED used

Choose ==
    /\ used' = IF HasCore THEN runtime ELSE LinkTarget
    /\ Step("choose", IF used' = "none" THEN "failed" ELSE "running")
    /\ Keep /\ UNCHANGED runtime

\* The end of the process, at any moment.
EndProcess ==
    /\ step \in Steps \cup {"running"}
    /\ step' = "off" /\ used' = "none"
    /\ Keep /\ UNCHANGED runtime

\* Between two runs the user deploys a tree or installs and removes builds.
Deploy ==
    /\ step \in {"off", "failed"}
    /\ ~IsLink
    /\ runtime' = "deployed" /\ step' = "off"
    /\ Keep /\ UNCHANGED used

Install(b) ==
    /\ step \in {"off", "failed"}
    /\ b \notin hasSource
    /\ hasSource' = hasSource \cup {b}
    /\ hasBundle' \in {hasBundle, hasBundle \cup {b}}
    /\ step' = "off"
    /\ UNCHANGED <<runtime, hasLegacy, build, used>>

Remove(b) ==
    /\ step \in {"off", "failed"}
    /\ b \in hasSource
    /\ hasSource' = hasSource \ {b} /\ hasBundle' = hasBundle \ {b}
    /\ step' = "off"
    /\ UNCHANGED <<runtime, hasLegacy, build, used>>

SetUp ==
    RefreshSource \/ LinkSource \/ CheckSource \/ LinkChecked \/ RefreshBundle \/ LinkBundle \/ Choose

DirNext ==
    \/ \E b \in Builds : StartProcess(b) \/ Install(b) \/ Remove(b)
    \/ SetUp \/ EndProcess \/ Deploy

DirSpec == DirInit /\ [][DirNext]_dirVars

-------------------------------------------------------------------------------
(* Properties. *)

\* main.swift 327-349, LuaBridge.m 229-254: whatever an earlier run, complete
\* or killed half-way, has left behind, a build with a tree of its own never
\* fails to find one.
BuildFindsRuntime == step = "failed" => build \notin hasSource

\* main.swift 327-333, LuaBridge.m 235-246: it runs its own tree, or one of the
\* document root, never that of another build to which a link still leads.
\* Whether a legacy tree comes before the own one is left open: the code and
\* the comment at LuaBridge.m 213 disagree.
RunsOwnRuntime ==
    step = "running" /\ build \in hasSource => used \in {build, "deployed", "legacy"}

\* main.swift 327-349, LuaBridge.m 227-254: both of them.
RuntimeIsFound == BuildFindsRuntime /\ RunsOwnRuntime
==============================================================================
