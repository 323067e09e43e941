------------------------------- MODULE LuaAlloc -------------------------------
(***************************************************************************)
(* l_alloc of utlua/caplua.c, the allocator of the lua_State, and the      *)
(* total it keeps in lua_mem_total, which the metrics of another thread    *)
(* read without the Lua lock: also between the two halves of a request.    *)
(***************************************************************************)
EXTENDS Integers, FiniteSetsExt

CONSTANTS
    Blocks,    \* the pointers Lua holds
    MaxSize,   \* bound: size of a block
    Slack,     \* what malloc_size says beyond the size asked for
    MaxLost,   \* bound: bytes lost to the count
    Width      \* number of values of a size_t

ASSUME AllocAssumption ==
    /\ IsFiniteSet(Blocks) /\ Blocks # {}
    /\ MaxSize \in Nat \ {0} /\ Slack \in Nat /\ MaxLost \in Nat /\ Width \in Nat
    /\ Width > Cardinality(Blocks) * (MaxSize + Slack)

NoRequest == <<>>

VARIABLES
    size,      \* malloc_size of each block, 0 for a null pointer
    total,     \* lua_mem_total
    request,   \* block and new size of the request under way
    lost       \* history: sizes subtracted by requests that failed

allocVars == <<size, total, request, lost>>

Sizes == 0..MaxSize + Slack

AllocTypeOK ==
    /\ size \in [Blocks -> Sizes]
    /\ total \in 0..Width - 1
    /\ request \in {NoRequest} \cup (Blocks \X (0..MaxSize))
    /\ lost \in 0..MaxLost

AllocInit ==
    /\ size = [b \in Blocks |-> 0]
    /\ total = 0 /\ request = NoRequest /\ lost = 0

Subtract(b, n) ==
    /\ request = NoRequest
    /\ request' = <<b, n>>
    /\ total' = (total - size[b]) % Width
    /\ UNCHANGED <<size, lost>>

FreeBlock ==
    /\ request # NoRequest /\ request[2] = 0
    /\ size' = [size EXCEPT ![request[1]] = 0]
    /\ request' = NoRequest
    /\ UNCHANGED <<total, lost>>

Resized(s) ==
    /\ request # NoRequest /\ request[2] > 0
    /\ s \in request[2]..request[2] + Slack
    /\ size' = [size EXCEPT ![request[1]] = s]
    /\ request' = NoRequest

\* Mutant: the size asked for is added, not the one the block has got.
ReallocAsked == \E s \in Sizes : Resized(s) /\ total' = (total + request[2]) % Width /\ UNCHANGED lost

Realloc == \E s \in Sizes : Resized(s) /\ total' = (total + s) % Width /\ UNCHANGED lost

\* The block stays as it was; what was subtracted is not added again.  Lua
\* then collects garbage and asks once more, or raises an error.
ReallocFails ==
    /\ request # NoRequest /\ request[2] > size[request[1]]
    /\ lost + size[request[1]] <= MaxLost
    /\ lost' = lost + size[request[1]]
    /\ request' = NoRequest
    /\ UNCHANGED <<size, total>>

AllocNext ==
    \/ \E b \in Blocks, n \in 0..MaxSize : Subtract(b, n)
    \/ FreeBlock \/ Realloc \/ ReallocFails

AllocSpec == AllocInit /\ [][AllocNext]_allocVars

-------------------------------------------------------------------------------
(* Properties. *)

Live == MapThenSumSet(LAMBDA b : size[b], Blocks)

\* caplua.c 200-211: between requests the total is the size of the live blocks
\* without what failed requests have taken from it, as a size_t.
TotalIsLiveLessLost == request = NoRequest => total = (Live - lost) % Width

\* caplua.c 201, LuaBridge.m 447: as long as no request has failed, the metrics
\* never read more than is allocated, nor a total that has gone below zero.
NeverReadsMore == lost = 0 => total <= Live

\* caplua.c 200-211: the two together.
TotalIsTrue == TotalIsLiveLessLost /\ NeverReadsMore
==============================================================================
