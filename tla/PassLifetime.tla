---------------------------- MODULE PassLifetime ----------------------------
(***************************************************************************)
(* One ConvertTritonGPUToLLVM pass object and the tmaMetadata member it    *)
(* keeps across calls of runOnOperation.  A pass built without metadata    *)
(* points the member at a local of runOnOperation (tmaMetaDataDebug); the  *)
(* main conversion's load/store patterns write TMA metadata through it.    *)
(***************************************************************************)
EXTENDS Naturals

CONSTANTS
    Creators,   \* which createConvertTritonGPUToLLVMPass the pass came from
    MaxRuns     \* how many modules the pass object is run on

\* The metadata object a run's local tmaMetaDataDebug is; the caller's.
Local(n) == <<"local", n>>
Caller == "caller"

VARIABLES
    tmaMetadata,  \* the member: "null", Caller or Local(n)
    runs,         \* calls of runOnOperation so far
    dead,         \* metadata objects whose lifetime has ended
    wroteDead     \* some run wrote metadata into an object already dead

vars == <<tmaMetadata, runs, dead, wroteDead>>

\* The default constructor leaves the member nullptr; the other factory
\* stores the caller's pointer, which outlives the pass.
Init ==
    /\ \E c \in Creators : tmaMetadata = IF c = "default" THEN "null" ELSE Caller
    /\ runs = 0
    /\ dead = {}
    /\ wroteDead = FALSE

\* One call of runOnOperation that reaches the main conversion: the member
\* is pointed at this call's local if it is null, the patterns write
\* through it, and the local dies when the call returns.
Run ==
    /\ runs < MaxRuns
    /\ LET n == runs + 1
           target == IF tmaMetadata = "null" THEN Local(n) ELSE tmaMetadata
       IN /\ tmaMetadata' = target
          /\ wroteDead' = (wroteDead \/ target \in dead)
          /\ dead' = dead \cup {Local(n)}
          /\ runs' = n

Spec == Init /\ [][Run]_vars

\* Every run writes its TMA metadata into an object that is alive: the
\* metadata output is scoped to one compilation (spec, pass state).
NoDanglingMetadata == ~wroteDead

=============================================================================
