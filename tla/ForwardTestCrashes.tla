------------------------- MODULE ForwardTestCrashes -------------------------
(***************************************************************************)
(* ForwardTestWorker with one history variable: how many run children of   *)
(* each forward test ended, up to the crash limit. It changes nothing that *)
(* the worker does.                                                        *)
(***************************************************************************)
EXTENDS ForwardTestWorker

VARIABLE
    ends    \* run children of each forward test that ended by themselves, at most CrashLimit

crashVars == <<vars, ends>>

CrashInit == Init /\ ends = [f \in ForwardTests |-> 0]

RunChildEnds(f) == mode[f] = "run" /\ child[f] \notin ExitCodes /\ child'[f] \in ExitCodes

CountEnds ==
    ends' = [f \in ForwardTests |->
                IF RunChildEnds(f) /\ ends[f] < CrashLimit THEN ends[f] + 1 ELSE ends[f]]

CrashNext == Next /\ CountEnds

CrashSpec == CrashInit /\ [][CrashNext]_crashVars

\* The crash count is never more than the number of run children that ended: one crash is one
\* crash, also when the worker has to record its end again (12.7: "After 3 crashes in a row, the
\* status is 'failed'").
CrashesCountedOnce == \A f \in ForwardTests : crashCount[f] <= ends[f]
=============================================================================
