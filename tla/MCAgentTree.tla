---------------------------- MODULE MCAgentTree ----------------------------
(* Two subtasks of different types, each decomposed into two independent    *)
(* atomic tasks, into a chain of two, or into nothing that can be run.      *)
EXTENDS AgentTree

CONSTANTS th1, th2, th3

ThreeThreads == {th1, th2, th3}
TwoThreads == {th1, th2}
MCAtoms == {1, 2}
MCPlans == {<<>>, <<{1, 2}>>, <<{1}, {2}>>}
MCTypeOf == [m \in Subtasks |-> IF m = 1 THEN "file" ELSE "system"]
=============================================================================
