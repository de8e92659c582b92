------------------------------- MODULE MCStop -------------------------------
(* Small instances of the board and of the Stop hook's gates for TLC.  Of the *)
(* board the gates see only the set of incomplete tasks, any set at every     *)
(* Stop; so one of the two moves in each behaviour, and `part` says which.    *)
EXTENDS MCSpecStore, StopGate

CONSTANTS t1, t2, r1

MCTasks == {t1, t2}
MCJudgeTasks == MCTasks
MCFragments == {{t1, t2}}
MCRivals == {r1}

\* No cap at all, and a cap of each kind.
NoCaps == [stalled |-> 0, stop |-> 0, handoff |-> 0]
MCCaps == {NoCaps, [stalled |-> 2, stop |-> 3, handoff |-> 2]}

VARIABLE part

allVars == <<part, vars, stopVars>>
MCInit == part \in {"board", "stop"} /\ Init /\ StopInit /\ (part = "board" => caps = NoCaps)
MCNext ==
  /\ UNCHANGED part
  /\ \/ part = "board" /\ Next /\ UNCHANGED stopVars
     \/ part = "stop" /\ StopNext /\ UNCHANGED vars
MCSpec == MCInit /\ [][MCNext]_allVars

\* No step reads how often the soft gates nagged, and no property of the run asks.
Told == [hist EXCEPT !.nagged = 0, !.nudged = 0]

\* The board's states are those of View.
MCView ==
  IF part = "board" THEN <<part, View>>
  ELSE <<part, caps, led, at, open, again, mem, Told>>

\* No constant tells one task of the Stop hook's from the other.
MCSymmetry == Permutations(MCTasks)
=============================================================================
