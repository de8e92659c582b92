------------------------------- MODULE Board -------------------------------
(***************************************************************************)
(* The evidence spec's task board, as operators on the spec document:      *)
(* what spec_tasks, heavy_workflow, spec_judge and spec_stop_validate do   *)
(* to it.  Titles, checks, outputs and citations are left out.  A task's   *)
(* id is its place in the list: "T{len+1}" is minted on append, and no     *)
(* code removes a task.                                                    *)
(***************************************************************************)
EXTENDS Naturals, FiniteSets, Sequences

CONSTANTS
  StallCap,      \* UNIFABLE_FRONTIER_STALL_CAP
  MaxRevises,    \* JUDGE_MAX_REVISES_PER_TASK
  MaxJudgeOpen   \* JUDGE_MAX_UNRESOLVED_ADDED

ASSUME BoardConstants ==
  /\ StallCap \in Nat \ {0}
  /\ MaxRevises \in Nat
  /\ MaxJudgeOpen \in Nat

Withdrawn == {"retracted", "superseded"}
Resolved == {"validated"} \cup Withdrawn                            \* RESOLVED_STATUSES
FrontierResolved == {"rejected_approach", "accepted_approach"} \cup Withdrawn
Outcomes == {"rejected_approach", "still_viable", "accepted_approach"}
Statuses == Resolved \cup Outcomes \cup {"pending", "failed", "blocked"}

Task ==
  [kind    : {"requirement", "frontier", "primary"},
   status  : Statuses,
   by      : {"agent", "judge"},    \* added_by
   winner  : BOOLEAN,               \* comparison_winner
   revised : BOOLEAN,               \* _revise_this_stop
   sigs    : 0..MaxRevises]         \* how many _revise_sigs

Doc ==
  [seeded : BOOLEAN,                \* goal_seeded
   heavy  : BOOLEAN,                \* heavy_workflow
   stall  : 0..StallCap,            \* frontier_stall_blocks
   tasks  : Seq(Task)]

Scaffold(heavy) == [seeded |-> TRUE, heavy |-> heavy, stall |-> 0, tasks |-> << >>]

(***************************************************************************)
(* Reading the board.                                                      *)
(***************************************************************************)
Ids(d) == DOMAIN d.tasks
Status(d, i) == d.tasks[i].status
OfKind(d, k) == {i \in Ids(d) : d.tasks[i].kind = k}
Frontiers(d) == OfKind(d, "frontier")
HasPrimary(d) == OfKind(d, "primary") # {}
Accepted(d) == {i \in Frontiers(d) : Status(d, i) = "accepted_approach"}
Viable(d) == {i \in Frontiers(d) : Status(d, i) = "still_viable"}
Adopted(d) == {i \in Frontiers(d) : d.tasks[i].winner}
AnyFrontierAccepted(d) == Adopted(d) \cup Accepted(d) # {}

FrontierIsResolved(t) == t.winner \/ t.status \in FrontierResolved \cup {"validated"}

\* Faulty variant: a frontier the judge withdrew does not count as ruled out.
AllFrontiersRuledOut(d) ==
  /\ Cardinality(Frontiers(d)) >= 2
  /\ \A i \in Frontiers(d) : Status(d, i) = "rejected_approach"

AllFrontiersRejected(d) ==
  /\ Cardinality(Frontiers(d)) >= 2
  /\ \A i \in Frontiers(d) : Status(d, i) \in FrontierResolved \ {"accepted_approach"}

AllFrontiersTerminal(d) ==
  /\ Cardinality(Frontiers(d)) >= 2
  /\ \A i \in Frontiers(d) : FrontierIsResolved(d.tasks[i])

DeclareComplete(d) == ~d.seeded /\ Cardinality(Frontiers(d)) >= 2 /\ HasPrimary(d)

\* Faulty variant: an accepted frontier counts as ruled out.
PhaseTerminal(d) ==
  IF ~DeclareComplete(d) THEN "declare"
  ELSE IF Adopted(d) # {} THEN "adopted"
  ELSE IF AllFrontiersTerminal(d) THEN "primary" ELSE "frontier"

Phase(d) ==
  IF ~DeclareComplete(d) THEN "declare"
  ELSE IF Adopted(d) # {} THEN "adopted"
  ELSE IF AllFrontiersRejected(d) THEN "primary" ELSE "frontier"

IsHeavy(d) == d.heavy \/ \E i \in Ids(d) : d.tasks[i].kind # "requirement"

\* Open for Stop validation (_task_is_pending).
Pending(d) ==
  {i \in Ids(d) : LET t == d.tasks[i] IN
     /\ t.status \notin Resolved \cup {"blocked"}
     /\ t.kind = "frontier" => ~t.winner /\ t.status \notin {"rejected_approach", "accepted_approach"}}

\* The tasks all_tasks_validated still waits for.
TaskIsResolved(t) ==
  CASE t.kind = "frontier" -> IF t.winner THEN t.status \in {"accepted_approach", "validated"}
                                          ELSE FrontierIsResolved(t)
    [] t.kind = "primary" -> t.status \in {"validated", "superseded"}
    [] OTHER -> t.status \in Resolved

Incomplete(d) == {i \in Ids(d) : ~TaskIsResolved(d.tasks[i])}

\* ... and the tasks the agent has to add before anything can be complete.
NeedsAgent(d) ==
  \/ d.tasks = << >>
  \/ IsHeavy(d) /\ (Cardinality(Frontiers(d)) < 2 \/ ~HasPrimary(d))

JudgeOwnedOpen(d) == {i \in Ids(d) : d.tasks[i].by = "judge" /\ Status(d, i) \notin Resolved}

(***************************************************************************)
(* Phase changes.                                                          *)
(***************************************************************************)
SetStatus(d, S, st) ==
  [d EXCEPT !.tasks = [i \in Ids(d) |->
     IF i \in S THEN [d.tasks[i] EXCEPT !.status = st] ELSE d.tasks[i]]]

\* sync_heavy_phase; the phase it caches is never read back for a decision.
Sync(d) == IF Adopted(d) = {} THEN d ELSE SetStatus(d, OfKind(d, "primary"), "superseded")

AdvancePrimary(d) ==
  LET e == Sync(d) IN
  IF Phase(e) # "primary" THEN e
  ELSE SetStatus(e, {i \in OfKind(e, "primary") : Status(e, i) = "blocked"}, "pending")

Adopt(d, w) ==
  [SetStatus(d, Accepted(d) \ {w}, "rejected_approach") EXCEPT !.tasks[w].winner = TRUE]

\* Faulty variant: adopts again when a frontier was adopted before.
FinalizedAgain(d) ==
  IF ~AllFrontiersTerminal(d) \/ Accepted(d) = {} THEN {Sync(d)}
  ELSE {AdvancePrimary(Adopt(d, w)) : w \in Accepted(d)}

\* finalize_heavy_adoption ranks the accepted frontiers by exit code, which is
\* not modelled: any of them may win.
Finalized(d) ==
  IF Adopted(d) # {} THEN {Sync(d)}
  ELSE IF ~AllFrontiersTerminal(d) \/ Accepted(d) = {} THEN {d}
  ELSE {AdvancePrimary(Adopt(d, w)) : w \in Accepted(d)}

\* Every frontier explored, none accepted, one still viable: only the arbiter
\* below can free the primary.
Stalled(d) ==
  /\ Cardinality(Frontiers(d)) >= 2 /\ HasPrimary(d)
  /\ Phase(d) = "frontier" /\ ~AnyFrontierAccepted(d)
  /\ Viable(d) # {}
  /\ \A i \in Frontiers(d) : FrontierIsResolved(d.tasks[i]) \/ i \in Viable(d)

\* Faulty variant: gives up one Stop late.
ResolveStallLate(d) ==
  IF ~Stalled(d) THEN [d EXCEPT !.stall = 0]
  ELSE IF d.stall < StallCap THEN [d EXCEPT !.stall = @ + 1]
  ELSE AdvancePrimary([SetStatus(d, Viable(d), "rejected_approach") EXCEPT !.stall = 0])

ResolveStall(d) ==
  IF ~Stalled(d) THEN [d EXCEPT !.stall = 0]
  ELSE IF d.stall + 1 < StallCap THEN [d EXCEPT !.stall = @ + 1]
  ELSE AdvancePrimary([SetStatus(d, Viable(d), "rejected_approach") EXCEPT !.stall = 0])

\* clear_stale_heavy_workflow, for a grade below HEAVY
ClearStaleHeavy(d) == [d EXCEPT !.heavy = @ /\ (Frontiers(d) # {} \/ HasPrimary(d))]

(***************************************************************************)
(* Adding and adjusting tasks.                                             *)
(***************************************************************************)
NewTask(kind, status, by) ==
  [kind |-> kind, status |-> status, by |-> by, winner |-> FALSE,
   revised |-> FALSE, sigs |-> 0]

AddTask(d) == [d EXCEPT !.tasks = Append(@, NewTask("requirement", "pending", "agent"))]

AddFrontier(d, by) ==
  Sync([d EXCEPT !.heavy = TRUE, !.tasks = Append(@, NewTask("frontier", "pending", by))])

SetPrimary(d) ==
  Sync([d EXCEPT !.heavy = TRUE, !.tasks = Append(@, NewTask("primary", "blocked", "agent"))])

Supersedable(d) == {i \in Ids(d) : Status(d, i) \in {"pending", "failed"}}

\* _apply_supersedes_bundle
Supersede(d, S) ==
  LET mine == {i \in S : d.tasks[i].by = "judge"}
  IN SetStatus(SetStatus(d, mine, "retracted"), S \ mine, "superseded")

\* A requirement the judge adds, with the open tasks S it stands in for.
AddJudged(d, S) ==
  LET e == Supersede(d, S)
  IN [e EXCEPT !.tasks = Append(@, NewTask("requirement", "pending", "judge"))]

JudgeMayAdd(d) == Cardinality(JudgeOwnedOpen(d)) < MaxJudgeOpen

\* Faulty variant: no limit on the revisions of a task.
RevisableAlways(d) == {i \in Ids(d) : Status(d, i) \notin Withdrawn}

Revisable(d) == {i \in Ids(d) : Status(d, i) \notin Withdrawn /\ d.tasks[i].sigs < MaxRevises}

Revise(d, i) ==
  [d EXCEPT !.tasks[i].status = "pending", !.tasks[i].revised = TRUE, !.tasks[i].sigs = @ + 1]

(***************************************************************************)
(* One Stop verdict (_apply_check_result, after the requirements it adds). *)
(***************************************************************************)
Judged(d, i, verdict, outcome) ==
  CASE d.tasks[i].kind = "frontier" -> outcome
    [] d.tasks[i].kind = "primary" /\ Adopted(d) # {} -> "superseded"
    [] OTHER -> IF verdict THEN "validated" ELSE "failed"

\* Faulty variant: a task superseded earlier in the pass is judged all the same.
RecordAlways(d, i, verdict, outcome) ==
  AdvancePrimary(SetStatus(d, {i}, Judged(d, i, verdict, outcome)))

Record(d, i, verdict, outcome) ==
  IF Status(d, i) \in Withdrawn THEN d
  ELSE AdvancePrimary(SetStatus(d, {i}, Judged(d, i, verdict, outcome)))
=============================================================================
