----------------------------- MODULE SpecStore -----------------------------
(***************************************************************************)
(* The spec document and the processes that write it whole: the agent's    *)
(* unifable command line, the prompt hook, the hygiene of the tool hooks,  *)
(* the detached reconcile job and the Stop hook.                           *)
(*                                                                         *)
(* The reconcile job asks its judges about one document and applies their  *)
(* delta to a freshly loaded one under spec_lock.  The Stop hook loads a   *)
(* document, edits it through a whole pass of judge verdicts and saves it, *)
(* without the lock.  The other writers load and save at once, in the      *)
(* agent's turn, and are one step here.  Overlap says whether a reconcile  *)
(* job that outlives the turn may save while a Stop pass runs.             *)
(***************************************************************************)
EXTENDS Board

CONSTANTS
  MaxTasks,     \* bound: tasks ever added
  Overlap       \* whether a reconcile job saves during a Stop pass

ASSUME SpecStoreConstants == MaxTasks \in Nat /\ Overlap \in BOOLEAN

VARIABLES
  doc,      \* the stored document
  stop,     \* the Stop hook: [at, work: its document, items: tasks still to judge]
  parked    \* history: Stop passes in a row that ended with stalled frontiers

vars == <<doc, stop, parked>>

Idle == [at |-> "idle", work |-> Scaffold(FALSE), items |-> {}]
Stopping == stop.at # "idle"

\* The board in use: the Stop hook's while it runs.
board == IF Stopping THEN stop.work ELSE doc

Init ==
  /\ \E heavy \in BOOLEAN : doc = Scaffold(heavy)
  /\ stop = Idle
  /\ parked = 0

\* The agent's turn is over while the Stop hook runs.
Turn == ~Stopping
RoomIn(d) == Len(d.tasks) < MaxTasks

(***************************************************************************)
(* The command line and the prompt hook.                                   *)
(***************************************************************************)
CmdAddTask ==
  /\ Turn /\ RoomIn(doc)
  /\ doc' = AddTask(doc)
  /\ UNCHANGED <<stop, parked>>

CmdAddFrontier ==
  /\ Turn /\ RoomIn(doc)
  /\ doc' = AddFrontier(doc, "agent")
  /\ UNCHANGED <<stop, parked>>

CmdSetPrimary ==
  /\ Turn /\ RoomIn(doc)
  /\ ~HasPrimary(doc)
  /\ doc' = SetPrimary(doc)
  /\ UNCHANGED <<stop, parked>>

CmdRestate ==
  /\ Turn /\ doc.seeded
  /\ doc' = [doc EXCEPT !.seeded = FALSE]
  /\ UNCHANGED <<stop, parked>>

\* ensure_spec_scaffold on a document that is there, for a prompt of another
\* grade.  The Stop hook clears a stale flag again, which this one has done.
Prompt ==
  /\ Turn
  /\ \/ ~doc.heavy /\ doc' = [doc EXCEPT !.heavy = TRUE]
     \/ doc.heavy /\ doc' = ClearStaleHeavy(doc)
  /\ UNCHANGED <<stop, parked>>

\* PreToolUse without the lock, PostToolUse with it; no judge in between.
Hygiene ==
  /\ Turn
  /\ \E d \in Finalized(doc) : d # doc /\ doc' = d
  /\ UNCHANGED <<stop, parked>>

(***************************************************************************)
(* The reconcile job.  It judged an older document; update_spec makes      *)
(* every test again on the one it loads, so a stale delta does what some   *)
(* delta for the present document would: its ids are among the present     *)
(* ones, and the tasks it supersedes are cut down to the open ones.        *)
(***************************************************************************)
Reconciled(d) ==
  {AdvancePrimary(SetStatus(d, {i}, "retracted")) : i \in {j \in Ids(d) : Status(d, j) \notin Resolved}}
  \cup {AdvancePrimary(Revise(d, i)) : i \in Revisable(d)}

Extended(d) ==
  (IF JudgeMayAdd(d) THEN {AdvancePrimary(AddJudged(d, S)) : S \in SUBSET Supersedable(d)} ELSE {})
  \cup (IF Cardinality(Frontiers(d)) < 2 THEN {AddFrontier(d, "judge")} ELSE {})

Update ==
  /\ Turn \/ Overlap
  /\ doc.tasks # << >>
  /\ \/ doc' \in Reconciled(doc)
     \/ RoomIn(doc) /\ doc' \in Extended(doc)
  /\ UNCHANGED <<stop, parked>>

(***************************************************************************)
(* The Stop hook: auto_validate_spec on a document of its own.             *)
(***************************************************************************)
StopBegin ==
  /\ ~Stopping
  /\ \E d \in Finalized(doc) :
       /\ doc' = d
       /\ stop' = [at |-> "heal", work |-> AdvancePrimary(d), items |-> {}]
  /\ UNCHANGED parked

Work(d) == stop' = [stop EXCEPT !.work = d]

\* adjust_requirements: in the heal pass if the judge has open tasks of its
\* own, and with the verdicts.
Adjusts ==
  \/ stop.at = "heal" /\ JudgeOwnedOpen(stop.work) # {}
  \/ stop.at = "judge" /\ stop.items # {}

StopRetract(i) ==
  /\ Adjusts
  /\ stop.work.tasks[i].by = "judge" /\ Status(stop.work, i) \notin Withdrawn
  /\ Work(SetStatus(stop.work, {i}, "retracted"))
  /\ UNCHANGED <<doc, parked>>

StopRevise(i) ==
  /\ Adjusts
  /\ i \in Revisable(stop.work)
  /\ Work(Revise(stop.work, i))
  /\ UNCHANGED <<doc, parked>>

\* The time budget may leave some of the open tasks to the next Stop.
StopCollect ==
  /\ stop.at = "heal"
  /\ LET d == AdvancePrimary(stop.work) IN
     \E S \in SUBSET Pending(d) : stop' = [at |-> "judge", work |-> d, items |-> S]
  /\ UNCHANGED <<doc, parked>>

Rank(t) == CASE t.kind = "frontier" -> 0 [] t.kind = "primary" -> 1 [] OTHER -> 2

NextItem(i) ==
  /\ stop.at \in {"judge", "apply"} /\ i \in stop.items
  /\ \A j \in stop.items : Rank(stop.work.tasks[i]) <= Rank(stop.work.tasks[j])

Unflag(d, i) == [d EXCEPT !.tasks[i].revised = FALSE]

\* A revised task waits for its next check.
StopDefers(i) ==
  /\ NextItem(i) /\ stop.work.tasks[i].revised
  /\ stop' = [at |-> "apply", items |-> stop.items \ {i},
              work |-> SetStatus(Unflag(stop.work, i), {i}, "pending")]
  /\ UNCHANGED <<doc, parked>>

Verdicts(t) ==
  IF t.kind = "frontier"
  THEN {<<o = "accepted_approach", o>> : o \in Outcomes \cup {"failed"}}
  ELSE {<<v, "">> : v \in BOOLEAN}

Applied(i, v, d) ==
  [at |-> "apply", items |-> stop.items \ {i}, work |-> Record(d, i, v[1], v[2])]

StopJudges(i) ==
  /\ NextItem(i)
  /\ \E v \in Verdicts(stop.work.tasks[i]) :
       /\ stop.work.tasks[i].revised => v[1]
       /\ stop' = Applied(i, v, Unflag(stop.work, i))
  /\ UNCHANGED <<doc, parked>>

\* ... and adds a requirement, which may supersede open ones.
StopJudgesAdding(i) ==
  /\ NextItem(i) /\ Status(stop.work, i) # "retracted"
  /\ JudgeMayAdd(stop.work) /\ RoomIn(stop.work)
  /\ \E v \in Verdicts(stop.work.tasks[i]), S \in SUBSET Supersedable(stop.work) :
       /\ stop.work.tasks[i].revised => v[1]
       /\ stop' = Applied(i, v, AddJudged(Unflag(stop.work, i), S))
  /\ UNCHANGED <<doc, parked>>

\* The pass ends; while something is incomplete the loop judge may follow.
Settled(d) == IF AllFrontiersTerminal(d) THEN Finalized(d) ELSE {d}

StopSave ==
  /\ stop.at \in {"judge", "apply"} /\ stop.items = {}
  /\ \E d \in Settled(stop.work) :
       LET e == ResolveStall(d)
           f == AdvancePrimary(e)
       IN
       /\ doc' = e
       /\ parked' = IF ~Stalled(e) THEN 0 ELSE IF parked > StallCap THEN parked ELSE parked + 1
       /\ stop' = IF Incomplete(f) # {} \/ NeedsAgent(f)
                  THEN [at |-> "loop", work |-> f, items |-> {}] ELSE Idle

\* The loop judge is not asked, or it is and the document is saved again: a
\* permanent lift retracts some of its own tasks, any other verdict none.
LoopRetractable(d) ==
  {i \in Ids(d) : d.tasks[i].by = "judge" /\ Status(d, i) \notin Withdrawn \cup {"validated"}}

StopLoop ==
  /\ stop.at = "loop"
  /\ \/ doc' = doc
     \/ \E S \in SUBSET LoopRetractable(stop.work) : doc' = SetStatus(stop.work, S, "retracted")
  /\ stop' = Idle
  /\ UNCHANGED parked

\* The host kills the hook: what it did not save is gone.
StopDies ==
  /\ Stopping
  /\ stop' = Idle
  /\ UNCHANGED <<doc, parked>>

Next ==
  \/ CmdAddTask \/ CmdAddFrontier \/ CmdSetPrimary \/ CmdRestate
  \/ Prompt \/ Hygiene \/ Update
  \/ StopBegin \/ StopCollect \/ StopSave \/ StopLoop \/ StopDies
  \/ \E i \in Ids(stop.work) :
       StopRetract(i) \/ StopRevise(i) \/ StopDefers(i) \/ StopJudges(i) \/ StopJudgesAdding(i)

Spec == Init /\ [][Next]_vars

(***************************************************************************)
(* Properties.                                                             *)
(***************************************************************************)
\* Every variable stays in its domain.
TypeOK ==
  /\ doc \in Doc
  /\ stop.at \in {"idle", "heal", "judge", "apply", "loop"}
  /\ stop.work \in Doc /\ stop.items \subseteq Ids(stop.work)
  /\ parked \in 0..(StallCap + 1)

\* The spec is append-only: no save drops a task that is in the document, or
\* puts another one in its place.
TasksKept ==
  [][\A i \in Ids(doc) :
       /\ i \in Ids(doc')
       /\ doc'.tasks[i].kind = doc.tasks[i].kind /\ doc'.tasks[i].by = doc.tasks[i].by]_doc

\* One frontier is adopted at most, and from then on the primary is superseded,
\* in every saved document.
AdoptionInvariant ==
  /\ Cardinality(Adopted(doc)) <= 1
  /\ Adopted(doc) # {} => \A p \in OfKind(doc, "primary") : Status(doc, p) = "superseded"

\* A Stop pass that ends and saves nothing leaves the document of before.
Abandoned == Stopping /\ ~Stopping' /\ doc' = doc

\* The primary leaves "blocked" only when every frontier is ruled out, when one
\* was adopted, or when the judge revised the primary itself.
PrimaryWaits ==
  [][~Abandoned => \A p \in OfKind(board, "primary") :
       /\ Status(board, p) = "blocked"
       /\ p \in Ids(board') /\ Status(board', p) \in {"pending", "failed", "validated"}
       => AllFrontiersRejected(board') \/ board'.tasks[p].sigs > board.tasks[p].sigs]_vars

\* "Batch Stop adjudication cannot re-fail siblings already superseded in the
\* same pass": a withdrawn task stays withdrawn, unless a revision is still
\* waiting for its check on it.
WithdrawnStaysUnrevised ==
  [][~Abandoned => \A i \in Ids(board) :
       Status(board, i) \in Withdrawn /\ ~board.tasks[i].revised
       => i \in Ids(board') /\ Status(board', i) \in Withdrawn]_vars

\* A board that is not complete gives somebody work: the next Stop judges an open
\* task, or the agent has something to declare.
Workable(d) ==
  Incomplete(d) # {} => Pending(d) # {} \/ NeedsAgent(d) \/ d.seeded

StaysWorkable == \A d \in Finalized(doc) : Workable(AdvancePrimary(d))

\* ... but for a judge that withdrew the primary or took an adoption back.
Undone(d) ==
  \/ \E i \in Adopted(d) : Status(d, i) \notin {"accepted_approach", "validated"}
  \/ \E p \in OfKind(d, "primary") : Status(d, p) = "retracted"

StaysWorkableUnlessUndone ==
  \A d \in Finalized(doc) : Undone(d) \/ Workable(AdvancePrimary(d))

\* The arbiter frees the primary: no more than StallCap - 1 Stop passes in a row
\* end with every frontier explored and none chosen.
NoStall == parked < StallCap
=============================================================================
