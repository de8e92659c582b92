------------------------------- MODULE BgLane -------------------------------
(***************************************************************************)
(* The two fire-and-forget lanes a PostToolUse hook may start: "release"   *)
(* (breaker_release_lane: the disarm judge) and "reconcile"                *)
(* (posttool_background: the reconcile and discover judges).  Each has one *)
(* database row, an in-flight lease and a block of pending text.  A hook   *)
(* takes the lease and starts a detached job; the job pushes its text,     *)
(* which gives the lease back; a PreToolUse hook that allows its tool      *)
(* drains the text and shows it, and the Stop hook drains it too.          *)
(*                                                                         *)
(* Every database operation is one BEGIN IMMEDIATE transaction, hence one  *)
(* step.  Time enters only through ages: of the lease, and of each job's   *)
(* and each hook's own lease.  Ages saturate at TTL.                       *)
(***************************************************************************)
EXTENDS Naturals, FiniteSets, Sequences, SequencesExt

CONSTANTS
  Lanes,     \* the lanes considered
  Hooks,     \* PostToolUse processes
  Jobs,      \* slots for detached children; a slot's text stands for its latest job
  Readers,   \* PreToolUse processes that allow their tool
  TTL,       \* *_LEASE_TTL
  Refuses,   \* whether the database may refuse the write of a lease
  MaxExtra   \* bound: holders let in beside the one on the lease

ASSUME BgLaneConstants ==
  /\ Lanes \subseteq {"release", "reconcile"}
  /\ TTL \in Nat \ {0} /\ Refuses \in BOOLEAN /\ MaxExtra \in Nat
  /\ Hooks \cap Jobs = {} /\ IsFiniteSet(Hooks) /\ IsFiniteSet(Jobs)

VARIABLES
  lane,     \* the lane, fixed at the start
  leased,   \* whether the row holds a lease time stamp
  age,      \* ... and how old it is
  pending,  \* the pending block, as the sequence of the texts in it
  hook,     \* "idle" or "leased": between lease and spawn
  job,      \* "free" or "running"
  hand,     \* the texts each reader drained and has not shown
  owed,     \* history: texts pushed and not yet shown or given up
  shown,    \* history: how often each slot's latest text was shown
  orphaned, \* history: the lease's holder died or left it behind
  owner,    \* history: who works on the lease the row holds, if anybody does
  extra     \* history: holders let in beside a working one since the lane was last idle

vars == <<lane, leased, age, pending, hook, job, hand, owed, shown, orphaned, owner, extra>>
leaseHistory == <<orphaned, owner, extra>>
history == <<owed, shown, leaseHistory>>

Holders == Hooks \cup Jobs
Ages == 0..TTL

Init ==
  /\ lane \in Lanes
  /\ leased = FALSE /\ age = TTL
  /\ pending = << >>
  /\ hook = [h \in Hooks |-> "idle"]
  /\ job = [j \in Jobs |-> "free"]
  /\ hand = [r \in Readers |-> << >>]
  /\ owed = {} /\ shown = [j \in Jobs |-> 0]
  /\ orphaned = FALSE /\ owner = {} /\ extra = 0

Active(x) == IF x \in Hooks THEN hook[x] = "leased" ELSE job[x] = "running"
Working == {x \in Holders : Active(x)}

Older(n) == IF n < TTL THEN n + 1 ELSE TTL

\* No holder is bound to be done while its lease lasts.
Tick ==
  /\ age' = Older(age)
  /\ UNCHANGED <<lane, leased, pending, hook, job, hand, history>>

(***************************************************************************)
(* The row.                                                                *)
(***************************************************************************)
\* Faulty variant: a lease is over one tick before its holder may be.
GrantedEarly == ~leased \/ age >= TTL - 1

\* Faulty variant: a lease lasts until it is given back.
GrantedNever == ~leased

Granted == ~leased \/ age >= TTL

\* An expired lease is granted over the head of a holder that still works on it.
Overrun == IF age >= TTL THEN owner ELSE {}

TakeLease(h) ==
  /\ Granted /\ (Overrun = {} \/ extra < MaxExtra)
  /\ leased' = TRUE /\ age' = 0 /\ orphaned' = FALSE
  /\ owner' = {h} /\ extra' = extra + Cardinality(Overrun)

\* x leaves the lane.
Leaves(x) == extra' = IF Working \subseteq {x} THEN 0 ELSE extra

\* x leaves, and the row keeps the lease it has.
LeavesLease(x) ==
  /\ orphaned' = (orphaned \/ x \in owner) /\ owner' = owner \ {x}
  /\ UNCHANGED <<pending, leased>>

\* A push clears the lease of the row, whoever took it.
\* Faulty variant: replaces a block that nobody drained yet.
PushReplaces(texts) ==
  /\ pending' = IF texts = << >> THEN pending ELSE texts
  /\ leased' = FALSE
  /\ orphaned' = FALSE /\ owner' = {}

Push(texts) ==
  /\ pending' = pending \o texts
  /\ leased' = FALSE
  /\ orphaned' = FALSE /\ owner' = {}

(***************************************************************************)
(* The PostToolUse hook: lease, stage the payload, start the job.          *)
(***************************************************************************)
Starts(h) ==
  /\ hook[h] = "idle"
  /\ hook' = [hook EXCEPT ![h] = "leased"]
  /\ UNCHANGED <<lane, pending, job, hand, owed, shown>>

Lease(h) == Starts(h) /\ TakeLease(h)

\* The lease's write fails: the hook goes on as if it had the lease.
LeaseFailsOpen(h) ==
  /\ Refuses /\ extra < MaxExtra
  /\ Starts(h)
  /\ extra' = extra + 1
  /\ UNCHANGED <<leased, age, orphaned, owner>>

Dismiss(h) == hook' = [hook EXCEPT ![h] = "idle"]

\* mkstemp fails.  Only the release lane gives the lease back.
StageFails(h) ==
  /\ hook[h] = "leased"
  /\ IF lane = "release" THEN Push(<< >>) ELSE LeavesLease(h)
  /\ Dismiss(h) /\ Leaves(h)
  /\ UNCHANGED <<lane, age, job, hand, owed, shown>>

SpawnFails(h) ==
  /\ hook[h] = "leased"
  /\ Push(<< >>)
  /\ Dismiss(h) /\ Leaves(h)
  /\ UNCHANGED <<lane, age, job, hand, owed, shown>>

Outstanding(j) == j \in ToSet(pending) \/ \E r \in Readers : j \in ToSet(hand[r])

Spawn(h) ==
  /\ hook[h] = "leased"
  /\ \E j \in Jobs :
       /\ job[j] = "free" /\ ~Outstanding(j)
       /\ job' = [job EXCEPT ![j] = "running"]
       /\ shown' = [shown EXCEPT ![j] = 0]
       /\ owed' = owed \ {j}
       /\ owner' = IF h \in owner THEN {j} ELSE owner
  /\ Dismiss(h)
  /\ UNCHANGED <<lane, leased, age, pending, hand, orphaned, extra>>

\* The hook is killed, or the database refuses to take the lease back.
HookDies(h) ==
  /\ hook[h] = "leased"
  /\ Dismiss(h) /\ Leaves(h) /\ LeavesLease(h)
  /\ UNCHANGED <<lane, age, job, hand, owed, shown>>

(***************************************************************************)
(* The detached job.                                                       *)
(***************************************************************************)
End(j) ==
  /\ job[j] = "running"
  /\ job' = [job EXCEPT ![j] = "free"]
  /\ Leaves(j)
  /\ UNCHANGED <<lane, age, hook, hand, shown>>

JobReports(j) ==
  /\ End(j)
  /\ Push(<<j>>)
  /\ owed' = owed \cup {j}

\* Nothing to report, or an exception.
JobSilent(j) ==
  /\ End(j)
  /\ Push(<< >>)
  /\ UNCHANGED owed

\* run_reconcile_job without a spec returns without a push.
JobWithoutSpec(j) ==
  /\ lane = "reconcile"
  /\ End(j) /\ LeavesLease(j)
  /\ UNCHANGED owed

\* The job is killed, or the database refuses its push.
JobDies(j) ==
  /\ End(j) /\ LeavesLease(j)
  /\ UNCHANGED owed

(***************************************************************************)
(* The readers.                                                            *)
(***************************************************************************)
\* Faulty variant: reads the block without clearing it.
DrainKeeps(r) ==
  /\ hand[r] = << >> /\ pending # << >>
  /\ hand' = [hand EXCEPT ![r] = pending]
  /\ UNCHANGED <<lane, leased, age, pending, hook, job, history>>

Drain(r) ==
  /\ hand[r] = << >> /\ pending # << >>
  /\ hand' = [hand EXCEPT ![r] = pending]
  /\ pending' = << >>
  /\ UNCHANGED <<lane, leased, age, hook, job, history>>

Show(r) ==
  /\ hand[r] # << >>
  /\ shown' = [j \in Jobs |-> IF j \in ToSet(hand[r]) /\ shown[j] < 2
                              THEN shown[j] + 1 ELSE shown[j]]
  /\ owed' = owed \ ToSet(hand[r])
  /\ hand' = [hand EXCEPT ![r] = << >>]
  /\ UNCHANGED <<lane, leased, age, pending, hook, job, leaseHistory>>

\* The host kills the hook before it prints.
ReaderDies(r) ==
  /\ hand[r] # << >>
  /\ owed' = owed \ ToSet(hand[r])
  /\ hand' = [hand EXCEPT ![r] = << >>]
  /\ UNCHANGED <<lane, leased, age, pending, hook, job, shown, leaseHistory>>

\* The Stop hook drains the release lane and main() drops what it got.
StopDrains ==
  /\ lane = "release" /\ pending # << >>
  /\ owed' = owed \ ToSet(pending)
  /\ pending' = << >>
  /\ UNCHANGED <<lane, leased, age, hook, job, hand, shown, leaseHistory>>

Next ==
  \/ Tick \/ StopDrains
  \/ \E h \in Hooks : \/ Lease(h) \/ LeaseFailsOpen(h) \/ StageFails(h)
                     \/ SpawnFails(h) \/ Spawn(h) \/ HookDies(h)
  \/ \E j \in Jobs : JobReports(j) \/ JobSilent(j) \/ JobWithoutSpec(j) \/ JobDies(j)
  \/ \E r \in Readers : Drain(r) \/ Show(r) \/ ReaderDies(r)

Spec == Init /\ [][Next]_vars

\* Time passes, the session keeps calling tools that ask for the lane, a hook
\* that has the lease goes on, and a job ends, whichever way.
JobEnds(j) == JobReports(j) \/ JobSilent(j) \/ JobWithoutSpec(j) \/ JobDies(j)

FairSpec ==
  /\ Spec
  /\ WF_vars(Tick)
  /\ WF_vars(\E h \in Hooks : Lease(h))
  /\ \A h \in Hooks : WF_vars(Spawn(h) \/ SpawnFails(h))
  /\ \A j \in Jobs : WF_vars(JobEnds(j))

(***************************************************************************)
(* Properties.                                                             *)
(***************************************************************************)
\* Every variable stays in its domain.
TypeOK ==
  /\ lane \in Lanes /\ leased \in BOOLEAN /\ age \in Ages
  /\ pending \in Seq(Jobs)
  /\ hook \in [Hooks -> {"idle", "leased"}] /\ job \in [Jobs -> {"free", "running"}]
  /\ hand \in [Readers -> Seq(Jobs)]
  /\ owed \subseteq Jobs /\ shown \in [Jobs -> 0..2] /\ orphaned \in BOOLEAN
  /\ owner \subseteq Holders /\ extra \in Nat

\* What the lease still gives when holders outlive it and writes of it fail: of
\* the hooks and jobs at work in the lane all but one got in by an expired lease
\* or a failed write.  A push that clears somebody else's lease lets nobody in
\* whose place was not given up.
NoStorm == Cardinality(Working) <= 1 + extra

\* A text that was pushed and neither shown nor taken by a dying reader or the
\* Stop hook is still waiting: pushes, drains and new jobs never drop it.
TextsKept == \A j \in owed : Outstanding(j)

\* The clear runs in the transaction of the read, so no text is shown twice.
ShownOnce == \A j \in Jobs : shown[j] <= 1

\* Between a job and the agent a text is neither lost nor doubled.
Delivered == TextsKept /\ ShownOnce

\* A lease stands for a holder at work on it, or for one that died or left it
\* behind: the release lane gives it back on every failure it survives.
LeaseMeansWork == lane = "release" /\ leased => orphaned \/ owner \cap Working # {}

\* Whoever dies with the lease, the lane is asked again and grants it.
LaneRecovers == []<><<\E h \in Hooks : Lease(h)>>_vars
=============================================================================
