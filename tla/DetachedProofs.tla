--------------------------- MODULE DetachedProofs ---------------------------
(***************************************************************************)
(* Theorems about what works beside the hooks, the background lanes, the   *)
(* janitor and the verify lane, for every value of their constants.        *)
(***************************************************************************)
EXTENDS BgLane, Janitor, RuntimeSync, VerifyLane, FiniteSetTheorems, TLAPS

-----------------------------------------------------------------------------
(* The background lanes.                                                   *)

(***************************************************************************)
(* Blocks of pending text.                                                 *)
(***************************************************************************)
LEMMA ToSetEmpty == ToSet(<< >>) = {}
BY DEF ToSet

LEMMA ToSetPushed ==
  ASSUME NEW S, NEW s \in Seq(S), NEW x \in S
  PROVE  ToSet(s \o <<x>>) = ToSet(s) \cup {x}
<1>1. \A i \in DOMAIN (s \o <<x>>) : (s \o <<x>>)[i] \in ToSet(s) \cup {x}
  BY DEF ToSet
<1>2. \A i \in DOMAIN s : i \in DOMAIN (s \o <<x>>) /\ (s \o <<x>>)[i] = s[i]
  OBVIOUS
<1>3. Len(s) + 1 \in DOMAIN (s \o <<x>>) /\ (s \o <<x>>)[Len(s) + 1] = x
  OBVIOUS
<1> QED BY <1>1, <1>2, <1>3 DEF ToSet

LEMMA PushedType ==
  ASSUME NEW S, NEW s \in Seq(S), NEW x \in S
  PROVE  s \o <<x>> \in Seq(S)
OBVIOUS

LEMMA NothingPushed ==
  ASSUME NEW S, NEW s \in Seq(S)
  PROVE  s \o << >> = s
OBVIOUS

(***************************************************************************)
(* The type invariant.                                                     *)
(***************************************************************************)
LEMMA OlderAge ==
  ASSUME NEW n \in Ages
  PROVE  Older(n) \in Ages /\ (n < TTL => Older(n) = n + 1) /\ (n >= TTL => Older(n) >= TTL)
BY BgLaneConstants DEF BgLaneConstants, Ages, Older

LEMMA HoldersFinite == \A S \in SUBSET Holders : IsFiniteSet(S) /\ Cardinality(S) \in Nat
<1>1. IsFiniteSet(Holders)
  BY BgLaneConstants, FS_Union DEF BgLaneConstants, Holders
<1> QED BY <1>1, FS_Subset, FS_CardinalityType

LEMMA InitType == Init => TypeOK
<1> SUFFICES ASSUME Init PROVE TypeOK
  OBVIOUS
<1> USE DEF Init
<1>1. TTL \in Ages
  BY BgLaneConstants DEF BgLaneConstants, Ages
<1>2. pending \in Seq(Jobs) /\ hand \in [Readers -> Seq(Jobs)]
  OBVIOUS
<1>3. shown \in [Jobs -> 0..2]
  OBVIOUS
<1>4. hook \in [Hooks -> {"idle", "leased"}] /\ job \in [Jobs -> {"free", "running"}]
  OBVIOUS
<1> QED BY <1>1, <1>2, <1>3, <1>4 DEF TypeOK

LEMMA LeavingType ==
  ASSUME TypeOK, NEW x, Leaves(x)
  PROVE  extra' \in Nat
BY DEF Leaves, TypeOK

LEMMA PushNothingType ==
  ASSUME TypeOK, Push(<< >>)
  PROVE  pending' = pending /\ leased' = FALSE /\ orphaned' = FALSE /\ owner' = {}
BY NothingPushed DEF Push, TypeOK

LEMMA StepType == TypeOK /\ [Next]_vars => TypeOK'
<1> SUFFICES ASSUME TypeOK, [Next]_vars PROVE TypeOK'
  OBVIOUS
<1> USE DEF TypeOK
<1>0. 0 \in Ages /\ TTL \in Ages
  BY BgLaneConstants DEF BgLaneConstants, Ages
<1>1. CASE Tick
  <2>1. age' \in Ages
    BY <1>1, OlderAge DEF Tick
  <2> QED BY <1>1, <2>1 DEF Tick, history, leaseHistory
<1>2. CASE StopDrains
  BY <1>2 DEF StopDrains, leaseHistory
<1>3. ASSUME NEW h \in Hooks, Starts(h)
      PROVE  /\ hook' \in [Hooks -> {"idle", "leased"}] /\ {h} \subseteq Holders
             /\ UNCHANGED <<lane, pending, job, hand, owed, shown>>
  BY <1>0, <1>3 DEF Starts, Holders
<1>4. ASSUME NEW h \in Hooks, Lease(h) PROVE TypeOK'
  <2>1. extra' \in Nat
    BY <1>4, HoldersFinite DEF Lease, TakeLease, Overrun
  <2> QED BY <1>0, <1>3, <1>4, <2>1 DEF Lease, TakeLease
<1>5. ASSUME NEW h \in Hooks, LeaseFailsOpen(h) PROVE TypeOK'
  BY <1>3, <1>5 DEF LeaseFailsOpen
<1>6. ASSUME NEW x \in Holders, LeavesLease(x) \/ Push(<< >>)
      PROVE  /\ pending' \in Seq(Jobs) /\ leased' \in BOOLEAN
             /\ orphaned' \in BOOLEAN /\ owner' \in SUBSET Holders
  BY <1>6, PushNothingType DEF LeavesLease
<1>7. ASSUME NEW h \in Hooks, StageFails(h) \/ SpawnFails(h) \/ HookDies(h) PROVE TypeOK'
  <2>1. /\ pending' \in Seq(Jobs) /\ leased' \in BOOLEAN
        /\ orphaned' \in BOOLEAN /\ owner' \in SUBSET Holders
    BY <1>6, <1>7 DEF StageFails, SpawnFails, HookDies, Holders
  <2>2. extra' \in Nat
    BY <1>7, LeavingType DEF StageFails, SpawnFails, HookDies
  <2> QED BY <1>7, <2>1, <2>2 DEF StageFails, SpawnFails, HookDies, Dismiss
<1>8. ASSUME NEW h \in Hooks, Spawn(h) PROVE TypeOK'
  <2>1. PICK j \in Jobs : /\ job' = [job EXCEPT ![j] = "running"]
                          /\ shown' = [shown EXCEPT ![j] = 0]
                          /\ owed' = owed \ {j}
                          /\ owner' = IF h \in owner THEN {j} ELSE owner
    BY <1>8 DEF Spawn
  <2>2. owner' \in SUBSET Holders
    BY <1>0, <2>1 DEF Holders
  <2>3. job' \in [Jobs -> {"free", "running"}] /\ shown' \in [Jobs -> 0..2] /\ owed' \subseteq Jobs
    BY <2>1
  <2> QED BY <1>8, <2>2, <2>3 DEF Spawn, Dismiss
<1>9. ASSUME NEW j \in Jobs, End(j)
      PROVE  /\ job' \in [Jobs -> {"free", "running"}] /\ extra' \in Nat
             /\ UNCHANGED <<lane, age, hook, hand, shown>>
  BY <1>9, LeavingType DEF End
<1>10. ASSUME NEW j \in Jobs, JobReports(j) PROVE TypeOK'
  <2>1. pending' \in Seq(Jobs) /\ leased' = FALSE /\ orphaned' = FALSE /\ owner' = {} /\ owed' \subseteq Jobs
    BY <1>10, PushedType DEF JobReports, Push
  <2> QED BY <1>9, <1>10, <2>1 DEF JobReports
<1>11. ASSUME NEW j \in Jobs, JobSilent(j) \/ JobWithoutSpec(j) \/ JobDies(j) PROVE TypeOK'
  <2>1. /\ pending' \in Seq(Jobs) /\ leased' \in BOOLEAN
        /\ orphaned' \in BOOLEAN /\ owner' \in SUBSET Holders
    BY <1>6, <1>11 DEF JobSilent, JobWithoutSpec, JobDies, Holders
  <2> QED BY <1>9, <1>11, <2>1 DEF JobSilent, JobWithoutSpec, JobDies
<1>12. ASSUME NEW r \in Readers, Drain(r) PROVE TypeOK'
  BY <1>12 DEF Drain, history, leaseHistory
<1>13. ASSUME NEW r \in Readers, Show(r) PROVE TypeOK'
  <2>1. shown' \in [Jobs -> 0..2]
    BY <1>13 DEF Show
  <2> QED BY <1>13, <2>1 DEF Show, leaseHistory
<1>14. ASSUME NEW r \in Readers, ReaderDies(r) PROVE TypeOK'
  BY <1>14 DEF ReaderDies, leaseHistory
<1>15. CASE UNCHANGED vars
  BY <1>15 DEF vars
<1> QED
  BY <1>1, <1>2, <1>4, <1>5, <1>7, <1>8, <1>10, <1>11, <1>12, <1>13, <1>14, <1>15 DEF Next

LEMMA AlwaysTyped == Spec => []TypeOK
BY InitType, StepType, PTL DEF Spec

(***************************************************************************)
(* Who works in the lane, before and after a step.                         *)
(***************************************************************************)
LEMMA WorkingOf ==
  /\ \A h \in Hooks : h \in Working <=> hook[h] = "leased"
  /\ \A j \in Jobs : j \in Working <=> job[j] = "running"
BY BgLaneConstants DEF BgLaneConstants, Working, Active, Holders

LEMMA WorkingNext ==
  /\ \A h \in Hooks : h \in Working' <=> hook'[h] = "leased"
  /\ \A j \in Jobs : j \in Working' <=> job'[j] = "running"
BY BgLaneConstants DEF BgLaneConstants, Working, Active, Holders

LEMMA InHolders == Working \subseteq Holders /\ Working' \subseteq Holders
BY DEF Working

LEMMA StartsWork ==
  ASSUME TypeOK, NEW h \in Hooks, Starts(h)
  PROVE  h \notin Working /\ Working' = Working \cup {h}
<1>1. h \notin Working
  BY WorkingOf DEF Starts
<1>2. \A x \in Holders : x \in Working' <=> x \in Working \/ x = h
  BY WorkingOf, WorkingNext, BgLaneConstants DEF BgLaneConstants, Starts, TypeOK, Holders
<1> QED BY <1>1, <1>2, InHolders DEF Holders

LEMMA DismissWork ==
  ASSUME TypeOK, NEW h \in Hooks, hook[h] = "leased", Dismiss(h), UNCHANGED job
  PROVE  h \in Working /\ Working' = Working \ {h}
<1>1. h \in Working
  BY WorkingOf
<1>2. \A x \in Holders : x \in Working' <=> x \in Working /\ x # h
  BY WorkingOf, WorkingNext, BgLaneConstants DEF BgLaneConstants, Dismiss, TypeOK, Holders
<1> QED BY <1>1, <1>2, InHolders

LEMMA EndWork ==
  ASSUME TypeOK, NEW j \in Jobs, End(j)
  PROVE  j \in Working /\ Working' = Working \ {j}
<1>1. j \in Working
  BY WorkingOf DEF End
<1>2. \A x \in Holders : x \in Working' <=> x \in Working /\ x # j
  BY WorkingOf, WorkingNext, BgLaneConstants DEF BgLaneConstants, End, TypeOK, Holders
<1> QED BY <1>1, <1>2, InHolders

(***************************************************************************)
(* One works on the lease of the row, and as many as were let in besides   *)
(* work without it: a push takes the lease from whoever has it, but then   *)
(* the pusher is gone.                                                     *)
(***************************************************************************)
Beside == Working \ owner
LaneInv ==
  /\ owner \subseteq Working
  /\ owner = {} \/ \E x \in Holders : owner = {x}
  /\ ~leased => owner = {}
  /\ Cardinality(Beside) <= extra
  /\ lane = "release" /\ leased => orphaned \/ owner # {}

LEMMA WorkingCount ==
  ASSUME TypeOK, LaneInv
  PROVE  /\ Cardinality(Working) <= extra + Cardinality(owner)
         /\ Cardinality(owner) <= 1
<1>0. Cardinality(Working) \in Nat /\ Cardinality(Beside) \in Nat /\ extra \in Nat /\ Cardinality(Beside) <= extra
  BY InHolders, HoldersFinite DEF Beside, TypeOK, LaneInv
<1>1. CASE owner = {}
  <2>1. Beside = Working /\ Cardinality(owner) = 0
    BY <1>1, FS_EmptySet DEF Beside
  <2> QED BY <1>0, <2>1
<1>2. ASSUME NEW x \in Holders, owner = {x} PROVE Cardinality(Working) <= extra + 1 /\ Cardinality(owner) = 1
  <2>1. Beside = Working \ {x} /\ x \in Working
    BY <1>2 DEF LaneInv, Beside
  <2>2. Cardinality(Beside) = Cardinality(Working) - 1
    BY <2>1, InHolders, HoldersFinite, FS_RemoveElement
  <2>3. Cardinality(owner) = 1
    BY <1>2, FS_Singleton
  <2> QED BY <1>0, <2>2, <2>3
<1>3. owner = {} \/ \E x \in Holders : owner = {x}
  BY DEF LaneInv
<1> QED BY <1>1, <1>2, <1>3

LEMMA InitLane == Init => LaneInv
<1> SUFFICES ASSUME Init PROVE LaneInv
  OBVIOUS
<1>1. Working = {}
  BY WorkingOf, InHolders DEF Init, Holders
<1> QED BY <1>1, FS_EmptySet DEF Init, LaneInv, Beside

LEMMA LeaseLane ==
  ASSUME TypeOK, LaneInv, NEW h \in Hooks, Lease(h)
  PROVE  LaneInv'
<1>1. h \notin Working /\ Working' = Working \cup {h}
  BY StartsWork DEF Lease
<1>2. leased' /\ owner' = {h} /\ extra' = extra + Cardinality(Overrun)
  BY DEF Lease, TakeLease
<1>3. Overrun = owner
  BY DEF Lease, TakeLease, Granted, Overrun, LaneInv
<1>4. Beside' = Working
  BY <1>1, <1>2 DEF Beside
<1>5. Cardinality(Beside') <= extra'
  BY <1>2, <1>3, <1>4, WorkingCount
<1> QED BY <1>1, <1>2, <1>5 DEF LaneInv, Beside, Holders

LEMMA FailsOpenLane ==
  ASSUME TypeOK, LaneInv, NEW h \in Hooks, LeaseFailsOpen(h)
  PROVE  LaneInv'
<1>1. h \notin Working /\ Working' = Working \cup {h}
  BY StartsWork DEF LeaseFailsOpen
<1>2. UNCHANGED <<lane, leased, orphaned, owner>> /\ extra' = extra + 1
  BY DEF LeaseFailsOpen, Starts
<1>3. Beside' = Beside \cup {h} /\ h \notin Beside
  BY <1>1, <1>2 DEF Beside, LaneInv
<1>4. Beside \subseteq Holders
  BY InHolders DEF Beside
<1>5. Cardinality(Beside') = Cardinality(Beside) + 1 /\ Cardinality(Beside) \in Nat
  BY <1>3, <1>4, HoldersFinite, FS_AddElement
<1>6. Cardinality(Beside') <= extra'
  BY <1>2, <1>5 DEF LaneInv, TypeOK
<1> QED BY <1>1, <1>2, <1>6 DEF LaneInv

(* Whoever leaves, with a push or without.                                 *)
LEMMA LeavingLane ==
  ASSUME TypeOK, LaneInv, NEW x \in Working, Working' = Working \ {x}, Leaves(x), UNCHANGED lane,
         LeavesLease(x) \/ (leased' = FALSE /\ owner' = {})
  PROVE  LaneInv'
<1>0. x \in Holders /\ Working' \in SUBSET Holders /\ Beside \in SUBSET Holders /\ Beside' \in SUBSET Holders
  BY InHolders DEF Beside
<1>1. CASE Working \subseteq {x}
  <2>1. Beside' = {} /\ Working' = {} /\ extra' = 0
    BY <1>1 DEF Leaves, Beside
  <2>2. owner' = {}
    BY <1>1 DEF LeavesLease, LaneInv
  <2>3. lane' = "release" /\ leased' => orphaned'
    BY <1>1 DEF LeavesLease, LaneInv
  <2> QED BY <2>1, <2>2, <2>3, FS_EmptySet DEF LaneInv
<1>2. CASE ~(Working \subseteq {x}) /\ LeavesLease(x)
  <2>1. owner' = owner \ {x} /\ orphaned' = (orphaned \/ x \in owner) /\ leased' = leased /\ extra' = extra
    BY <1>2 DEF Leaves, LeavesLease
  <2>2. Beside' \subseteq Beside
    BY <2>1 DEF Beside
  <2>3. Cardinality(Beside') <= extra'
    <3>1. Cardinality(Beside') <= Cardinality(Beside)
      BY <1>0, <2>2, HoldersFinite, FS_Subset
    <3> QED BY <1>0, <2>1, <3>1, HoldersFinite DEF LaneInv, TypeOK
  <2>4. owner' \subseteq Working' /\ (owner' = {} \/ owner' = owner)
    BY <2>1 DEF LaneInv
  <2>5. lane' = "release" /\ leased' => orphaned' \/ owner' # {}
    BY <2>1, <2>4 DEF LaneInv
  <2> QED BY <2>1, <2>3, <2>4, <2>5 DEF LaneInv
<1>3. CASE ~(Working \subseteq {x}) /\ leased' = FALSE /\ owner' = {}
  <2>1. Beside' = Working \ {x} /\ extra' = extra
    BY <1>3 DEF Beside, Leaves
  <2>2. Cardinality(Beside') = Cardinality(Working) - 1
    BY <2>1, InHolders, HoldersFinite, FS_RemoveElement
  <2>3. Cardinality(Working) \in Nat /\ Cardinality(Working) <= extra + Cardinality(owner)
        /\ Cardinality(owner) <= 1 /\ Cardinality(owner) \in Nat
    BY WorkingCount, InHolders, HoldersFinite DEF TypeOK
  <2>4. Cardinality(Beside') <= extra'
    BY <2>1, <2>2, <2>3 DEF TypeOK
  <2> QED BY <1>3, <2>4 DEF LaneInv
<1> QED BY <1>1, <1>2, <1>3

LEMMA SpawnLane ==
  ASSUME TypeOK, LaneInv, NEW h \in Hooks, Spawn(h)
  PROVE  LaneInv'
<1>1. PICK j \in Jobs : /\ job[j] = "free" /\ job' = [job EXCEPT ![j] = "running"]
                        /\ owner' = IF h \in owner THEN {j} ELSE owner
  BY DEF Spawn
<1>2. hook[h] = "leased" /\ Dismiss(h) /\ UNCHANGED <<lane, leased, orphaned, extra>>
  BY DEF Spawn
<1>3. h \in Working /\ j \notin Working /\ j \in Holders
  BY <1>1, <1>2, WorkingOf DEF Holders
<1>4. \A x \in Holders : x \in Working' <=> (x \in Working /\ x # h) \/ x = j
  BY <1>1, <1>2, WorkingOf, WorkingNext, BgLaneConstants DEF BgLaneConstants, Dismiss, TypeOK, Holders
<1>5. Working' = (Working \ {h}) \cup {j}
  BY <1>3, <1>4, InHolders
<1>6. Beside \in SUBSET Holders /\ Cardinality(Beside) \in Nat
  BY InHolders, HoldersFinite DEF Beside
<1>7. CASE h \in owner
  <2>1. owner = {h} /\ owner' = {j}
    BY <1>1, <1>7 DEF LaneInv
  <2>2. Beside' = Beside
    BY <1>3, <1>5, <2>1 DEF Beside
  <2> QED BY <1>2, <1>3, <1>5, <2>1, <2>2 DEF LaneInv
<1>8. CASE h \notin owner
  <2>1. owner' = owner /\ owner \subseteq Working'
    BY <1>1, <1>5, <1>8 DEF LaneInv
  <2>2. Beside' = (Beside \ {h}) \cup {j} /\ h \in Beside /\ j \notin Beside
    BY <1>3, <1>5, <1>8, <2>1 DEF Beside, LaneInv
  <2>3. Cardinality(Beside \ {h}) = Cardinality(Beside) - 1 /\ IsFiniteSet(Beside \ {h})
    BY <1>6, <2>2, HoldersFinite, FS_RemoveElement
  <2>4. Cardinality(Beside') = Cardinality(Beside \ {h}) + 1
    BY <2>2, <2>3, FS_AddElement
  <2>5. Cardinality(Beside') <= extra'
    BY <1>2, <1>6, <2>3, <2>4 DEF LaneInv
  <2> QED BY <1>2, <2>1, <2>5 DEF LaneInv
<1> QED BY <1>7, <1>8

LEMMA StepLane ==
  ASSUME TypeOK, LaneInv, [Next]_vars
  PROVE  LaneInv'
<1>1. ASSUME UNCHANGED <<lane, leased, hook, job, orphaned, owner, extra>> PROVE LaneInv'
  BY <1>1 DEF LaneInv, Beside, Working, Active
<1>2. ASSUME NEW h \in Hooks, StageFails(h) \/ SpawnFails(h) \/ HookDies(h) PROVE LaneInv'
  <2>1. h \in Working /\ Working' = Working \ {h}
    BY <1>2, DismissWork DEF StageFails, SpawnFails, HookDies
  <2>2. Leaves(h) /\ UNCHANGED lane
    BY <1>2 DEF StageFails, SpawnFails, HookDies
  <2>3. LeavesLease(h) \/ (leased' = FALSE /\ owner' = {})
    BY <1>2 DEF StageFails, SpawnFails, HookDies, Push
  <2> QED BY <2>1, <2>2, <2>3, LeavingLane
<1>3. ASSUME NEW j \in Jobs, JobEnds(j) PROVE LaneInv'
  <2>1. End(j)
    BY <1>3 DEF JobEnds, JobReports, JobSilent, JobWithoutSpec, JobDies
  <2>2. j \in Working /\ Working' = Working \ {j}
    BY <2>1, EndWork
  <2>3. Leaves(j) /\ UNCHANGED lane
    BY <2>1 DEF End
  <2>4. LeavesLease(j) \/ (leased' = FALSE /\ owner' = {})
    BY <1>3 DEF JobEnds, JobReports, JobSilent, JobWithoutSpec, JobDies, Push
  <2> QED BY <2>2, <2>3, <2>4, LeavingLane
<1>4. CASE Tick \/ StopDrains \/ UNCHANGED vars
  BY <1>1, <1>4 DEF Tick, StopDrains, vars, history, leaseHistory
<1>5. ASSUME NEW r \in Readers, Drain(r) \/ Show(r) \/ ReaderDies(r) PROVE LaneInv'
  BY <1>1, <1>5 DEF Drain, Show, ReaderDies, history, leaseHistory
<1> QED BY <1>2, <1>3, <1>4, <1>5, LeaseLane, FailsOpenLane, SpawnLane DEF Next, JobEnds

LEMMA AlwaysLane == Spec => []LaneInv
<1>1. TypeOK /\ LaneInv /\ [Next]_vars => LaneInv'
  BY StepLane
<1> QED BY <1>1, InitLane, AlwaysTyped, PTL DEF Spec

(***************************************************************************)
(* However long jobs take, whatever dies and whoever's lease a push        *)
(* clears, only an expired lease or a failed write of it lets a hook or    *)
(* job work in a lane beside another (db.breaker_release_lease and         *)
(* db.posttool_bg_lease).                                                  *)
(***************************************************************************)
THEOREM NoStormAlways == Spec => []NoStorm
<1>1. TypeOK /\ LaneInv => NoStorm
  <2> SUFFICES ASSUME TypeOK, LaneInv PROVE Cardinality(Working) <= 1 + extra
    BY DEF NoStorm
  <2>1. Cardinality(Working) \in Nat /\ Cardinality(owner) \in Nat /\ extra \in Nat
    BY InHolders, HoldersFinite DEF TypeOK
  <2> QED BY <2>1, WorkingCount
<1> QED BY <1>1, AlwaysLane, AlwaysTyped, PTL

\* The release lane gives its lease back on every failure it survives, so a
\* lease on which nobody works is the trace of a death.
THEOREM LeaseAlwaysMeansWork == Spec => []LeaseMeansWork
<1>1. LaneInv => LeaseMeansWork
  BY DEF LaneInv, LeaseMeansWork
<1> QED BY <1>1, AlwaysLane, PTL

(***************************************************************************)
(* No text is lost and none is shown twice: a text is in at most one       *)
(* place, and in none while its job runs.                                  *)
(***************************************************************************)
Held(r) == ToSet(hand[r])
Block == ToSet(pending)

OnePlace ==
  /\ \A r \in Readers : Block \cap Held(r) = {}
  /\ \A r, t \in Readers : r # t => Held(r) \cap Held(t) = {}
  /\ \A j \in Jobs : job[j] = "running" \/ Outstanding(j) => shown[j] = 0
  /\ \A j \in Jobs : job[j] = "running" => ~Outstanding(j)
  /\ \A j \in Jobs : shown[j] <= 1

Texts == TextsKept /\ OnePlace

LEMMA OutstandingOf ==
  \A j : Outstanding(j) <=> j \in Block \/ \E r \in Readers : j \in Held(r)
BY DEF Outstanding, Block, Held

LEMMA OutstandingNext ==
  \A j : Outstanding(j)' <=> j \in Block' \/ \E r \in Readers : j \in Held(r)'
BY DEF Outstanding, Block, Held

LEMMA StepTexts ==
  ASSUME TypeOK, Texts, [Next]_vars
  PROVE  Texts'
<1> USE DEF Texts, TextsKept, OnePlace
<1>1. ASSUME UNCHANGED <<pending, hand, shown>>, owed' \subseteq owed,
             \A j \in Jobs : job'[j] = "running" => job[j] = "running"
      PROVE  Texts'
  BY <1>1 DEF Outstanding, Block, Held
<1>2. ASSUME NEW h \in Hooks, Lease(h) \/ LeaseFailsOpen(h) \/ HookDies(h) PROVE Texts'
  BY <1>1, <1>2 DEF Lease, LeaseFailsOpen, Starts, HookDies, LeavesLease, Dismiss
<1>3. ASSUME NEW h \in Hooks, StageFails(h) \/ SpawnFails(h) PROVE Texts'
  <2>1. pending' = pending
    BY <1>3, NothingPushed DEF StageFails, SpawnFails, Push, LeavesLease, TypeOK
  <2> QED BY <1>1, <1>3, <2>1 DEF StageFails, SpawnFails
<1>4. ASSUME NEW h \in Hooks, Spawn(h) PROVE Texts'
  <2>1. PICK j \in Jobs : /\ job[j] = "free" /\ ~Outstanding(j)
                          /\ job' = [job EXCEPT ![j] = "running"]
                          /\ shown' = [shown EXCEPT ![j] = 0]
                          /\ owed' = owed \ {j}
    BY <1>4 DEF Spawn
  <2>2. Block' = Block /\ (\A r \in Readers : Held(r)' = Held(r))
        /\ \A i : Outstanding(i)' <=> Outstanding(i)
    BY <1>4 DEF Spawn, Block, Held, Outstanding
  <2>3. TextsKept'
    BY <2>1, <2>2
  <2>4. \A i \in Jobs : /\ shown'[i] = IF i = j THEN 0 ELSE shown[i]
                        /\ job'[i] = IF i = j THEN "running" ELSE job[i]
    BY <2>1 DEF TypeOK
  <2>5. OnePlace'
    BY <2>1, <2>2, <2>4
  <2> QED BY <2>3, <2>5
<1>5. ASSUME NEW j \in Jobs, JobReports(j) PROVE Texts'
  <2>1. Block' = Block \cup {j} /\ \A r \in Readers : Held(r)' = Held(r)
    BY <1>5, ToSetPushed DEF JobReports, End, Push, Block, Held, TypeOK
  <2>2. \A i \in Jobs : job'[i] = IF i = j THEN "free" ELSE job[i]
    BY <1>5 DEF JobReports, End, TypeOK
  <2>3. job[j] = "running" /\ shown' = shown /\ owed' = owed \cup {j}
    BY <1>5 DEF JobReports, End
  <2>4. \A r \in Readers : j \notin Held(r)
    BY <2>3, OutstandingOf
  <2>5. \A i \in Jobs : Outstanding(i)' <=> Outstanding(i) \/ i = j
    BY <2>1, OutstandingOf, OutstandingNext
  <2>6. TextsKept'
    BY <2>3, <2>5 DEF TypeOK
  <2>7. OnePlace'
    BY <2>1, <2>2, <2>3, <2>4, <2>5 DEF TypeOK
  <2> QED BY <2>6, <2>7
<1>6. ASSUME NEW j \in Jobs, JobSilent(j) \/ JobWithoutSpec(j) \/ JobDies(j) PROVE Texts'
  <2>1. pending' = pending
    BY <1>6, NothingPushed DEF JobSilent, JobWithoutSpec, JobDies, Push, LeavesLease, TypeOK
  <2>2. \A i \in Jobs : job'[i] = "running" => job[i] = "running"
    BY <1>6 DEF JobSilent, JobWithoutSpec, JobDies, End, TypeOK
  <2> QED BY <1>1, <1>6, <2>1, <2>2 DEF JobSilent, JobWithoutSpec, JobDies, End
<1>7. ASSUME NEW r \in Readers, Drain(r) PROVE Texts'
  <2>1. Held(r) = {} /\ Block' = {} /\ Held(r)' = Block
    BY <1>7, ToSetEmpty DEF Drain, Block, Held, TypeOK
  <2>2. \A t \in Readers : t # r => Held(t)' = Held(t)
    BY <1>7 DEF Drain, Held, TypeOK
  <2>3. job' = job /\ shown' = shown /\ owed' = owed
    BY <1>7 DEF Drain, history
  <2>4. \A j : Outstanding(j)' <=> Outstanding(j)
    BY <2>1, <2>2, OutstandingOf, OutstandingNext
  <2> QED BY <2>1, <2>2, <2>3, <2>4
<1>8. ASSUME NEW r \in Readers, hand' = [hand EXCEPT ![r] = << >>], UNCHANGED pending
      PROVE  /\ Block' = Block /\ Held(r)' = {}
             /\ \A t \in Readers : t # r => Held(t)' = Held(t)
             /\ \A j \in Jobs : Outstanding(j)' <=> Outstanding(j) /\ j \notin Held(r)
  <2>1. Block' = Block /\ Held(r)' = {}
    BY <1>8, ToSetEmpty DEF Block, Held, TypeOK
  <2>2. \A t \in Readers : t # r => Held(t)' = Held(t)
    BY <1>8 DEF Held, TypeOK
  <2> QED BY <2>1, <2>2, OutstandingOf, OutstandingNext
<1>9. ASSUME NEW r \in Readers, Show(r) PROVE Texts'
  <2>1. \A j \in Jobs : shown'[j] = IF j \in Held(r) /\ shown[j] < 2 THEN shown[j] + 1 ELSE shown[j]
    BY <1>9 DEF Show, Held
  <2>2. owed' = owed \ Held(r) /\ job' = job
    BY <1>9 DEF Show, Held
  <2>3. /\ Block' = Block /\ Held(r)' = {}
        /\ \A t \in Readers : t # r => Held(t)' = Held(t)
        /\ \A j \in Jobs : Outstanding(j)' <=> Outstanding(j) /\ j \notin Held(r)
    BY <1>8, <1>9 DEF Show
  <2>4. \A j \in Jobs : j \in Held(r) => Outstanding(j) /\ shown'[j] = 1
    BY <2>1, OutstandingOf
  <2>5. \A j \in Jobs : j \notin Held(r) => shown'[j] = shown[j]
    BY <2>1
  <2>6. TextsKept'
    BY <2>2, <2>3 DEF TypeOK
  <2>7. OnePlace'
    BY <2>2, <2>3, <2>4, <2>5
  <2> QED BY <2>6, <2>7
<1>10. ASSUME NEW r \in Readers, ReaderDies(r) PROVE Texts'
  <2>1. owed' = owed \ Held(r) /\ job' = job /\ shown' = shown
    BY <1>10 DEF ReaderDies, Held
  <2>2. /\ Block' = Block /\ Held(r)' = {}
        /\ \A t \in Readers : t # r => Held(t)' = Held(t)
        /\ \A j \in Jobs : Outstanding(j)' <=> Outstanding(j) /\ j \notin Held(r)
    BY <1>8, <1>10 DEF ReaderDies
  <2> QED BY <2>1, <2>2 DEF TypeOK
<1>11. CASE StopDrains
  <2>1. owed' = owed \ Block /\ job' = job /\ shown' = shown
    BY <1>11 DEF StopDrains, Block
  <2>2. Block' = {} /\ \A r \in Readers : Held(r)' = Held(r)
    BY <1>11, ToSetEmpty DEF StopDrains, Block, Held
  <2> QED BY <2>1, <2>2, OutstandingOf, OutstandingNext DEF TypeOK
<1>12. CASE Tick \/ UNCHANGED vars
  BY <1>1, <1>12 DEF Tick, vars, history
<1> QED BY <1>2, <1>3, <1>4, <1>5, <1>6, <1>7, <1>9, <1>10, <1>11, <1>12 DEF Next

LEMMA InitTexts == Init => Texts
<1> SUFFICES ASSUME Init PROVE Texts
  OBVIOUS
<1>1. Block = {} /\ \A r \in Readers : Held(r) = {}
  BY ToSetEmpty DEF Init, Block, Held
<1>2. owed = {} /\ \A j \in Jobs : shown[j] = 0 /\ job[j] = "free"
  BY DEF Init
<1> QED BY <1>1, <1>2, OutstandingOf DEF Texts, TextsKept, OnePlace

LEMMA AlwaysTexts == Spec => []Texts
<1>1. TypeOK /\ Texts /\ [Next]_vars => Texts'
  BY StepTexts
<1> QED BY <1>1, InitTexts, AlwaysTyped, PTL DEF Spec

\* Between a job and the agent no text is lost and none is shown twice, whatever
\* drains, pushes and deaths come in between.
THEOREM TextsAlwaysDelivered == Spec => []Delivered
<1>1. Texts => Delivered
  BY DEF Texts, OnePlace, Delivered, TextsKept, ShownOnce
<1> QED BY <1>1, AlwaysTexts, PTL

-----------------------------------------------------------------------------
(* The safety contract of the janitor, for any sessions, projects, tables, *)
(* budget and number of failures.                                          *)

(***************************************************************************)
(* What a sweep remembers is right: of the hosts that its markers name,    *)
(* those it does not know to have ended still have their marker, and from  *)
(* the probe on they are among what it protects.                           *)
(***************************************************************************)
RowAges == {"fresh", "stale"}
Remembers == [at : Nat, reg : SUBSET Sessions, ended : SUBSET Sessions, live : SUBSET Sessions]
Memory(w) == [at |-> w.at, reg |-> w.reg, ended |-> w.ended, live |-> w.live]
Shape(w) == w = [at |-> w.at, reg |-> w.reg, ended |-> w.ended, live |-> w.live, left |-> w.left]

JanitorTyped ==
  /\ running \in SUBSET Sessions /\ marker \in SUBSET Sessions
  /\ data \in [Names -> [Sessions -> SUBSET RowAges]]
  /\ Shape(sweep) /\ Memory(sweep) \in Remembers
  /\ \A s \in Sessions, n \in Names : data[n][s] \in SUBSET RowAges

StillGoing == sweep.reg \ sweep.ended
Known ==
  /\ sweep.at < 2 => sweep.reg = {}
  /\ StillGoing \subseteq marker
  /\ sweep.at >= 3 => StillGoing \subseteq sweep.live
Contract == JanitorTyped /\ Known

Kept == LiveSpared /\ FreshSpared

\* A step that deletes nothing keeps both promises.
LEMMA NothingGone ==
  ASSUME Contract, marker \subseteq marker',
         \A n \in Names, s \in Sessions : data[n][s] = {} \/ data'[n][s] # {}
  PROVE  Kept
<1>1. StillGoing \subseteq Sessions /\ StillGoing \subseteq marker
  BY DEF Contract, JanitorTyped, Known, Memory, Remembers, StillGoing
<1>2. LiveSpared
  BY <1>1 DEF LiveSpared, StillGoing
<1>3. FreshSpared
  BY DEF FreshSpared
<1> QED BY <1>2, <1>3 DEF Kept

LEMMA InitContract == JanitorInit => Contract
<1> SUFFICES ASSUME JanitorInit PROVE Contract
  OBVIOUS
<1>1. sweep = NoSweep
  BY DEF JanitorInit
<1>2. Shape(sweep) /\ Memory(sweep) \in Remembers
  BY <1>1 DEF NoSweep, Shape, Memory, Remembers
<1>3. data \in [Names -> [Sessions -> SUBSET RowAges]] /\ \A s \in Sessions, n \in Names : data[n][s] \in SUBSET RowAges
  BY DEF JanitorInit
<1>4. Known
  BY <1>1 DEF NoSweep, Known, StillGoing
<1> QED BY <1>2, <1>3, <1>4 DEF JanitorInit, Contract, JanitorTyped

\* A deletion from one table takes what is stale and not covered.
LEMMA Reaped ==
  ASSUME Contract, NEW i \in DOMAIN Kinds, Reap(i), i \in Nat \ {0}
  PROVE  Contract' /\ Kept
<1> DEFINE k == Kinds[i].name
<1>1. k \in Names
  BY DEF Names
<1>2. PICK gone \in Taken(Due(k)) :
        /\ data' = [data EXCEPT ![k] = [s \in Sessions |-> IF s \in gone THEN {} ELSE @[s]]]
        /\ sweep' = [sweep EXCEPT !.at = @ + 1, !.left = @ - Cardinality(gone)]
  BY DEF Reap
<1>3. gone \subseteq Due(k)
  BY DEF Taken
<1>4. sweep.at = 2 + i /\ sweep.at >= 3 /\ marker' = marker /\ running' = running
  BY DEF Reap
<1> HIDE DEF k
<1>5. /\ Shape(sweep') /\ sweep'.at = sweep.at + 1
      /\ sweep'.reg = sweep.reg /\ sweep'.ended = sweep.ended /\ sweep'.live = sweep.live
  BY <1>2 DEF Contract, JanitorTyped, Shape
<1>6. \A n \in Names, s \in Sessions :
        data'[n][s] = IF n = k /\ s \in gone THEN {} ELSE data[n][s]
  BY <1>1, <1>2 DEF Contract, JanitorTyped
<1>7. Contract'
  <2>1. data' \in [Names -> [Sessions -> SUBSET RowAges]]
    BY <1>1, <1>2 DEF Contract, JanitorTyped
  <2>2. \A s \in Sessions, n \in Names : data'[n][s] \in SUBSET RowAges
    BY <1>6 DEF Contract, JanitorTyped
  <2>3. Memory(sweep') \in Remembers
    BY <1>5 DEF Contract, JanitorTyped, Memory, Remembers
  <2> QED BY <1>4, <1>5, <2>1, <2>2, <2>3 DEF Contract, JanitorTyped, Known, StillGoing, Shape, Memory
<1>8. FreshSpared
  <2> SUFFICES ASSUME NEW n \in Names, NEW s \in Sessions, data[n][s] = {"fresh"}
               PROVE  data'[n][s] # {}
    BY DEF FreshSpared
  <2>1. n = k => s \notin gone
    BY <1>3 DEF Due
  <2> QED BY <1>6, <2>1
<1>9. LiveSpared
  <2> SUFFICES ASSUME NEW s \in StillGoing
               PROVE  /\ s \in marker'
                      /\ \A n \in Names, t \in Sessions :
                           (t = s \/ (Kind(n).key = "root" /\ Root[t] = Root[s])) =>
                             data[n][t] = {} \/ data'[n][t] # {}
    BY DEF LiveSpared, StillGoing
  <2>1. s \in marker' /\ s \in sweep.live
    BY <1>4 DEF Contract, Known, StillGoing
  <2>2. ASSUME NEW t \in Sessions, t = s \/ (Kind(k).key = "root" /\ Root[t] = Root[s])
        PROVE  t \notin gone
    BY <1>3, <2>1, <2>2 DEF Due, Covered
  <2> QED BY <1>6, <2>1, <2>2
<1> QED BY <1>7, <1>8, <1>9 DEF Kept

\* Every other step deletes from no table; markers go only with their host.
LEMMA StepContract ==
  ASSUME Len(Kinds) \in Nat, DOMAIN Kinds \subseteq Nat \ {0}, Contract, [JanitorNext]_janitorVars
  PROVE  Contract' /\ [Kept]_janitorVars
<1> USE DEF Contract, JanitorTyped
<1>1. ASSUME NEW s \in Sessions, Start(s) PROVE Contract' /\ Kept
  <2>1. marker \subseteq marker' /\ data' = data
    BY <1>1 DEF Start
  <2>2. Contract'
    BY <1>1 DEF Start, Sweeping, NoSweep, Shape, Memory, Remembers, Known, StillGoing
  <2> QED BY <2>1, <2>2, NothingGone
<1>2. ASSUME NEW s \in Sessions, Stop(s) PROVE Contract' /\ Kept
  <2>1. marker \subseteq marker' /\ data' = data
    BY <1>2 DEF Stop
  <2>2. /\ Shape(sweep') /\ sweep'.at = sweep.at /\ sweep'.reg = sweep.reg
        /\ sweep'.live = sweep.live /\ sweep'.ended = sweep.ended \cup ({s} \cap sweep.reg)
    BY <1>2 DEF Stop, Shape
  <2>3. Memory(sweep') \in Remembers
    BY <2>2 DEF Memory, Remembers
  <2>4. Contract'
    BY <1>2, <2>2, <2>3 DEF Stop, Known, StillGoing, Shape, Memory
  <2> QED BY <2>1, <2>4, NothingGone
<1>3. ASSUME NEW s \in Sessions, NEW m \in Names, Work(s, m) PROVE Contract' /\ Kept
  <2>1. marker' = marker /\ running' = running /\ sweep' = sweep
    BY <1>3 DEF Work
  <2>2. data' \in [Names -> [Sessions -> SUBSET RowAges]]
    BY <1>3 DEF Work, RowAges
  <2>3. \A n \in Names, t \in Sessions : data[n][t] = {} \/ data'[n][t] # {}
    BY <1>3 DEF Work
  <2>4. \A t \in Sessions, n \in Names : data'[n][t] \in SUBSET RowAges
    BY <2>2
  <2>5. Contract'
    BY <2>1, <2>2, <2>4 DEF Known, StillGoing, Shape, Memory
  <2> QED BY <2>1, <2>3, <2>5, NothingGone
<1>4. ASSUME HourPasses PROVE Contract' /\ Kept
  <2>1. marker' = marker /\ data' = data
    BY <1>4 DEF HourPasses
  <2>2. Contract'
    BY <1>4 DEF HourPasses, Known, StillGoing, Shape, Memory
  <2> QED BY <2>1, <2>2, NothingGone
<1>5. ASSUME DayPasses PROVE Contract' /\ Kept
  <2>1. marker' = marker /\ running' = running /\ sweep' = sweep
    BY <1>5 DEF DayPasses
  <2>2. \A n \in Names, t \in Sessions : data'[n][t] = IF data[n][t] = {} THEN {} ELSE {"stale"}
    BY <1>5 DEF DayPasses
  <2>3. data' \in [Names -> [Sessions -> SUBSET RowAges]]
    BY <1>5 DEF DayPasses, RowAges
  <2>4. \A t \in Sessions, n \in Names : data'[n][t] \in SUBSET RowAges
    BY <2>3
  <2>5. Contract'
    BY <2>1, <2>3, <2>4 DEF Known, StillGoing, Shape, Memory
  <2> QED BY <2>1, <2>2, <2>5, NothingGone
<1>6. ASSUME Load PROVE Contract' /\ Kept
  <2>1. marker' = marker /\ data' = data /\ running' = running
    BY <1>6 DEF Load
  <2>2. PICK unread \in SUBSET marker :
          sweep' = [sweep EXCEPT !.at = 2, !.reg = marker \ unread, !.ended = (marker \ unread) \ running]
    BY <1>6 DEF Load
  <2>3. /\ Shape(sweep') /\ sweep'.at = 2 /\ sweep'.reg = marker \ unread
        /\ sweep'.live = sweep.live /\ sweep'.ended = (marker \ unread) \ running
    BY <2>2 DEF Shape
  <2>4. Memory(sweep') \in Remembers
    BY <2>3 DEF Memory, Remembers
  <2>5. Contract'
    BY <2>1, <2>3, <2>4 DEF Known, StillGoing, Shape, Memory
  <2> QED BY <2>1, <2>5, NothingGone
<1>7. ASSUME Probe PROVE Contract' /\ Kept
  <2>1. marker' = marker /\ data' = data /\ running' = running
    BY <1>7 DEF Probe
  <2>2. PICK doubt \in SUBSET sweep.reg :
          sweep' = [sweep EXCEPT !.at = 3, !.live = Live(doubt), !.left = MaxReap]
    BY <1>7 DEF Probe
  <2>3. /\ Shape(sweep') /\ sweep'.at = 3 /\ sweep'.reg = sweep.reg
        /\ sweep'.live = Live(doubt) /\ sweep'.ended = sweep.ended
    BY <2>2 DEF Shape
  <2>4. Memory(sweep') \in Remembers
    BY <2>3 DEF Memory, Remembers, Live
  <2>5. Contract'
    BY <1>7, <2>1, <2>3, <2>4 DEF Probe, Known, StillGoing, Shape, Memory, Live
  <2> QED BY <2>1, <2>5, NothingGone
<1>8. ASSUME NEW i \in DOMAIN Kinds, Reap(i) PROVE Contract' /\ Kept
  BY <1>8, Reaped
<1>9. ASSUME NEW i \in DOMAIN Kinds, Skip(i) PROVE Contract' /\ Kept
  <2>1. marker' = marker /\ data' = data /\ running' = running
    BY <1>9 DEF Skip
  <2>2. /\ Shape(sweep') /\ sweep'.at = sweep.at + 1 /\ sweep.at >= 3 /\ sweep'.reg = sweep.reg
        /\ sweep'.live = sweep.live /\ sweep'.ended = sweep.ended
    BY <1>9 DEF Skip, Shape
  <2>3. Memory(sweep') \in Remembers
    BY <2>2 DEF Memory, Remembers
  <2>4. sweep.at \in Nat /\ ~(sweep'.at < 2) /\ sweep'.at >= 3
    BY <2>2 DEF Memory, Remembers
  <2>5. Known'
    BY <2>1, <2>2, <2>4 DEF Known, StillGoing
  <2>6. Contract'
    BY <2>1, <2>2, <2>3, <2>5 DEF Shape, Memory
  <2> QED BY <2>1, <2>6, NothingGone
<1>10. ASSUME ReapMarkers PROVE Contract' /\ Kept
  <2>1. data' = data /\ running' = running /\ sweep' = [sweep EXCEPT !.at = TouchAt]
    BY <1>10 DEF ReapMarkers
  <2>2. PICK gone \in Taken(markerOld \ (sweep.live \cup StillGoing)) : marker' = marker \ gone
    BY <1>10 DEF ReapMarkers, StillGoing
  <2>3. gone \cap StillGoing = {}
    BY DEF Taken
  <2>4. /\ Shape(sweep') /\ sweep'.at = TouchAt /\ sweep'.reg = sweep.reg
        /\ sweep'.live = sweep.live /\ sweep'.ended = sweep.ended
        /\ sweep.at = MarkersAt
    BY <1>10, <2>1 DEF ReapMarkers, Shape
  <2>5. MarkersAt \in Nat /\ MarkersAt >= 3 /\ TouchAt \in Nat /\ TouchAt >= 3
    BY DEF MarkersAt, TouchAt
  <2>6. Memory(sweep') \in Remembers
    BY <2>4, <2>5 DEF Memory, Remembers
  <2>7. Contract'
    BY <2>1, <2>2, <2>3, <2>4, <2>5, <2>6 DEF Known, StillGoing, Shape, Memory
  <2>8. LiveSpared
    BY <2>1, <2>2, <2>3 DEF LiveSpared, StillGoing, Known
  <2>9. FreshSpared
    BY <2>1 DEF FreshSpared
  <2> QED BY <2>7, <2>8, <2>9 DEF Kept
<1>11. ASSUME Touch \/ SweepDies PROVE Contract' /\ Kept
  <2>1. marker' = marker /\ data' = data /\ running' = running /\ sweep' = NoSweep
    BY <1>11 DEF Touch, SweepDies
  <2>2. Shape(sweep') /\ Memory(sweep') \in Remembers
    BY <2>1 DEF NoSweep, Shape, Memory, Remembers
  <2>3. Contract'
    BY <2>1, <2>2 DEF Known, StillGoing, NoSweep, Shape, Memory
  <2> QED BY <2>1, <2>3, NothingGone
<1>12. ASSUME UNCHANGED janitorVars PROVE Contract'
  BY <1>12 DEF janitorVars, Known, StillGoing, Shape, Memory
<1> QED
  BY <1>1, <1>2, <1>3, <1>4, <1>5, <1>6, <1>7, <1>8, <1>9, <1>10, <1>11, <1>12
  DEF JanitorNext, SweepStep

\* A sweep never takes a row, a board or a marker of a session whose host its
\* markers named and that has not ended, nor anything fresh of another's, however
\* sessions start, work and stop while it runs and whatever it fails to read.
THEOREM LiveAlwaysKept ==
  ASSUME Len(Kinds) \in Nat, DOMAIN Kinds \subseteq Nat \ {0}
  PROVE  JanitorSpec => LiveKept
<1>1. Contract /\ [JanitorNext]_janitorVars => Contract' /\ [Kept]_janitorVars
  BY StepContract
<1>2. [Kept]_janitorVars => [LiveSpared /\ FreshSpared]_janitorVars
  BY DEF Kept
<1> QED BY <1>1, <1>2, InitContract, PTL DEF JanitorSpec, LiveKept

-----------------------------------------------------------------------------
(* The verify lane.                                                        *)

Exits == {"0", "nonzero"}
Finished == UNION {[S -> Exits] : S \in SUBSET Cmds}
Statuses == UNION {[S -> {"pending", "passed", "failed"}] : S \in SUBSET Cmds}

VerifyTyped ==
  /\ worktree \in Trees
  /\ file \in [Keys -> [cmds : SUBSET Cmds, results : Finished]]
  /\ row \in [key : Keys \cup {"none"}, tasks : Statuses, age : Nat]
  /\ run \in [Runners -> [key : Keys \cup {"none"}, on : BOOLEAN, cmds : SUBSET Cmds, done : Finished]]

(***************************************************************************)
(* Whatever says that a command passed, be it a sidecar, a runner or the   *)
(* row, says so of a run that exited 0 at the key it stands under.         *)
(***************************************************************************)
FileTrue == \A p \in Keys : \A c \in DOMAIN file[p].results :
              file[p].results[c] = "0" => <<c, p>> \in ran
RunTrue == \A r \in Runners :
             /\ Free(r) => run[r] = NoRun
             /\ \A c \in DOMAIN run[r].done : run[r].done[c] = "0" => <<c, run[r].key>> \in ran
RowTrue == /\ ~Dispatched => Tasks = {}
           /\ \A c \in Tasks : row.tasks[c] = "passed" => <<c, row.key>> \in ran
Truthful == VerifyTyped /\ FileTrue /\ RunTrue /\ RowTrue /\ DisarmEarned

LEMMA NoneFinished == [c \in {} |-> "none"] \in Finished /\ DOMAIN [c \in {} |-> "none"] = {}
<1>1. [c \in {} |-> "none"] \in [{} -> Exits]
  OBVIOUS
<1> QED BY <1>1 DEF Finished

LEMMA AllPending ==
  ASSUME NEW cs \in SUBSET Cmds, NEW p \in Keys
  PROVE  RowOf(p, cs) \in [key : Keys \cup {"none"}, tasks : Statuses, age : Nat]
<1>1. [c \in cs |-> "pending"] \in [cs -> {"pending", "passed", "failed"}]
  OBVIOUS
<1> QED BY <1>1 DEF RowOf, Statuses

LEMMA NoRowTyped == NoRow \in [key : Keys \cup {"none"}, tasks : Statuses, age : Nat]
<1>1. [c \in {} |-> "pending"] \in [{} -> {"pending", "passed", "failed"}]
  OBVIOUS
<1> QED BY <1>1 DEF NoRow, Statuses

LEMMA NoRunTyped ==
  NoRun \in [key : Keys \cup {"none"}, on : BOOLEAN, cmds : SUBSET Cmds, done : Finished]
BY NoneFinished DEF NoRun

LEMMA FinishedApart ==
  ASSUME NEW f \in Finished
  PROVE  /\ DOMAIN f \in SUBSET Cmds
         /\ \A c \in DOMAIN f : f[c] \in Exits
         /\ \A c \in Cmds, e \in Exits :
              [d \in DOMAIN f \cup {c} |-> IF d = c THEN e ELSE f[d]] \in Finished
<1>1. PICK S \in SUBSET Cmds : f \in [S -> Exits]
  BY DEF Finished
<1>2. DOMAIN f = S /\ \A c \in S : f[c] \in Exits
  BY <1>1
<1>3. ASSUME NEW c \in Cmds, NEW e \in Exits
      PROVE  [d \in DOMAIN f \cup {c} |-> IF d = c THEN e ELSE f[d]] \in Finished
  <2> DEFINE D == DOMAIN f \cup {c}
             g == [d \in D |-> IF d = c THEN e ELSE f[d]]
  <2>1. g \in [D -> Exits]
    BY <1>2
  <2>2. D \in SUBSET Cmds
    BY <1>2
  <2> HIDE DEF D, g
  <2>3. g \in Finished
    BY <2>1, <2>2 DEF Finished
  <2> QED BY <2>3 DEF g, D
<1> QED BY <1>2, <1>3

LEMMA InitTruthful == ASSUME Trees # {} PROVE VerifyInit => Truthful
<1> SUFFICES ASSUME VerifyInit PROVE Truthful
  OBVIOUS
<1>1. VerifyTyped
  BY NoneFinished, NoRowTyped, NoRunTyped DEF VerifyInit, VerifyTyped, NoFile
<1>2. FileTrue
  BY NoneFinished DEF VerifyInit, FileTrue, NoFile
<1>3. RunTrue
  BY NoneFinished DEF VerifyInit, RunTrue, NoRun
<1>4. RowTrue /\ DisarmEarned
  BY DEF VerifyInit, RowTrue, DisarmEarned, NoRow, Tasks
<1> QED BY <1>1, <1>2, <1>3, <1>4 DEF Truthful

\* A sidecar is seeded without results.
LEMMA Seeded ==
  ASSUME Truthful, NEW p \in Keys, NEW cs \in SUBSET Cmds, file' = [file EXCEPT ![p] = Seed(cs)],
         ran' = ran
  PROVE  file' \in [Keys -> [cmds : SUBSET Cmds, results : Finished]] /\ FileTrue'
<1>1. Seed(cs) \in [cmds : SUBSET Cmds, results : Finished] /\ DOMAIN Seed(cs).results = {}
  BY NoneFinished DEF Seed
<1> QED BY <1>1 DEF Truthful, VerifyTyped, FileTrue

\* A row that is dispatched anew has passed nothing.
LEMMA RowAnew ==
  ASSUME Truthful, NEW p \in Keys, NEW cs \in SUBSET Cmds, row' = RowOf(p, cs), ran' = ran,
         "none" \notin Keys
  PROVE  RowTrue' /\ row' \in [key : Keys \cup {"none"}, tasks : Statuses, age : Nat]
BY AllPending DEF RowTrue, RowOf, Tasks, Dispatched

\* A free runner is put on a sidecar with nothing done.
LEMMA RunnerAnew ==
  ASSUME Truthful, NEW p \in Keys, NEW r \in Runners, Free(r), run' = [run EXCEPT ![r].key = p],
         ran' = ran, "none" \notin Keys
  PROVE  RunTrue' /\ run' \in [Runners -> [key : Keys \cup {"none"}, on : BOOLEAN, cmds : SUBSET Cmds, done : Finished]]
<1>1. run[r] = NoRun /\ DOMAIN run[r].done = {}
  BY NoneFinished DEF Truthful, RunTrue, NoRun
<1>2. run'[r] = [run[r] EXCEPT !.key = p] /\ \A s \in Runners \ {r} : run'[s] = run[s]
  BY DEF Truthful, VerifyTyped
<1>3. run'[r].key = p /\ run'[r].done = run[r].done
  BY <1>2 DEF Truthful, VerifyTyped
<1>4. RunTrue'
  BY <1>1, <1>2, <1>3 DEF Truthful, RunTrue, Free
<1> QED BY <1>4 DEF Truthful, VerifyTyped

LEMMA DispatchTruthful ==
  ASSUME Truthful, "none" \notin Keys, NEW cs \in CmdSets, Dispatch(cs) \/ DispatchUnlocked(cs)
  PROVE  Truthful'
<1> DEFINE p == GitState[worktree]
<1>1. p \in Keys /\ cs \in SUBSET Cmds
  BY DEF Truthful, VerifyTyped, Keys, CmdSets
<1>2. ran' = ran /\ disarmed' = disarmed /\ worktree' = worktree
  BY DEF Dispatch, DispatchUnlocked
<1>3. \/ UNCHANGED file
      \/ file' = [file EXCEPT ![p] = Seed(cs)]
  BY DEF Dispatch, DispatchUnlocked
<1>4. \/ UNCHANGED row
      \/ row' = RowOf(p, cs)
  BY DEF Dispatch, DispatchUnlocked
<1>5. \/ UNCHANGED run
      \/ \E r \in Runners : Free(r) /\ run' = [run EXCEPT ![r].key = p]
  BY DEF Dispatch, DispatchUnlocked
<1> HIDE DEF p
<1>6. file' \in [Keys -> [cmds : SUBSET Cmds, results : Finished]] /\ FileTrue'
  BY <1>1, <1>2, <1>3, Seeded DEF Truthful, VerifyTyped, FileTrue
<1>7. RowTrue' /\ row' \in [key : Keys \cup {"none"}, tasks : Statuses, age : Nat]
  BY <1>1, <1>2, <1>4, RowAnew DEF Truthful, VerifyTyped, RowTrue, Tasks, Dispatched
<1>8. RunTrue' /\ run' \in [Runners -> [key : Keys \cup {"none"}, on : BOOLEAN, cmds : SUBSET Cmds, done : Finished]]
  BY <1>1, <1>2, <1>5, RunnerAnew DEF Truthful, VerifyTyped, RunTrue, Free
<1> QED BY <1>2, <1>6, <1>7, <1>8 DEF Truthful, VerifyTyped, DisarmEarned

LEMMA AttachTruthful ==
  ASSUME Truthful, NEW r \in Runners, Attach(r)
  PROVE  Truthful'
<1> DEFINE p == run[r].key
<1>1. p \in Keys /\ file[p].cmds \in SUBSET Cmds
  BY DEF Attach, Free, Truthful, VerifyTyped
<1>2. ran' = ran /\ disarmed' = disarmed /\ worktree' = worktree /\ row' = row
  BY DEF Attach
<1>3. file' \in [Keys -> [cmds : SUBSET Cmds, results : Finished]] /\ FileTrue'
  BY <1>1, <1>2, Seeded DEF Attach
<1>4. run' = [run EXCEPT ![r] = [@ EXCEPT !.on = TRUE, !.cmds = file[p].cmds]]
  BY DEF Attach
<1>5. /\ run'[r].key = p /\ run'[r].done = run[r].done
      /\ run'[r] \in [key : Keys \cup {"none"}, on : BOOLEAN, cmds : SUBSET Cmds, done : Finished]
  BY <1>1, <1>4 DEF Truthful, VerifyTyped
<1>6. \A s \in Runners \ {r} : run'[s] = run[s]
  BY <1>4 DEF Truthful, VerifyTyped
<1>7. RunTrue'
  <2> SUFFICES ASSUME NEW s \in Runners
               PROVE  /\ run'[s].key = "none" => run'[s] = NoRun
                      /\ \A c \in DOMAIN run'[s].done : run'[s].done[c] = "0" => <<c, run'[s].key>> \in ran'
    BY DEF RunTrue, Free
  <2>1. RunTrue /\ p # "none"
    BY DEF Truthful, Attach, Free
  <2>2. CASE s = r
    BY <1>2, <1>5, <2>1, <2>2 DEF RunTrue
  <2>3. CASE s # r
    BY <1>2, <1>6, <2>1, <2>3 DEF RunTrue, Free
  <2> QED BY <2>2, <2>3
<1>8. run' \in [Runners -> [key : Keys \cup {"none"}, on : BOOLEAN, cmds : SUBSET Cmds, done : Finished]]
  BY <1>4, <1>5 DEF Truthful, VerifyTyped
<1> QED BY <1>2, <1>3, <1>7, <1>8
     DEF Truthful, VerifyTyped, DisarmEarned, RowTrue, Tasks, Dispatched

LEMMA FinishTruthful ==
  ASSUME Truthful, "none" \notin Keys, NEW r \in Runners, NEW c \in Cmds, Finish(r, c)
  PROVE  Truthful'
<1> DEFINE p == run[r].key
           Done(exit) == [d \in DOMAIN run[r].done \cup {c} |-> IF d = c THEN exit ELSE run[r].done[d]]
           left == run[r].cmds \ {c}
<1>0. PICK exit \in Exits :
        /\ Flush(p, run[r].cmds \cup DOMAIN run[r].done, Done(exit))
        /\ run' = [run EXCEPT ![r] = IF left = {} THEN NoRun ELSE [@ EXCEPT !.cmds = left, !.done = Done(exit)]]
        /\ ran' = IF exit = "0" THEN ran \cup {<<c, p>>} ELSE ran
  BY DEF Finish, Exits
<1> DEFINE done == Done(exit)
<1>1. c \in run[r].cmds /\ disarmed' = disarmed /\ worktree' = worktree /\ row' = row /\ ran \subseteq ran'
  BY <1>0 DEF Finish
<1>2. p \in Keys /\ run[r].done \in Finished /\ run[r].cmds \in SUBSET Cmds
  BY <1>1 DEF Truthful, VerifyTyped, RunTrue, Free, NoRun
<1>3. done \in Finished /\ DOMAIN run[r].done \in SUBSET Cmds
  BY <1>2, FinishedApart
<1>4. DOMAIN done = DOMAIN run[r].done \cup {c} /\ \A d \in DOMAIN done : done[d] = "0" => <<d, p>> \in ran'
  BY <1>0, <1>1 DEF Truthful, RunTrue
<1>5. file' = [file EXCEPT ![p] = [cmds |-> run[r].cmds \cup DOMAIN run[r].done, results |-> done]]
  BY <1>0 DEF Flush
<1> HIDE DEF done
<1>6. /\ file' \in [Keys -> [cmds : SUBSET Cmds, results : Finished]]
      /\ file'[p].results = done /\ \A q \in Keys \ {p} : file'[q] = file[q]
  BY <1>2, <1>3, <1>5 DEF Truthful, VerifyTyped
<1>7. FileTrue'
  BY <1>1, <1>4, <1>6 DEF Truthful, FileTrue
<1>8. \A s \in Runners \ {r} : run'[s] = run[s]
  BY <1>0 DEF Truthful, VerifyTyped
<1>9. /\ \/ run'[r] = NoRun
         \/ run'[r].key = p /\ run'[r].done = done
      /\ run'[r] \in [key : Keys \cup {"none"}, on : BOOLEAN, cmds : SUBSET Cmds, done : Finished]
  <2>1. run'[r] = IF left = {} THEN NoRun ELSE [run[r] EXCEPT !.cmds = left, !.done = done]
    BY <1>0 DEF Truthful, VerifyTyped, done
  <2>2. CASE left = {}
    BY <2>1, <2>2, NoRunTyped
  <2>3. CASE left # {}
    <3>1. run'[r] = [run[r] EXCEPT !.cmds = left, !.done = done]
      BY <2>1, <2>3
    <3>2. run[r] \in [key : Keys \cup {"none"}, on : BOOLEAN, cmds : SUBSET Cmds, done : Finished]
      BY DEF Truthful, VerifyTyped
    <3> QED BY <1>2, <1>3, <3>1, <3>2
  <2> QED BY <2>2, <2>3
<1>10. RunTrue'
  <2>1. ASSUME NEW s \in Runners, s # r
        PROVE  /\ Free(s)' => run'[s] = NoRun
               /\ \A d \in DOMAIN run'[s].done : run'[s].done[d] = "0" => <<d, run'[s].key>> \in ran'
    BY <1>1, <1>8, <2>1 DEF Truthful, RunTrue, Free
  <2>2. /\ Free(r)' => run'[r] = NoRun
        /\ \A d \in DOMAIN run'[r].done : run'[r].done[d] = "0" => <<d, run'[r].key>> \in ran'
    BY <1>2, <1>4, <1>9, NoneFinished DEF Free, NoRun
  <2> QED BY <2>1, <2>2 DEF RunTrue
<1>11. run' \in [Runners -> [key : Keys \cup {"none"}, on : BOOLEAN, cmds : SUBSET Cmds, done : Finished]]
  BY <1>0, <1>9 DEF Truthful, VerifyTyped
<1>12. RowTrue' /\ DisarmEarned'
  BY <1>1 DEF Truthful, RowTrue, DisarmEarned, Tasks, Dispatched
<1> QED BY <1>1, <1>6, <1>7, <1>10, <1>11, <1>12 DEF Truthful, VerifyTyped

LEMMA PollTruthful == ASSUME Truthful, Poll PROVE Truthful'
<1>1. /\ worktree' = worktree /\ file' = file /\ run' = run /\ ran' = ran /\ row.key \in Keys
  BY DEF Poll, Dispatched, Truthful, VerifyTyped
<1>2. /\ DOMAIN Polled = Tasks /\ Tasks \in SUBSET Cmds
      /\ \A c \in Tasks : Polled[c] \in {"pending", "passed", "failed"}
  BY DEF Polled, Truthful, VerifyTyped, Statuses, Tasks
<1>3. \A c \in Tasks : Polled[c] = "passed" => <<c, row.key>> \in ran
  BY <1>1 DEF Polled, Results, Truthful, FileTrue, RowTrue, Terminal
<1>4. Polled \in Statuses
  <2>1. Polled \in [Tasks -> {"pending", "passed", "failed"}]
    BY <1>2 DEF Polled
  <2> QED BY <1>2, <2>1 DEF Statuses
<1>5. DisarmEarned'
  BY <1>1, <1>2, <1>3 DEF Poll, AllPassed, Truthful, DisarmEarned
<1>6. row' \in [key : Keys \cup {"none"}, tasks : Statuses, age : Nat] /\ RowTrue'
  <2>1. CASE row' = NoRow
    BY <2>1, NoRowTyped DEF RowTrue, NoRow, Tasks, Dispatched
  <2>2. CASE row' = [row EXCEPT !.tasks = Polled]
    BY <1>1, <1>2, <1>3, <1>4, <2>2 DEF Poll, Truthful, VerifyTyped, RowTrue, Tasks, Dispatched
  <2> QED BY <2>1, <2>2 DEF Poll
<1> QED BY <1>1, <1>5, <1>6 DEF Truthful, VerifyTyped, FileTrue, RunTrue, Free

LEMMA StepTruthful == ASSUME "none" \notin Keys PROVE Truthful /\ [VerifyNext]_verifyVars => Truthful'
<1> SUFFICES ASSUME Truthful, [VerifyNext]_verifyVars PROVE Truthful'
  OBVIOUS
<1>1. CASE Edit
  BY <1>1 DEF Edit, Truthful, VerifyTyped, FileTrue, RunTrue, Free, RowTrue, Tasks, Dispatched, DisarmEarned
<1>2. CASE Dropped
  BY <1>2, NoRowTyped DEF Dropped, Truthful, VerifyTyped, FileTrue, RunTrue, Free, RowTrue, Tasks, Dispatched, DisarmEarned, NoRow
<1>3. CASE TimePasses
  <2>1. row' = [row EXCEPT !.age = row.age + 1] /\ UNCHANGED <<worktree, file, run, arms, ran, disarmed>>
    BY <1>3 DEF TimePasses
  <2>2. row'.key = row.key /\ row'.tasks = row.tasks /\ row' \in [key : Keys \cup {"none"}, tasks : Statuses, age : Nat]
    BY <2>1 DEF Truthful, VerifyTyped
  <2> QED BY <2>1, <2>2 DEF Truthful, VerifyTyped, FileTrue, RunTrue, Free, RowTrue, Tasks, Dispatched, DisarmEarned
<1>4. ASSUME NEW r \in Runners, RunnerDies(r) PROVE Truthful'
  BY <1>4, NoRunTyped, NoneFinished
     DEF RunnerDies, Truthful, VerifyTyped, FileTrue, RunTrue, Free, RowTrue, Tasks, Dispatched, DisarmEarned, NoRun
<1>5. CASE UNCHANGED verifyVars
  BY <1>5 DEF verifyVars, Truthful, VerifyTyped, FileTrue, RunTrue, Free, RowTrue, Tasks, Dispatched, DisarmEarned
<1> QED BY <1>1, <1>2, <1>3, <1>4, <1>5, DispatchTruthful, AttachTruthful, FinishTruthful, PollTruthful DEF VerifyNext

\* The verify lane disarms a claim only when each of its commands ran to exit 0 in a
\* run dispatched for the same git state, for any number of runners, commands and
\* trees, with kills, second runners and sidecars of other commands.
THEOREM DisarmAlwaysEarned ==
  ASSUME Trees # {}, "none" \notin Keys
  PROVE  VerifySpec => []DisarmEarned
<1>1. VerifyInit => Truthful
  BY InitTruthful
<1>2. Truthful /\ [VerifyNext]_verifyVars => Truthful'
  BY StepTruthful
<1>3. Truthful => DisarmEarned
  BY DEF Truthful
<1> QED BY <1>1, <1>2, <1>3, PTL DEF VerifySpec

(***************************************************************************)
(* What launchers find, for any number of versions and whatever the host   *)
(* installs and removes while one sync at a time copies, publishes, flips  *)
(* and collects.                                                           *)
(***************************************************************************)
Places == {"idle", "copy", "clear", "flip", "swing", "gc", "collect"}
Progress == [at : Places, v : 0..Newest, force : BOOLEAN, todo : SUBSET Entries,
             rm : SUBSET (Versions \X Entries), tried : BOOLEAN]

SyncTyped ==
  /\ cache \subseteq Versions /\ kills \in Nat
  /\ tree \in [Versions -> SUBSET Entries] /\ tmp \in [Versions -> SUBSET Entries]
  /\ current \in 0..Newest /\ linkTmp \in 0..Newest
  /\ sync \in [Syncers -> Progress]
  /\ \A s \in Syncers : sync[s].at # "idle" => sync[s].v \in Versions

(* A copy has every entry its syncer went through, unless the host removed *)
(* the version in between; only what has the sentinel is published.        *)
CopyWhole ==
  \A s \in Syncers :
    LET v == sync[s].v IN
    /\ sync[s].at = "copy" => v \in lost \/ (v \in cache /\ tmp[v] = Entries \ sync[s].todo)
    /\ sync[s].at = "clear" => HasRuntime(tmp[v]) /\ (v \in lost \/ tmp[v] = Entries)

(* The link leads to a runtime but for a forced sync of that very version, *)
(* under way or cut short; a sync that is not forced copies and clears     *)
(* only what does not run, and flips to what does.                         *)
LinkSound ==
  /\ current # 0 /\ ~HasRuntime(tree[current]) =>
       /\ current \in torn
       /\ kills > 0 \/ \E s \in Syncers : sync[s].at = "clear" /\ sync[s].force /\ sync[s].v = current
  /\ \A s \in Syncers : sync[s].at \in {"copy", "clear"} /\ ~sync[s].force => ~HasRuntime(tree[sync[s].v])
  /\ \A s \in Syncers : sync[s].at = "flip" => HasRuntime(tree[sync[s].v])
  /\ \A s \in Syncers : sync[s].at = "swing" => linkTmp = sync[s].v /\ HasRuntime(tree[linkTmp])

(* What a sync has still to remove: the version it replaces, of which      *)
(* nothing is left behind unless a removal failed, or versions the link    *)
(* does not lead to.                                                       *)
Removals ==
  \A s \in Syncers :
    /\ sync[s].rm # {} => sync[s].at \in {"clear", "collect"}
    /\ sync[s].at = "clear" =>
         /\ \A p \in sync[s].rm : p[1] = sync[s].v
         /\ kills > 0 \/ \A e \in tree[sync[s].v] : <<sync[s].v, e>> \in sync[s].rm
    /\ sync[s].at = "collect" => \A p \in sync[s].rm : p[1] = current => ~HasRuntime(tree[current])

(* A sync that is not forced goes to a newer version, or its own.          *)
Forward ==
  \A s \in Syncers :
    sync[s].at \in {"copy", "clear", "flip", "swing"} /\ ~sync[s].force
      => current <= sync[s].v \/ ~HasRuntime(tree[current])

SyncInv == SyncTyped /\ CopyWhole /\ LinkSound /\ Removals /\ Forward /\ PublishedWhole

LEMMA SyncStarted == SyncInit => SyncInv
<1> SUFFICES ASSUME SyncInit PROVE SyncInv
  OBVIOUS
<1>1. Idle \in Progress /\ Idle.at = "idle"
  BY SyncConstants DEF Idle, Progress, Places
<1>2. SyncTyped
  BY <1>1, SyncConstants DEF SyncInit, SyncTyped, Versions
<1>3. CopyWhole /\ LinkSound /\ Removals /\ Forward
  BY <1>1 DEF SyncInit, Idle, CopyWhole, LinkSound, Removals, Forward
<1>4. PublishedWhole
  BY DEF SyncInit, PublishedWhole, HasRuntime
<1> QED BY <1>2, <1>3, <1>4 DEF SyncInv

(* The host.                                                               *)
LEMMA HostKeeps ==
  ASSUME SyncInv, NEW v \in Versions, HostInstalls(v) \/ HostRemoves(v)
  PROVE  SyncInv'
<1>0. SyncTyped /\ CopyWhole /\ LinkSound /\ Removals /\ Forward /\ PublishedWhole
  BY DEF SyncInv
<1>1. UNCHANGED <<tree, tmp, current, linkTmp, sync, kills, torn>> /\ cache' \subseteq Versions /\ lost \subseteq lost'
  BY <1>0 DEF HostInstalls, HostRemoves, SyncTyped
<1>2. SyncTyped'
  BY <1>0, <1>1 DEF SyncTyped
<1>3. LinkSound' /\ Removals' /\ Forward' /\ PublishedWhole'
  BY <1>0, <1>1 DEF LinkSound, Removals, Forward, PublishedWhole
<1>4. \A s \in Syncers : sync[s].at = "copy" /\ sync[s].v \in cache => sync[s].v \in cache' \cup lost'
  BY DEF HostInstalls, HostRemoves
<1>5. CopyWhole'
  BY <1>0, <1>1, <1>4 DEF CopyWhole
<1> QED BY <1>2, <1>3, <1>5 DEF SyncInv

(* What the only syncer does.                                              *)
LEMMA BeginKeeps ==
  ASSUME SyncInv, NEW y, Syncers = {y}, NEW v \in Versions, NEW force \in BOOLEAN, Begin(y, v, force)
  PROVE  SyncInv'
<1>0. SyncTyped /\ CopyWhole /\ LinkSound /\ Removals /\ Forward /\ PublishedWhole
  BY DEF SyncInv
<1> DEFINE reuse == ~force /\ HasRuntime(tree[v])
           new == [at |-> IF ~Needed(v, force) THEN "gc" ELSE IF reuse THEN "flip" ELSE "copy",
                   v |-> v, force |-> force, todo |-> Entries, rm |-> {}, tried |-> FALSE]
<1>1. /\ sync[y].at = "idle" /\ v \in cache /\ sync' = [sync EXCEPT ![y] = new]
      /\ tmp' = IF Needed(v, force) /\ (force \/ ~HasRuntime(tree[v])) THEN [tmp EXCEPT ![v] = {}] ELSE tmp
      /\ UNCHANGED <<cache, tree, current, linkTmp, kills, lost, torn>>
  BY DEF Begin, Going
<1>2. v \in 0..Newest /\ new \in Progress
  BY SyncConstants DEF Versions, Progress, Places
<1>3. sync'[y] = new /\ sync' \in [Syncers -> Progress]
  BY <1>0, <1>1, <1>2 DEF SyncTyped
<1>4. /\ new.v = v /\ new.force = force /\ new.todo = Entries /\ new.rm = {} /\ new.at \in {"gc", "flip", "copy"}
      /\ new.at = "copy" => Needed(v, force) /\ (force \/ ~HasRuntime(tree[v]))
      /\ new.at = "flip" => Needed(v, force) /\ HasRuntime(tree[v])
  OBVIOUS
<1> HIDE DEF new
<1>5. tmp' \in [Versions -> SUBSET Entries] /\ (new.at = "copy" => tmp'[v] = {})
  BY <1>0, <1>1, <1>4 DEF SyncTyped
<1>6. SyncTyped'
  BY <1>0, <1>1, <1>3, <1>4, <1>5 DEF SyncTyped
<1>7. CopyWhole'
  BY <1>1, <1>3, <1>4, <1>5 DEF CopyWhole
<1>8. LinkSound' /\ Removals'
  BY <1>0, <1>1, <1>3, <1>4 DEF LinkSound, Removals
<1>9. Needed(v, force) /\ ~force => current <= v \/ ~HasRuntime(tree[current])
  BY <1>0, SyncConstants DEF Needed, CurrentVersion, SyncTyped, Versions
<1>10. Forward'
  BY <1>1, <1>3, <1>4, <1>9 DEF Forward
<1>11. PublishedWhole'
  BY <1>0, <1>1 DEF PublishedWhole
<1> QED BY <1>6, <1>7, <1>8, <1>10, <1>11 DEF SyncInv

LEMMA CopyKeeps ==
  ASSUME SyncInv, NEW y, Syncers = {y}, CopyEntry(y)
  PROVE  SyncInv'
<1>0. SyncTyped /\ CopyWhole /\ LinkSound /\ Removals /\ Forward /\ PublishedWhole
  BY DEF SyncInv
<1> DEFINE e == IF "hooks" \in sync[y].todo THEN "hooks" ELSE "rest"
           v == sync[y].v
<1>1. /\ sync[y].at = "copy" /\ sync[y].todo # {} /\ sync' = [sync EXCEPT ![y].todo = @ \ {e}]
      /\ tmp' = IF v \in cache THEN [tmp EXCEPT ![v] = @ \cup {e}] ELSE tmp
      /\ UNCHANGED <<cache, tree, current, linkTmp, kills, lost, torn>>
  BY DEF CopyEntry
<1>2. e \in Entries /\ e \in sync[y].todo /\ v \in Versions /\ sync[y].todo \subseteq Entries
  BY <1>0, <1>1 DEF SyncTyped, Entries, Progress
<1> HIDE DEF e
<1>3. /\ sync'[y].at = "copy" /\ sync'[y].v = v /\ sync'[y].force = sync[y].force
      /\ sync'[y].todo = sync[y].todo \ {e} /\ sync'[y].rm = sync[y].rm /\ sync' \in [Syncers -> Progress]
  BY <1>0, <1>1, <1>2 DEF SyncTyped, Progress
<1>4. tmp' \in [Versions -> SUBSET Entries]
  BY <1>0, <1>1, <1>2 DEF SyncTyped
<1>5. SyncTyped'
  BY <1>0, <1>1, <1>2, <1>3, <1>4 DEF SyncTyped
<1>6. v \in cache => tmp'[v] = tmp[v] \cup {e}
  BY <1>0, <1>1, <1>2 DEF SyncTyped
<1>7. CopyWhole'
  BY <1>0, <1>1, <1>2, <1>3, <1>6 DEF CopyWhole
<1>8. LinkSound' /\ Removals' /\ Forward' /\ PublishedWhole'
  BY <1>0, <1>1, <1>3 DEF LinkSound, Removals, Forward, PublishedWhole
<1> QED BY <1>5, <1>7, <1>8 DEF SyncInv

LEMMA CopyFailsKeeps ==
  ASSUME SyncInv, NEW y, Syncers = {y}, CopyFails(y)
  PROVE  SyncInv'
<1>0. SyncTyped /\ CopyWhole /\ LinkSound /\ Removals /\ Forward /\ PublishedWhole
  BY DEF SyncInv
<1>1. /\ sync[y].at = "copy" /\ tmp' = [tmp EXCEPT ![sync[y].v] = {}] /\ sync' = [sync EXCEPT ![y].at = "gc"]
      /\ UNCHANGED <<cache, tree, current, linkTmp, kills, lost, torn>>
  BY DEF CopyFails, At
<1>2. sync'[y].at = "gc" /\ sync'[y].v = sync[y].v /\ sync'[y].rm = sync[y].rm /\ sync' \in [Syncers -> Progress]
  BY <1>0, <1>1 DEF SyncTyped, Progress, Places
<1>3. SyncTyped'
  BY <1>0, <1>1, <1>2 DEF SyncTyped
<1>4. CopyWhole' /\ LinkSound' /\ Removals' /\ Forward' /\ PublishedWhole'
  BY <1>0, <1>1, <1>2 DEF CopyWhole, LinkSound, Removals, Forward, PublishedWhole
<1> QED BY <1>3, <1>4 DEF SyncInv

(* What rmtree has to visit.                                               *)
LEMMA HoldingsOf ==
  ASSUME SyncTyped, NEW V \in SUBSET Versions
  PROVE  /\ Holdings(V) \in SUBSET (Versions \X Entries)
         /\ \A p \in Holdings(V) : p[1] \in V
         /\ \A v \in V : \A e \in tree[v] : <<v, e>> \in Holdings(V)
<1>1. Holdings(V) \in SUBSET (Versions \X Entries)
  BY DEF Holdings
<1>2. \A p \in Holdings(V) : p[1] \in V
  BY DEF Holdings
<1>3. ASSUME NEW v \in V, NEW e \in tree[v] PROVE <<v, e>> \in Holdings(V)
  <2>1. e \in Entries
    BY DEF SyncTyped
  <2> QED BY <2>1 DEF Holdings
<1> QED BY <1>1, <1>2, <1>3

LEMMA RemoveAllTyped ==
  ASSUME SyncTyped, NEW y \in Syncers, NEW place \in Places, NEW V \in SUBSET Versions,
         RemoveAll(y, place, V)
  PROVE  /\ sync'[y].at = place /\ sync'[y].v = sync[y].v /\ sync'[y].force = sync[y].force
         /\ sync'[y].todo = sync[y].todo /\ sync'[y].rm = Holdings(V)
         /\ sync' \in [Syncers -> Progress]
<1>1. sync' = [sync EXCEPT ![y].at = place, ![y].rm = Holdings(V)] /\ Holdings(V) \in SUBSET (Versions \X Entries)
  BY HoldingsOf DEF RemoveAll
<1>2. sync[y] \in Progress
  BY DEF SyncTyped
<1>3. sync'[y] = [sync[y] EXCEPT !.at = place, !.rm = Holdings(V)]
  BY <1>1 DEF SyncTyped
<1>4. sync'[y] \in Progress
  <2> DEFINE H == Holdings(V)
             R == SUBSET (Versions \X Entries)
  <2>1. H \in R
    BY <1>1
  <2>2. sync'[y] = [sync[y] EXCEPT !.at = place, !.rm = H]
    BY <1>3
  <2>3. Progress = [at : Places, v : 0..Newest, force : BOOLEAN, todo : SUBSET Entries, rm : R, tried : BOOLEAN]
    BY DEF Progress
  <2> HIDE DEF H, R
  <2> QED BY <1>2, <2>1, <2>2, <2>3
<1>5. sync' \in [Syncers -> Progress]
  BY <1>1, <1>3, <1>4 DEF SyncTyped
<1> QED BY <1>2, <1>3, <1>5 DEF Progress

(* The tree that makes room is the link's only in a forced sync.           *)
LEMMA ValidateKeeps ==
  ASSUME SyncInv, NEW y, Syncers = {y}, Validate(y)
  PROVE  SyncInv'
<1>0. SyncTyped /\ CopyWhole /\ LinkSound /\ Removals /\ Forward /\ PublishedWhole
  BY DEF SyncInv
<1>1. /\ sync[y].at = "copy" /\ sync[y].todo = {} /\ HasRuntime(tmp[sync[y].v])
      /\ RemoveAll(y, "clear", {sync[y].v})
      /\ UNCHANGED <<cache, tree, tmp, current, linkTmp, kills, lost, torn>>
  BY DEF Validate
<1>2. sync[y].v \in Versions
  BY <1>0, <1>1 DEF SyncTyped
<1>3. /\ \A p \in Holdings({sync[y].v}) : p[1] = sync[y].v
      /\ \A e \in tree[sync[y].v] : <<sync[y].v, e>> \in Holdings({sync[y].v})
  BY <1>0, <1>2, HoldingsOf
<1>4. /\ sync'[y].at = "clear" /\ sync'[y].v = sync[y].v /\ sync'[y].force = sync[y].force
      /\ sync'[y].rm = Holdings({sync[y].v}) /\ sync' \in [Syncers -> Progress]
  BY <1>0, <1>1, <1>2, RemoveAllTyped DEF Places
<1>5. SyncTyped'
  BY <1>0, <1>1, <1>2, <1>4 DEF SyncTyped
<1>6. CopyWhole'
  BY <1>0, <1>1, <1>4 DEF CopyWhole
<1>7. LinkSound' /\ Forward' /\ PublishedWhole'
  BY <1>0, <1>1, <1>4 DEF LinkSound, Forward, PublishedWhole
<1>8. Removals'
  BY <1>1, <1>3, <1>4 DEF Removals
<1> QED BY <1>5, <1>6, <1>7, <1>8 DEF SyncInv

LEMMA Visited ==
  ASSUME SyncTyped, NEW y, Syncers = {y}, NEW p \in Versions \X Entries, Visit(y, p)
  PROVE  /\ p \in sync[y].rm /\ p[1] \in Versions /\ p[2] \in Entries
         /\ sync'[y].at = sync[y].at /\ sync'[y].v = sync[y].v /\ sync'[y].force = sync[y].force
         /\ sync'[y].todo = sync[y].todo /\ sync'[y].rm = sync[y].rm \ {p}
         /\ sync' \in [Syncers -> Progress]
         /\ UNCHANGED <<cache, tmp, current, linkTmp, lost>>
<1>1. p \in sync[y].rm /\ sync' = [sync EXCEPT ![y].rm = @ \ {p}] /\ UNCHANGED <<cache, tmp, current, linkTmp, lost>>
  BY DEF Visit
<1>2. sync[y] \in Progress
  BY DEF SyncTyped
<1>3. sync'[y] = [sync[y] EXCEPT !.rm = @ \ {p}] /\ sync'[y] \in Progress
  BY <1>1, <1>2 DEF SyncTyped, Progress
<1>4. sync' \in [Syncers -> Progress]
  BY <1>1, <1>3 DEF SyncTyped
<1> QED BY <1>1, <1>2, <1>3, <1>4 DEF Progress

(* Of the version the link leads to and that runs, a forced sync removes.  *)
LEMMA RemoveEntryKeeps ==
  ASSUME SyncInv, NEW y, Syncers = {y}, RemoveEntry(y)
  PROVE  SyncInv' /\ CurrentKept /\ current' = current
<1>0. SyncTyped /\ CopyWhole /\ LinkSound /\ Removals /\ Forward /\ PublishedWhole
  BY DEF SyncInv
<1>1. PICK p \in Versions \X Entries : /\ Visit(y, p) /\ UNCHANGED kills
                                       /\ tree' = [tree EXCEPT ![p[1]] = @ \ {p[2]}] /\ torn' = torn \cup {p[1]}
  BY DEF RemoveEntry
<1>2. /\ p \in sync[y].rm /\ p[1] \in Versions /\ p[2] \in Entries
      /\ sync'[y].at = sync[y].at /\ sync'[y].v = sync[y].v /\ sync'[y].force = sync[y].force
      /\ sync'[y].todo = sync[y].todo /\ sync'[y].rm = sync[y].rm \ {p}
      /\ sync' \in [Syncers -> Progress]
      /\ UNCHANGED <<cache, tmp, current, linkTmp, lost>>
  BY <1>0, <1>1, Visited
<1>3. sync[y].at \in {"clear", "collect"}
  BY <1>0, <1>2 DEF Removals
<1> DEFINE w == p[1]
<1>4. /\ tree'[w] = tree[w] \ {p[2]} /\ \A v \in Versions \ {w} : tree'[v] = tree[v]
      /\ tree' \in [Versions -> SUBSET Entries]
  BY <1>0, <1>1, <1>2 DEF SyncTyped
<1>5. \A v \in Versions : HasRuntime(tree'[v]) => HasRuntime(tree[v])
  BY <1>4 DEF HasRuntime
<1>6. p = <<w, p[2]>>
  BY <1>1
<1>7. w = current /\ HasRuntime(tree[current]) => sync[y].at = "clear" /\ sync[y].force /\ sync[y].v = current
  BY <1>0, <1>2, <1>3 DEF Removals, LinkSound
<1>8. current # 0 => current \in Versions
  BY <1>0, SyncConstants DEF SyncTyped, Versions
<1>9. SyncTyped'
  BY <1>0, <1>1, <1>2, <1>4 DEF SyncTyped
<1>10. CopyWhole'
  BY <1>0, <1>2, <1>3 DEF CopyWhole
<1>11. sync[y].v \in Versions
  BY <1>0, <1>3 DEF SyncTyped
<1>12. LinkSound'
  <2>1. ASSUME current # 0, ~HasRuntime(tree'[current])
        PROVE  /\ current \in torn'
               /\ kills > 0 \/ (sync[y].at = "clear" /\ sync[y].force /\ sync[y].v = current)
    <3>1. CASE ~HasRuntime(tree[current])
      BY <1>0, <1>1, <2>1, <3>1 DEF LinkSound
    <3>2. CASE HasRuntime(tree[current])
      <4>1. w = current
        BY <1>4, <1>8, <2>1, <3>2
      <4> QED BY <1>1, <1>7, <3>2, <4>1
    <3> QED BY <3>1, <3>2
  <2>2. ~sync[y].force /\ sync[y].at = "clear" => ~HasRuntime(tree'[sync[y].v])
    BY <1>0, <1>5, <1>11 DEF LinkSound
  <2> HIDE DEF w
  <2> QED BY <1>1, <1>2, <1>3, <2>1, <2>2 DEF LinkSound
<1>13. Removals'
  <2>1. sync[y].at = "clear" => kills > 0 \/ \A e \in tree'[sync[y].v] : <<sync[y].v, e>> \in sync[y].rm \ {p}
    <3> SUFFICES ASSUME sync[y].at = "clear", ~(kills > 0), NEW e \in tree'[sync[y].v]
                 PROVE  <<sync[y].v, e>> \in sync[y].rm \ {p}
      OBVIOUS
    <3>1. w = sync[y].v
      BY <1>0, <1>2 DEF Removals
    <3>2. e \in tree[sync[y].v] /\ e # p[2]
      BY <1>4, <3>1
    <3>3. <<sync[y].v, e>> \in sync[y].rm
      BY <1>0, <3>2 DEF Removals
    <3>4. <<sync[y].v, e>> # p
      BY <1>6, <3>2
    <3> QED BY <3>3, <3>4
  <2>2. \A q \in sync[y].rm : q \in Versions \X Entries /\ q[1] \in Versions
    BY <1>0 DEF SyncTyped, Progress
  <2>3. sync[y].at = "collect" => \A q \in sync[y].rm \ {p} : q[1] = current => ~HasRuntime(tree'[current])
    BY <1>0, <1>5, <2>2 DEF Removals
  <2> QED BY <1>0, <1>1, <1>2, <1>3, <2>1, <2>3 DEF Removals
<1>14. Forward'
  <2>1. current = 0 => current <= sync[y].v
    BY <1>11, SyncConstants DEF Versions
  <2> QED BY <1>0, <1>2, <1>3, <1>5, <1>8, <2>1 DEF Forward
<1>15. PublishedWhole'
  BY <1>0, <1>1, <1>2, <1>4, <1>5 DEF PublishedWhole
<1>16. CurrentKept
  BY <1>4, <1>7, <1>8 DEF CurrentKept
<1> QED BY <1>2, <1>9, <1>10, <1>12, <1>13, <1>14, <1>15, <1>16 DEF SyncInv

LEMMA RemoveFailsKeeps ==
  ASSUME SyncInv, NEW y, Syncers = {y}, RemoveFails(y)
  PROVE  SyncInv'
<1>0. SyncTyped /\ CopyWhole /\ LinkSound /\ Removals /\ Forward /\ PublishedWhole
  BY DEF SyncInv
<1>1. PICK p \in Versions \X Entries : Visit(y, p) /\ kills' = kills + 1 /\ UNCHANGED <<tree, torn>>
  BY DEF RemoveFails
<1>2. /\ p \in sync[y].rm
      /\ sync'[y].at = sync[y].at /\ sync'[y].v = sync[y].v /\ sync'[y].force = sync[y].force
      /\ sync'[y].todo = sync[y].todo /\ sync'[y].rm = sync[y].rm \ {p}
      /\ sync' \in [Syncers -> Progress]
      /\ UNCHANGED <<cache, tmp, current, linkTmp, lost>>
  BY <1>0, <1>1, Visited
<1>3. kills' \in Nat /\ kills' > 0
  BY <1>0, <1>1 DEF SyncTyped
<1>4. SyncTyped'
  BY <1>0, <1>1, <1>2, <1>3 DEF SyncTyped
<1>5. CopyWhole' /\ LinkSound' /\ Forward' /\ PublishedWhole'
  BY <1>0, <1>1, <1>2, <1>3 DEF CopyWhole, LinkSound, Forward, PublishedWhole
<1>6. Removals'
  BY <1>0, <1>1, <1>2, <1>3 DEF Removals
<1> QED BY <1>4, <1>5, <1>6 DEF SyncInv

LEMMA PublishKeeps ==
  ASSUME SyncInv, NEW y, Syncers = {y}, Publish(y)
  PROVE  SyncInv' /\ CurrentKept
<1>0. SyncTyped /\ CopyWhole /\ LinkSound /\ Removals /\ Forward /\ PublishedWhole
  BY DEF SyncInv
<1> DEFINE v == sync[y].v
<1>1. /\ sync[y].at = "clear" /\ sync[y].rm = {} /\ tree[v] = {} /\ tree' = [tree EXCEPT ![v] = tmp[v]]
      /\ tmp' = [tmp EXCEPT ![v] = {}] /\ sync' = [sync EXCEPT ![y].at = "flip"]
      /\ torn' = torn \ {v} /\ UNCHANGED <<cache, current, linkTmp, kills, lost>>
  BY DEF Publish, Cleared, At
<1>2. /\ sync'[y].at = "flip" /\ sync'[y].v = v /\ sync'[y].force = sync[y].force
      /\ sync'[y].rm = {} /\ sync' \in [Syncers -> Progress] /\ v \in Versions
  BY <1>0, <1>1 DEF SyncTyped, Progress, Places
<1>3. HasRuntime(tmp[v]) /\ (v \in lost \/ tmp[v] = Entries)
  BY <1>0, <1>1 DEF CopyWhole
<1>4. /\ tree' \in [Versions -> SUBSET Entries] /\ tmp' \in [Versions -> SUBSET Entries]
      /\ tree'[v] = tmp[v] /\ \A w \in Versions \ {v} : tree'[w] = tree[w]
  BY <1>0, <1>1, <1>2 DEF SyncTyped
<1>5. SyncTyped'
  BY <1>0, <1>1, <1>2, <1>4 DEF SyncTyped
<1>6. CopyWhole' /\ Removals'
  BY <1>2 DEF CopyWhole, Removals
<1>7. current # 0 => current \in Versions
  BY <1>0, SyncConstants DEF SyncTyped, Versions
<1>8. current # v /\ current # 0 => tree'[current] = tree[current]
  BY <1>4, <1>7
<1>9. current # 0 /\ ~HasRuntime(tree'[current]) => current \in torn' /\ kills > 0
  <2> SUFFICES ASSUME current # 0, ~HasRuntime(tree'[current]) PROVE current \in torn' /\ kills > 0
    OBVIOUS
  <2>1. current # v /\ ~HasRuntime(tree[current])
    BY <1>3, <1>4, <1>8
  <2> HIDE DEF v
  <2> QED BY <1>0, <1>1, <2>1 DEF LinkSound, v
<1>10. LinkSound'
  BY <1>1, <1>2, <1>3, <1>4, <1>9 DEF LinkSound
<1>11. PublishedWhole'
  <2> SUFFICES ASSUME NEW w \in Versions, HasRuntime(tree'[w]), w \notin lost \cup torn' PROVE tree'[w] = Entries
    BY <1>1 DEF PublishedWhole
  <2>1. CASE w = v
    BY <1>3, <1>4, <2>1
  <2>2. CASE w # v
    BY <1>0, <1>1, <1>4, <2>2 DEF PublishedWhole
  <2> QED BY <2>1, <2>2
<1>12. v \in Nat /\ v # 0 /\ current \in Nat
  BY <1>0, <1>2, SyncConstants DEF Versions, SyncTyped
<1>13. Forward'
  BY <1>0, <1>1, <1>2, <1>8, <1>12 DEF Forward
<1>14. CurrentKept
  BY <1>1, <1>8 DEF CurrentKept, HasRuntime
<1> QED BY <1>5, <1>6, <1>10, <1>11, <1>13, <1>14 DEF SyncInv

LEMMA PublishFailsKeeps ==
  ASSUME SyncInv, NEW y, Syncers = {y}, PublishFails(y)
  PROVE  SyncInv'
<1>0. SyncTyped /\ CopyWhole /\ LinkSound /\ Removals /\ Forward /\ PublishedWhole
  BY DEF SyncInv
<1>1. /\ sync[y].at = "clear" /\ sync[y].rm = {} /\ tree[sync[y].v] # {}
      /\ tmp' = [tmp EXCEPT ![sync[y].v] = {}] /\ sync' = [sync EXCEPT ![y].at = "gc"]
      /\ UNCHANGED <<cache, tree, current, linkTmp, kills, lost, torn>>
  BY DEF PublishFails, Cleared, At
<1>2. sync'[y].at = "gc" /\ sync'[y].v = sync[y].v /\ sync'[y].rm = {} /\ sync' \in [Syncers -> Progress]
  BY <1>0, <1>1 DEF SyncTyped, Progress, Places
<1>3. kills > 0
  BY <1>0, <1>1 DEF Removals
<1>4. SyncTyped'
  BY <1>0, <1>1, <1>2 DEF SyncTyped
<1>5. CopyWhole' /\ LinkSound' /\ Forward' /\ PublishedWhole'
  BY <1>0, <1>1, <1>2, <1>3 DEF CopyWhole, LinkSound, Forward, PublishedWhole
<1>6. Removals'
  BY <1>2 DEF Removals
<1> QED BY <1>4, <1>5, <1>6 DEF SyncInv

LEMMA MakeLinkKeeps ==
  ASSUME SyncInv, NEW y, Syncers = {y}, MakeLink(y)
  PROVE  SyncInv'
<1>0. SyncTyped /\ CopyWhole /\ LinkSound /\ Removals /\ Forward /\ PublishedWhole
  BY DEF SyncInv
<1>1. /\ sync[y].at = "flip" /\ HasRuntime(tree[sync[y].v]) /\ linkTmp' = sync[y].v
      /\ sync' = [sync EXCEPT ![y].at = "swing"] /\ UNCHANGED <<cache, tree, tmp, current, kills, lost, torn>>
  BY DEF MakeLink, At
<1>2. /\ sync'[y].at = "swing" /\ sync'[y].v = sync[y].v /\ sync'[y].force = sync[y].force
      /\ sync'[y].rm = sync[y].rm /\ sync' \in [Syncers -> Progress] /\ sync[y].v \in 0..Newest
  BY <1>0, <1>1 DEF SyncTyped, Progress, Places
<1>3. SyncTyped'
  BY <1>0, <1>1, <1>2 DEF SyncTyped
<1>4. CopyWhole' /\ LinkSound' /\ Removals' /\ Forward' /\ PublishedWhole'
  BY <1>0, <1>1, <1>2 DEF CopyWhole, LinkSound, Removals, Forward, PublishedWhole
<1> QED BY <1>3, <1>4 DEF SyncInv

LEMMA SwingKeeps ==
  ASSUME SyncInv, NEW y, Syncers = {y}, Swing(y)
  PROVE  SyncInv' /\ NeverBackward
<1>0. SyncTyped /\ CopyWhole /\ LinkSound /\ Removals /\ Forward /\ PublishedWhole
  BY DEF SyncInv
<1>1. /\ sync[y].at = "swing" /\ current' = linkTmp /\ linkTmp' = 0
      /\ sync' = [sync EXCEPT ![y].at = "gc"] /\ UNCHANGED <<cache, tree, tmp, kills, lost, torn>>
  BY DEF Swing, At
<1>2. /\ sync'[y].at = "gc" /\ sync'[y].v = sync[y].v /\ sync'[y].rm = sync[y].rm
      /\ sync' \in [Syncers -> Progress]
  BY <1>0, <1>1 DEF SyncTyped, Progress, Places
<1>3. linkTmp = sync[y].v /\ HasRuntime(tree[linkTmp])
  BY <1>0, <1>1 DEF LinkSound
<1>4. SyncTyped'
  BY <1>0, <1>1, <1>2, SyncConstants DEF SyncTyped
<1>5. CopyWhole' /\ LinkSound' /\ Removals' /\ Forward' /\ PublishedWhole'
  BY <1>0, <1>1, <1>2, <1>3 DEF CopyWhole, LinkSound, Removals, Forward, PublishedWhole
<1>6. current \in Nat /\ linkTmp \in Nat
  BY <1>0, SyncConstants DEF SyncTyped
<1>7. NeverBackward
  BY <1>0, <1>1, <1>3, <1>6 DEF Forward, NeverBackward
<1> QED BY <1>4, <1>5, <1>7 DEF SyncInv

LEMMA FlipFailsKeeps ==
  ASSUME SyncInv, NEW y, Syncers = {y}, FlipFails(y)
  PROVE  SyncInv'
<1>0. SyncTyped /\ CopyWhole /\ LinkSound /\ Removals /\ Forward /\ PublishedWhole
  BY DEF SyncInv
<1> DEFINE place == IF sync[y].tried \/ CurrentVersion = sync[y].v THEN "gc" ELSE "flip"
<1>1. /\ sync[y].at \in {"flip", "swing"} /\ kills' = kills + 1 /\ linkTmp' = 0
      /\ sync' = [sync EXCEPT ![y].tried = TRUE, ![y].at = place]
      /\ UNCHANGED <<cache, tree, tmp, current, lost, torn>>
  BY DEF FlipFails
<1>2. place \in {"flip", "gc"}
  OBVIOUS
<1> HIDE DEF place
<1>3. /\ sync'[y].at \in {"flip", "gc"} /\ sync'[y].v = sync[y].v /\ sync'[y].force = sync[y].force
      /\ sync'[y].rm = sync[y].rm /\ sync' \in [Syncers -> Progress]
  <2>1. sync'[y] = [sync[y] EXCEPT !.tried = TRUE, !.at = place] /\ sync[y] \in Progress
    BY <1>0, <1>1 DEF SyncTyped
  <2>2. [sync[y] EXCEPT !.tried = TRUE, !.at = place] \in Progress
    BY <1>2, <2>1 DEF Progress, Places
  <2> QED BY <1>0, <1>1, <1>2, <2>1, <2>2 DEF SyncTyped, Progress
<1>4. HasRuntime(tree[sync[y].v])
  BY <1>0, <1>1 DEF LinkSound
<1>5. kills' \in Nat /\ kills' > 0
  BY <1>0, <1>1 DEF SyncTyped
<1>6. SyncTyped'
  BY <1>0, <1>1, <1>3, <1>5, SyncConstants DEF SyncTyped
<1>7. CopyWhole' /\ LinkSound' /\ Removals' /\ Forward' /\ PublishedWhole'
  BY <1>0, <1>1, <1>3, <1>4, <1>5 DEF CopyWhole, LinkSound, Removals, Forward, PublishedWhole
<1> QED BY <1>6, <1>7 DEF SyncInv

LEMMA CollectKeeps ==
  ASSUME SyncInv, NEW y, Syncers = {y}, Collect(y)
  PROVE  SyncInv'
<1>0. SyncTyped /\ CopyWhole /\ LinkSound /\ Removals /\ Forward /\ PublishedWhole
  BY DEF SyncInv
<1>1. /\ sync[y].at = "gc" /\ RemoveAll(y, "collect", Collected)
      /\ UNCHANGED <<cache, tree, tmp, current, linkTmp, kills, lost, torn>>
  BY DEF Collect
<1>2. current # 0 /\ HasRuntime(tree[current]) => current \notin Collected
  BY DEF Collected, CurrentVersion
<1>3. /\ Collected \in SUBSET Versions /\ 0 \notin Collected
      /\ \A p \in Holdings(Collected) : p[1] \in Collected
  <2>1. Collected \in SUBSET Versions /\ 0 \notin Versions
    BY SyncConstants DEF Collected, Versions
  <2> QED BY <1>0, <2>1, HoldingsOf
<1>4. /\ sync'[y].at = "collect" /\ sync'[y].v = sync[y].v /\ sync'[y].rm = Holdings(Collected)
      /\ sync' \in [Syncers -> Progress]
  BY <1>0, <1>1, <1>3, RemoveAllTyped DEF Places
<1>5. SyncTyped'
  BY <1>0, <1>1, <1>4 DEF SyncTyped
<1>6. CopyWhole' /\ LinkSound' /\ Forward' /\ PublishedWhole'
  BY <1>0, <1>1, <1>4 DEF CopyWhole, LinkSound, Forward, PublishedWhole
<1>7. Removals'
  BY <1>1, <1>2, <1>3, <1>4 DEF Removals
<1> QED BY <1>5, <1>6, <1>7 DEF SyncInv

LEMMA CollectEndsKeeps ==
  ASSUME SyncInv, NEW y, Syncers = {y}, CollectEnds(y)
  PROVE  SyncInv'
<1>0. SyncTyped /\ CopyWhole /\ LinkSound /\ Removals /\ Forward /\ PublishedWhole
  BY DEF SyncInv
<1>1. /\ sync[y].at = "collect" /\ sync' = [sync EXCEPT ![y] = Idle]
      /\ UNCHANGED <<cache, tree, tmp, current, linkTmp, kills, lost, torn>>
  BY DEF CollectEnds, Quit
<1>2. sync'[y] = Idle /\ Idle.at = "idle" /\ Idle.rm = {} /\ sync' \in [Syncers -> Progress]
  BY <1>0, <1>1, SyncConstants DEF SyncTyped, Idle, Progress, Places
<1>3. SyncTyped'
  BY <1>0, <1>1, <1>2 DEF SyncTyped
<1>4. CopyWhole' /\ LinkSound' /\ Removals' /\ Forward' /\ PublishedWhole'
  BY <1>0, <1>1, <1>2 DEF CopyWhole, LinkSound, Removals, Forward, PublishedWhole
<1> QED BY <1>3, <1>4 DEF SyncInv

LEMMA SyncKilledKeeps ==
  ASSUME SyncInv, NEW y, Syncers = {y}, Killed(y)
  PROVE  SyncInv'
<1>0. SyncTyped /\ CopyWhole /\ LinkSound /\ Removals /\ Forward /\ PublishedWhole
  BY DEF SyncInv
<1>1. /\ kills' = kills + 1 /\ sync' = [sync EXCEPT ![y] = Idle]
      /\ UNCHANGED <<cache, tree, tmp, current, linkTmp, lost, torn>>
  BY DEF Killed, Quit
<1>2. sync'[y] = Idle /\ Idle.at = "idle" /\ Idle.rm = {} /\ sync' \in [Syncers -> Progress]
  BY <1>0, <1>1, SyncConstants DEF SyncTyped, Idle, Progress, Places
<1>3. kills' \in Nat /\ kills' > 0
  BY <1>0, <1>1 DEF SyncTyped
<1>4. SyncTyped'
  BY <1>0, <1>1, <1>2, <1>3 DEF SyncTyped
<1>5. CopyWhole' /\ LinkSound' /\ Removals' /\ Forward' /\ PublishedWhole'
  BY <1>0, <1>1, <1>2, <1>3 DEF CopyWhole, LinkSound, Removals, Forward, PublishedWhole
<1> QED BY <1>4, <1>5 DEF SyncInv

LEMMA SyncStepKeeps ==
  ASSUME NEW y, Syncers = {y}, SyncInv, [SyncNext]_syncVars
  PROVE  SyncInv' /\ [NeverBackward /\ CurrentKept /\ (LinkRuns /\ PublishedWhole)']_syncVars
<1>1. SyncInv' => LinkRuns' /\ PublishedWhole'
  BY DEF SyncInv, LinkSound, LinkRuns
<1> SUFFICES SyncInv' /\ ((NeverBackward /\ CurrentKept) \/ UNCHANGED syncVars)
  BY <1>1
<1>2. /\ current' = current => NeverBackward
      /\ tree' = tree => CurrentKept
  BY SyncConstants DEF NeverBackward, CurrentKept, SyncInv, SyncTyped
<1>3. ASSUME NEW v \in Versions, HostInstalls(v) \/ HostRemoves(v) PROVE SyncInv' /\ current' = current /\ tree' = tree
  BY <1>3, HostKeeps DEF HostInstalls, HostRemoves
<1>4. CASE Begins
  <2>1. PICK v \in Versions, f \in BOOLEAN : Begin(y, v, f)
    BY <1>4 DEF Begins
  <2> QED BY <2>1, <1>2, BeginKeeps DEF Begin
<1>5. CASE \/ CopyEntry(y) \/ CopyFails(y) \/ Validate(y) \/ PublishFails(y) \/ MakeLink(y)
           \/ Collect(y) \/ CollectEnds(y)
  <2>1. SyncInv'
    BY <1>5, CopyKeeps, CopyFailsKeeps, ValidateKeeps, PublishFailsKeeps, MakeLinkKeeps, CollectKeeps, CollectEndsKeeps
  <2>2. current' = current /\ tree' = tree
    BY <1>5 DEF CopyEntry, CopyFails, Validate, PublishFails, MakeLink, Collect, CollectEnds
  <2> QED BY <1>2, <2>1, <2>2
<1>6. CASE RemoveEntry(y)
  BY <1>2, <1>6, RemoveEntryKeeps
<1>7. CASE Publish(y)
  BY <1>2, <1>7, PublishKeeps DEF Publish
<1>8. CASE Swing(y)
  BY <1>2, <1>8, SwingKeeps DEF Swing
<1>9. CASE RemoveFails(y) \/ FlipFails(y) \/ Killed(y)
  <2>1. SyncInv'
    BY <1>9, RemoveFailsKeeps, FlipFailsKeeps, SyncKilledKeeps
  <2>2. current' = current /\ tree' = tree
    BY <1>9 DEF RemoveFails, Visit, FlipFails, Killed
  <2> QED BY <1>2, <2>1, <2>2
<1>10. CASE UNCHANGED syncVars
  BY <1>10 DEF syncVars, SyncInv, SyncTyped, CopyWhole, LinkSound, Removals, Forward, PublishedWhole
<1> QED BY <1>2, <1>3, <1>4, <1>5, <1>6, <1>7, <1>8, <1>9, <1>10 DEF SyncNext, Step

(***************************************************************************)
(* Whatever the host installs and removes while a sync runs, wherever it   *)
(* is killed and whatever a removal leaves behind, the link goes to no     *)
(* older runtime, nobody but a forced sync of that version takes from the  *)
(* one it leads to, and what it leads to is whole but for a host's removal *)
(* and for a removal that was cut short (runtime_sync.sync_runtime).       *)
(***************************************************************************)
THEOREM CurrentAlwaysRuns ==
  ASSUME NEW y, Syncers = {y}
  PROVE  SyncSpec => CurrentRuns
<1>1. SyncInit => SyncInv
  BY SyncStarted
<1>2. SyncInv /\ [SyncNext]_syncVars => SyncInv' /\ [NeverBackward /\ CurrentKept /\ (LinkRuns /\ PublishedWhole)']_syncVars
  BY SyncStepKeeps
<1> QED BY <1>1, <1>2, PTL DEF SyncSpec, CurrentRuns
=============================================================================
