----------------------------- MODULE MCDetached -----------------------------
(* Small instances of what works beside the hooks: background lane, janitor,  *)
(* runtime sync and verify lane.  They share no state, so one of them moves   *)
(* in each behaviour; `part` says which.                                      *)
EXTENDS BgLane, Janitor, RuntimeSync, VerifyLane, TLC

CONSTANTS h1, h2, s1, s2, j1, j2, y1, c1, c2, r1, r2

MCLanes == {"release", "reconcile"}
MCHooks == {h1, h2}
MCJobs == {j1, j2}
MCReaders == {r1, r2}

MCSessions == {s1, s2}
MCRoot == [s \in MCSessions |-> "repo"]
MCKinds == << [name |-> "activity", key |-> "skey", rows |-> "many"],
              [name |-> "specs", key |-> "root", rows |-> "one"] >>

MCCmds == {c1, c2}
MCTrees == 1..3
\* The second edit of a dirty file does not show in git status.
MCGitState == (1 :> "clean") @@ (2 :> "dirty") @@ (3 :> "dirty")
MCRunners == {r1, r2}

MCSyncers == {y1}

VARIABLE part

allVars == <<part, vars, janitorVars, syncVars, verifyVars>>
Parts == {"lane", "janitor", "sync", "verify"}
MCInit == part \in Parts /\ Init /\ (part # "lane" => lane = "release") /\ JanitorInit /\ SyncInit /\ VerifyInit
MCNext ==
  /\ UNCHANGED part
  /\ \/ part = "lane" /\ Next /\ UNCHANGED <<janitorVars, syncVars, verifyVars>>
     \/ part = "janitor" /\ JanitorNext /\ UNCHANGED <<vars, syncVars, verifyVars>>
     \/ part = "sync" /\ SyncNext /\ UNCHANGED <<vars, janitorVars, verifyVars>>
     \/ part = "verify" /\ VerifyNext /\ UNCHANGED <<vars, janitorVars, syncVars>>

\* The fairness of each module, for the part that moves.
Fairness ==
  /\ WF_vars(part = "lane" /\ Tick)
  /\ WF_vars(part = "lane" /\ \E h \in Hooks : Lease(h))
  /\ \A h \in Hooks : WF_vars(part = "lane" /\ (Spawn(h) \/ SpawnFails(h)))
  /\ \A j \in Jobs : WF_vars(part = "lane" /\ JobEnds(j))
  /\ WF_janitorVars(part = "janitor" /\ SweepStep)
  /\ SF_janitorVars(part = "janitor" /\ DayPasses)
  /\ SF_janitorVars(part = "janitor" /\ StartsAgain)
  /\ WF_syncVars(part = "sync" /\ Step(y1))
  /\ SF_syncVars(part = "sync" /\ BeginNewest)
  /\ WF_verifyVars(part = "verify" /\ TimePasses)
MCFairSpec == MCInit /\ [][MCNext]_allVars /\ Fairness

\* The lane recovers from any holder's death or silence, in the part that moves.
LaneComesBack == part = "lane" => LaneRecovers
\* The newest version of the cache is the one that runs in the end.
Upgraded == part = "sync" => NewestRuns
=============================================================================
