---------------------------- MODULE VerifyLane -----------------------------
(* Background verification (verify_lane.py with the breaker's                 *)
(* _dispatch_auto_verify, _poll_auto_verify and auto_verify_in_progress): an  *)
(* armed claim whose proof is a run of the repository's own commands is       *)
(* handed to a detached runner through a sidecar file, named by the claim and *)
(* by what git says of the tree; later hook calls poll the file, disarm when  *)
(* every command passed and give the claim back when one failed.              *)
EXTENDS Naturals, FiniteSets

CONSTANTS
  Cmds,        \* commands the judge may name
  Trees,       \* contents of the working tree
  GitState,       \* tree -> what git rev-parse HEAD and git status say of it
  Window,      \* AUTO_VERIFY_WINDOW_SECONDS, in steps of the clock
  Runners,     \* detached runners
  MaxArms      \* bound: claims armed with commands

Keys == {GitState[t] : t \in Trees}
Terminal == {"passed", "failed"}
NoFile == [cmds |-> {}, results |-> [c \in {} |-> "none"]]

VARIABLES
  worktree,    \* the content of the working tree
  file,        \* fingerprint -> the sidecar (of the one claim modelled), NoFile when absent
  row,         \* the breaker row: its key, its tasks' status, the dispatch's age
  run,         \* per runner: its file, whether it has read it, commands left, what finished
  arms,
  ran,         \* history: <<command, key>> run to exit 0 by a runner of that key
  disarmed     \* history: <<command, key>> of the disarms by the lane

verifyVars == <<worktree, file, row, run, arms, ran, disarmed>>
NoRow == [key |-> "none", tasks |-> [c \in {} |-> "pending"], age |-> 0]
NoRun == [key |-> "none", on |-> FALSE, cmds |-> {}, done |-> [c \in {} |-> "none"]]

VerifyInit ==
  /\ worktree = (CHOOSE t \in Trees : TRUE) /\ file = [p \in Keys |-> NoFile]
  /\ row = NoRow /\ run = [r \in Runners |-> NoRun]
  /\ arms = 0 /\ ran = {} /\ disarmed = {}

Dispatched == row.key # "none"
Tasks == DOMAIN row.tasks
\* Faulty variant: the window is not looked at.
VerifyingLong == Dispatched /\ \E c \in Tasks : row.tasks[c] \notin Terminal
Verifying == Dispatched /\ row.age < Window /\ \E c \in Tasks : row.tasks[c] \notin Terminal
Free(r) == run[r].key = "none"

-----------------------------------------------------------------------------
\* The model edits, commits or reverts.
Edit == worktree' \in Trees \ {worktree} /\ UNCHANGED <<file, row, run, arms, ran, disarmed>>

\* The claim is armed with commands that passed sanction_tasks.  A sidecar of the
\* same key is reused whatever commands it has; otherwise it is seeded and a
\* runner is spawned on it; when the spawn fails the seed stays and the arm is a
\* normal block.
Seed(cs) == [cmds |-> cs, results |-> [c \in {} |-> "none"]]
RowOf(p, cs) == [key |-> p, tasks |-> [c \in cs |-> "pending"], age |-> 0]
Dispatch(cs) ==
  /\ ~Dispatched /\ arms < MaxArms /\ arms' = arms + 1
  /\ LET p == GitState[worktree]
     IN \/ file[p] # NoFile /\ row' = RowOf(p, cs) /\ UNCHANGED <<file, run>>
        \/ /\ file[p] = NoFile /\ file' = [file EXCEPT ![p] = Seed(cs)]
           /\ \/ UNCHANGED <<run, row>>
              \/ /\ \E r \in Runners : Free(r) /\ run' = [run EXCEPT ![r].key = p]
                 /\ row' = RowOf(p, cs)
  /\ UNCHANGED <<worktree, ran, disarmed>>

\* A second hook that did not get the lock saw no sidecar either: it seeds the
\* file again and spawns a runner of its own; its row is saved last.
DispatchUnlocked(cs) ==
  /\ Dispatched /\ row.age = 0 /\ arms < MaxArms
  /\ LET p == GitState[worktree]
     IN /\ row.key = p /\ file[p].results = [c \in {} |-> "none"]
        /\ file' = [file EXCEPT ![p] = Seed(cs)]
        /\ \E r \in Runners : Free(r) /\ run' = [run EXCEPT ![r].key = p]
        /\ row' = RowOf(p, cs)
  /\ arms' = arms + 1
  /\ UNCHANGED <<worktree, ran, disarmed>>

\* The runner takes the commands that are in the file by now and writes the file
\* anew without results.
Attach(r) ==
  LET p == run[r].key
  IN /\ ~Free(r) /\ ~run[r].on
     /\ run' = [run EXCEPT ![r].on = TRUE, ![r].cmds = file[p].cmds]
     /\ file' = [file EXCEPT ![p] = Seed(file[p].cmds)]
     /\ UNCHANGED <<worktree, row, arms, ran, disarmed>>

\* It writes its whole state again after each finished command: exit 0, or
\* anything else, a timeout (124) and a failure to run (127) included.
Flush(p, cs, done) == file' = [file EXCEPT ![p] = [cmds |-> cs, results |-> done]]
Finish(r, c) ==
  /\ c \in run[r].cmds
  /\ \E exit \in {"0", "nonzero"} :
       LET done == [d \in DOMAIN run[r].done \cup {c} |-> IF d = c THEN exit ELSE run[r].done[d]]
           left == run[r].cmds \ {c}
       IN /\ Flush(run[r].key, run[r].cmds \cup DOMAIN run[r].done, done)
          /\ run' = [run EXCEPT ![r] =
               IF left = {} THEN NoRun ELSE [@ EXCEPT !.cmds = left, !.done = done]]
          /\ ran' = IF exit = "0" THEN ran \cup {<<c, run[r].key>>} ELSE ran
  /\ UNCHANGED <<worktree, row, arms, disarmed>>

RunnerDies(r) ==
  /\ ~Free(r) /\ run' = [run EXCEPT ![r] = NoRun]
  /\ UNCHANGED <<worktree, file, row, arms, ran, disarmed>>

\* Any hook call of the armed breaker: results of tasks still pending are taken
\* over by command; all passed adjudicates and disarms, all terminal clears.
\* Faulty variant: the results of every sidecar of the session are read.
ResultsOfAny(p) ==
  LET has == UNION {DOMAIN file[q].results : q \in Keys}
  IN [c \in has |-> file[CHOOSE q \in Keys : c \in DOMAIN file[q].results].results[c]]
Results(p) == file[p].results
AllPassed(ts) == \A c \in DOMAIN ts : ts[c] = "passed"
Polled ==
  LET res == Results(row.key)
  IN [c \in Tasks |-> IF row.tasks[c] \in Terminal \/ c \notin DOMAIN res THEN row.tasks[c]
                      ELSE IF res[c] = "0" THEN "passed" ELSE "failed"]
Poll ==
  /\ Dispatched
  /\ row' = IF \A c \in Tasks : Polled[c] \in Terminal THEN NoRow ELSE [row EXCEPT !.tasks = Polled]
  /\ disarmed' = IF AllPassed(Polled) THEN disarmed \cup (Tasks \X {row.key}) ELSE disarmed
  /\ UNCHANGED <<worktree, file, run, arms, ran>>

\* Another path drops the arm: the cap, a new prompt, the release judges.
Dropped == Dispatched /\ row' = NoRow /\ UNCHANGED <<worktree, file, run, arms, ran, disarmed>>

TimePasses ==
  /\ Dispatched /\ row.age < Window /\ row' = [row EXCEPT !.age = @ + 1]
  /\ UNCHANGED <<worktree, file, run, arms, ran, disarmed>>

CmdSets == SUBSET Cmds \ {{}}
VerifyNext ==
  \/ Edit \/ Poll \/ Dropped \/ TimePasses
  \/ \E cs \in CmdSets : Dispatch(cs) \/ DispatchUnlocked(cs)
  \/ \E r \in Runners : Attach(r) \/ RunnerDies(r) \/ \E c \in Cmds : Finish(r, c)

VerifySpec == VerifyInit /\ [][VerifyNext]_verifyVars
VerifyFairSpec == VerifySpec /\ WF_verifyVars(TimePasses)

-----------------------------------------------------------------------------
\* The lane disarms only when every command of the claim ran to exit 0 in a run
\* dispatched for the same git state: a timeout, a failure to start, a dead runner,
\* a second runner's empty file or an older arm's result never count as a pass.
DisarmEarned == disarmed \subseteq ran

\* A dispatched verification holds the fail-open cap back for its window only: a
\* dead runner, a spawn that failed or a sidecar with other commands cannot hold
\* it for ever.
HoldEnds == Verifying ~> ~Verifying
=============================================================================
