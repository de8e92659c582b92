------------------------------ MODULE Breaker ------------------------------
(***************************************************************************)
(* The groundedness breaker of one session: the persisted breaker row, the *)
(* flock around its load-judge-save, and the processes that change it:     *)
(* PreToolUse hooks, detached release workers, Stop hooks, and the         *)
(* evidence-gate lift that a PreToolUse hook may run after the breaker let *)
(* its tool through.                                                       *)
(*                                                                         *)
(* A process reads the row, may wait a long time for the judge, and writes *)
(* the whole row back, so a load and the save that follows it are separate *)
(* steps.  What a process decides depends only on the row it loaded, on    *)
(* the time stamp it took before it waited for the lock, and on the judge, *)
(* so the evaluation is an operator from a row to the set of its outcomes. *)
(*                                                                         *)
(* A claim stands for its text, a prompt for the task lineage the breaker  *)
(* key is built from, an action for the signature of one tool call.  The   *)
(* messages, the steering text and the event log are left out.             *)
(***************************************************************************)
EXTENDS Integers, FiniteSets, Sequences, SequencesExt

CONSTANTS
  Hooks,           \* PreToolUse processes
  Workers,         \* detached release jobs
  Stops,           \* Stop hooks
  Free,            \* the lock's value when nobody holds it
  Claims, NoClaim, \* claims the judge may flag, and the empty claim
  Matches,         \* <<c, d>>: c is the text of d, contains it, or paraphrases it
  Actions,         \* signatures of mutating calls
  NoAction,
  MaxPrompt,       \* prompts are 1..MaxPrompt, 0 is the empty key
  MaxClock,        \* bound on time
  MaxBlocks,       \* max_blocks()
  MaxAdjudicated,  \* MAX_EVENTS
  JudgeWindow,     \* JUDGE_WINDOW_SECONDS
  CoalesceWindow,  \* JUDGE_COALESCE_WINDOW_SECONDS
  VerifyWindow,    \* AUTO_VERIFY_WINDOW_SECONDS
  LiftUses,        \* lift_uses_budget()
  MaxLiftCalls,    \* max_judge_calls()
  Tools,           \* the kinds of tool that reach PreToolUse
  Verdicts,        \* what the release judge may say of a claim
  Expirers,        \* the processes that can exhaust _lock_timeout()
  Overlap,         \* whether calls of different batches may overlap
  GateLifts,       \* whether the evidence gate asks for lifts
  JudgeErrors      \* whether a judge call may raise

Procs == Hooks \cup Workers \cup Stops
AllTools == {"mutate", "research", "free"}
AllVerdicts == {"grounded", "provisional", "needed"}

ASSUME BreakerConstants ==
  /\ MaxPrompt \in Nat \ {0} /\ MaxClock \in Nat \ {0}
  /\ MaxBlocks \in Nat \ {0} /\ MaxAdjudicated \in Nat \ {0}
  /\ JudgeWindow \in Nat /\ CoalesceWindow \in Nat /\ VerifyWindow \in Nat
  /\ LiftUses \in Nat /\ MaxLiftCalls \in Nat
  /\ Tools \subseteq AllTools
  /\ Verdicts \subseteq AllVerdicts /\ Expirers \subseteq Procs
  /\ Overlap \in BOOLEAN /\ GateLifts \in BOOLEAN /\ JudgeErrors \in BOOLEAN

ASSUME BreakerNames ==
  /\ Free \notin Procs
  /\ NoClaim \notin Claims
  /\ NoAction \notin Actions
  /\ Hooks \cap Workers = {} /\ Hooks \cap Stops = {} /\ Workers \cap Stops = {}
  /\ Matches \subseteq Claims \X Claims

VARIABLES
  clock,   \* wall-clock time
  prompt,  \* the prompt the session is working on
  row,     \* the persisted breaker row
  lock,    \* the holder of the flock, or Free
  pc,      \* where each process is
  mem,     \* the row each process loaded
  call,    \* the time stamp, tool and action of each hook's call
  blocks,  \* history: mutating calls refused in a row
  charged, \* history: the same since the last arm, lift or reinstatement
  resolved,\* history: the claims adjudicated so far
  judged   \* history: for each time stamp, the hook calls of this prompt that were judged

vars == <<clock, prompt, row, lock, pc, mem, call, blocks, charged, resolved, judged>>
history == <<blocks, charged, resolved, judged>>

Prompts == 1..MaxPrompt
Time == 0..MaxClock

Row == [key: 0..MaxPrompt, judgedAt: Time, callAt: Time,
        armed: BOOLEAN, prov: BOOLEAN, claim: Claims \cup {NoClaim},
        count: Nat, adj: Seq(Claims), verifyAt: Time, scope: 0..MaxPrompt,
        lift: Actions \cup {NoAction}, uses: Nat, liftCalls: Nat]

DefaultRow ==
  [key |-> 0, judgedAt |-> 0, callAt |-> 0, armed |-> FALSE, prov |-> FALSE,
   claim |-> NoClaim, count |-> 0, adj |-> << >>, verifyAt |-> 0, scope |-> 0,
   lift |-> NoAction, uses |-> 0, liftCalls |-> 0]

Call == [now: Time, tool: AllTools, action: Actions \cup {NoAction}]
NoCall == [now |-> 0, tool |-> "free", action |-> NoAction]

IsMutation(t) == t \in {"mutate", "research"}   \* shell tools are mutation tools
PassesBreaker(t) == t = "research"              \* ... but main() waives their block

(***************************************************************************)
(* Updates of a row.                                                       *)
(***************************************************************************)
\* Faulty variant: leaves the background verification running.
DisarmKeepsVerify(s) ==
  [s EXCEPT !.armed = FALSE, !.prov = FALSE, !.claim = NoClaim, !.count = 0]

Disarm(s) ==
  [s EXCEPT !.armed = FALSE, !.prov = FALSE, !.claim = NoClaim,
            !.count = 0, !.verifyAt = 0]

\* Faulty variant: stores the end of the debounce window instead of its start.
ArmDeadline(s, k, now, c) ==
  [s EXCEPT !.key = k, !.judgedAt = now + JudgeWindow, !.armed = TRUE, !.claim = c, !.count = 0]

Arm(s, k, now, c) ==
  [s EXCEPT !.key = k, !.judgedAt = now, !.armed = TRUE, !.claim = c, !.count = 0]

\* Faulty variant: a lift that leaves the breaker armed.
LiftArmed(s) == [s EXCEPT !.prov = TRUE, !.count = 0]

LiftProvisional(s) == [s EXCEPT !.armed = FALSE, !.prov = TRUE, !.count = 0]

Reinstate(s) == [s EXCEPT !.armed = TRUE, !.prov = FALSE, !.count = 0]

ClearDirector(s) == [s EXCEPT !.scope = 0]

LastOf(list, n) ==
  IF Len(list) <= n THEN list ELSE SubSeq(list, Len(list) - n + 1, Len(list))

RecordAdjudicated(s) ==
  IF s.claim = NoClaim THEN s
  ELSE [s EXCEPT !.adj = LastOf(IF s.claim \in ToSet(s.adj) THEN s.adj
                                ELSE Append(s.adj, s.claim), MaxAdjudicated)]

Adjudicate(s) == Disarm(RecordAdjudicated(s))

\* Faulty variant: compares the texts only.
SuppressedVerbatim(s, c) == c \in ToSet(s.adj)

Suppressed(s, c) == \E d \in ToSet(s.adj) : <<c, d>> \in Matches

(***************************************************************************)
(* Time windows.                                                           *)
(***************************************************************************)
Distance(a, b) == IF a < b THEN b - a ELSE a - b

ShouldJudge(s, k, now) == s.key = k => now - s.judgedAt >= JudgeWindow

\* Faulty variant: a sibling with an earlier stamp is not recognised.
CoalesceForward(s, k, now) ==
  s.key = k /\ s.callAt # 0 /\ now >= s.callAt /\ now - s.callAt < CoalesceWindow

ShouldCoalesce(s, k, now) ==
  s.key = k /\ s.callAt # 0 /\ Distance(now, s.callAt) < CoalesceWindow

Verifying(s, now) == s.verifyAt # 0 /\ now - s.verifyAt < VerifyWindow

(***************************************************************************)
(* What a release verdict, a poll of the verification sidecar and the      *)
(* block decision make of a row.  An answer carries the new row, what the  *)
(* hook answers, and whether the judge was called.  The answers: allow;      *)
(* failopen, which allows too; block, a refusal that is counted; hold, one *)
(* that is not; reinstate, the refusal of a call that drifts.              *)
(***************************************************************************)
Answer(a, s) == [row |-> s, is |-> a, judge |-> FALSE]
Judged(answers) == {[a EXCEPT !.judge = TRUE] : a \in answers}
Failing(s) == IF JudgeErrors THEN {Answer("allow", s)} ELSE {}

\* Faulty variant: disarms without recording the claim.
ReleaseUnrecorded(s) ==
  {CASE v = "grounded" -> ClearDirector(Disarm(s))
     [] v = "provisional" -> LiftProvisional(s)
     [] OTHER -> s : v \in Verdicts}

Release(s) ==
  {CASE v = "grounded" -> ClearDirector(Adjudicate(s))
     [] v = "provisional" -> LiftProvisional(s)
     [] OTHER -> s : v \in Verdicts}

\* Faulty variant: a failed verification gives up the arm.
PollGivesUp(s) == {Adjudicate(s), Disarm(s), s}

Poll(s) == {Adjudicate(s), [s EXCEPT !.verifyAt = 0], s}

\* Faulty variant: the cap is tested one call late.
DecideLate(s, c, coalesce) ==
  IF ~(IsMutation(c.tool) /\ s.armed) THEN Answer("allow", s)
  ELSE IF coalesce \/ Verifying(s, c.now) THEN Answer("hold", s)
  ELSE IF s.count >= MaxBlocks THEN Answer("failopen", Adjudicate(s))
  ELSE Answer("block", [s EXCEPT !.count = @ + 1])

\* Faulty variant: calls of a batch already judged are counted too.
DecideCountsBatch(s, c, coalesce) ==
  IF ~(IsMutation(c.tool) /\ s.armed) THEN Answer("allow", s)
  ELSE IF Verifying(s, c.now) THEN Answer("hold", s)
  ELSE IF s.count + 1 >= MaxBlocks THEN Answer("failopen", Adjudicate(s))
  ELSE Answer(IF coalesce THEN "hold" ELSE "block", [s EXCEPT !.count = @ + 1])

Decide(s, c, coalesce) ==
  IF ~(IsMutation(c.tool) /\ s.armed) THEN Answer("allow", s)
  ELSE IF coalesce \/ Verifying(s, c.now) THEN Answer("hold", s)
  ELSE IF s.count + 1 >= MaxBlocks THEN Answer("failopen", Adjudicate(s))
  ELSE Answer("block", [s EXCEPT !.count = @ + 1])

\* Faulty variant: drops a stale arm but not a stale scope.
DropStaleArm(s, k) ==
  IF (s.armed \/ s.prov) /\ s.key # k THEN ClearDirector(Disarm(s)) ELSE s

DropStale(s, k) ==
  IF (s.armed \/ s.prov) /\ s.key # k THEN ClearDirector(Disarm(s))
  ELSE IF s.scope # 0 /\ s.key \notin {0, k} THEN ClearDirector(s)
  ELSE s

(***************************************************************************)
(* evaluate_pre_tool: the answers a PreToolUse hook can give for the row s *)
(* (stale state already dropped), its call c and the prompt k.             *)
(***************************************************************************)
Monitor(s, c) ==
  IF IsMutation(c.tool)
  THEN {Answer("allow", s), Answer("reinstate", Reinstate(s))} \cup Failing(s)
  ELSE {Answer("allow", s)}

WhileProvisional(s, c, coalesce) ==
  LET j == [s EXCEPT !.callAt = c.now] IN
  IF coalesce THEN {Answer("allow", s)}
  ELSE Judged(Failing(j) \cup
              UNION {IF r.prov THEN Monitor(r, c) ELSE {Answer("allow", r)} : r \in Release(j)})

FlagClaim(s, k, c) ==
  {ClearDirector([Arm(s, k, c.now, cl) EXCEPT !.verifyAt = v]) :
     cl \in {x \in Claims : ~Suppressed(s, x)}, v \in {s.verifyAt, c.now}}
  \cup {ClearDirector(Arm(s, k, c.now, NoClaim))}

Direct(s, k, c) ==
  {[Disarm(s) EXCEPT !.key = k, !.judgedAt = c.now, !.scope = sc] : sc \in {0, k}}

WhileDisarmed(s, k, c, coalesce) ==
  LET j == [s EXCEPT !.callAt = c.now] IN
  IF coalesce \/ ~ShouldJudge(s, k, c.now) THEN {Answer("allow", s)}
  ELSE Judged(Failing(j) \cup {Decide(r, c, FALSE) : r \in FlagClaim(j, k, c) \cup Direct(j, k, c)})

WhileArmed(s, c, coalesce) ==
  LET j == [s EXCEPT !.callAt = c.now] IN
  IF s.verifyAt # 0 THEN {Decide(r, c, coalesce) : r \in Poll(s)}
  ELSE IF s.claim = NoClaim \/ coalesce THEN {Decide(s, c, coalesce)}
  ELSE Judged(Failing(j) \cup {Decide(r, c, coalesce) : r \in Release(j)})

PreTool(loaded, k, c) ==
  LET coalesce == ShouldCoalesce(loaded, k, c.now)
      s        == DropStale(loaded, k)
  IN  CASE s.prov -> WhileProvisional(s, c, coalesce)
        [] s.armed /\ ~s.prov -> WhileArmed(s, c, coalesce)
        [] OTHER -> WhileDisarmed(s, k, c, coalesce)

(***************************************************************************)
(* evaluate_post_tool_release, as the release worker calls it (tool is a   *)
(* release tool) and as the Stop hook calls it (the Stop payload carries   *)
(* no tool name, which is_release_tool refuses).                           *)
(***************************************************************************)
PostToolRelease(s, isReleaseTool) ==
  LET polled == IF s.verifyAt = 0 THEN {s} ELSE Poll(s)
      final  == {r \in polled : s.verifyAt # 0 /\ (~r.armed \/ r.verifyAt # 0)}
  IN  final \cup UNION {IF isReleaseTool /\ r.claim # NoClaim THEN Release(r) ELSE {r} :
                         r \in polled \ final}

(***************************************************************************)
(* Initial state and the steps of the environment.                         *)
(***************************************************************************)
Init ==
  /\ clock = 1 /\ prompt = 1
  /\ row = DefaultRow
  /\ lock = Free
  /\ pc = [p \in Procs |-> "idle"]
  /\ mem = [p \in Procs |-> DefaultRow]
  /\ call = [p \in Hooks |-> NoCall]
  /\ blocks = 0 /\ charged = 0 /\ resolved = {}
  /\ judged = [t \in Time |-> 0]

Tick ==
  /\ clock < MaxClock
  /\ clock' = clock + 1
  /\ UNCHANGED <<prompt, row, lock, pc, mem, call, history>>

\* The host submits a prompt when no PreToolUse hook is running.
NewPrompt ==
  /\ prompt < MaxPrompt
  /\ \A h \in Hooks : pc[h] = "idle"
  /\ prompt' = prompt + 1
  /\ judged' = [t \in Time |-> 0]
  /\ UNCHANGED <<clock, row, lock, pc, mem, call, blocks, charged, resolved>>

(***************************************************************************)
(* The flock.  A waiter that exhausts its wait goes on without the lock.   *)
(***************************************************************************)
Waiting(p) == pc[p] \in {"wait", "waitVerify"}
Held(p) == CASE pc[p] = "wait" -> "held" [] OTHER -> "heldVerify"

Load(p) ==
  /\ mem' = [mem EXCEPT ![p] = row]
  /\ pc' = [pc EXCEPT ![p] = Held(p)]
  /\ UNCHANGED <<clock, prompt, row, call, history>>

\* Faulty variant: the lock is taken whoever holds it.
AcquireShared(p) == Waiting(p) /\ lock' = p /\ Load(p)

Acquire(p) ==
  /\ Waiting(p)
  /\ lock = Free
  /\ lock' = p
  /\ Load(p)

\* Faulty variant: goes on polling when the wait is exhausted.
ExpireNever(p) ==
  /\ p \in Expirers
  /\ Waiting(p) /\ lock = p
  /\ UNCHANGED lock
  /\ Load(p)

Expire(p) ==
  /\ p \in Expirers
  /\ Waiting(p)
  /\ lock # Free
  /\ UNCHANGED lock
  /\ Load(p)

Unlock(p) == lock' = IF lock = p THEN Free ELSE lock

\* The host kills a hook that overruns its timeout; a worker may die.  The
\* kernel drops the flock of a dead process.
Crash(p) ==
  /\ pc[p] # "idle"
  /\ pc' = [pc EXCEPT ![p] = "idle"]
  /\ mem' = [mem EXCEPT ![p] = DefaultRow]
  /\ call' = IF p \in Hooks THEN [call EXCEPT ![p] = NoCall] ELSE call
  /\ Unlock(p)
  /\ UNCHANGED <<clock, prompt, row, history>>

(***************************************************************************)
(* The PreToolUse hook.                                                    *)
(***************************************************************************)
\* The calls of one batch start together; the host starts the next batch when
\* the previous one is done, unless Overlap.
HookStart(h) ==
  /\ pc[h] = "idle"
  /\ Overlap \/ \A g \in Hooks : pc[g] # "idle" => clock - call[g].now < CoalesceWindow
  /\ \E t \in Tools : \E a \in (IF t = "mutate" THEN Actions ELSE {NoAction}) :
       call' = [call EXCEPT ![h] = [now |-> clock, tool |-> t, action |-> a]]
  /\ pc' = [pc EXCEPT ![h] = "wait"]
  /\ UNCHANGED <<clock, prompt, row, lock, mem, history>>

\* Claims that enter the durable list, for the history variable.
Recorded(from, to) == ToSet(to.adj) \ ToSet(from.adj)

Save(p, s) ==
  /\ row' = s
  /\ mem' = [mem EXCEPT ![p] = DefaultRow]
  /\ Unlock(p)
  /\ resolved' = resolved \cup Recorded(mem[p], s)

\* History counters saturate one step beyond what the properties tell apart.
UpTo(cap, n) == IF n > cap THEN cap ELSE n

Refuses(a, t) == a.is \in {"block", "hold", "reinstate"} /\ ~PassesBreaker(t)

\* A refused mutating call extends the run of refusals, an allowed one ends it.
CountBlocks(h, a) ==
  LET t     == call[h].tool
      known == DropStale(mem[h], prompt).armed
  IN  /\ blocks' = IF ~IsMutation(t) THEN blocks
                   ELSE IF ~Refuses(a, t) THEN 0
                   ELSE IF a.is = "hold" THEN blocks ELSE UpTo(MaxBlocks, blocks + 1)
      /\ charged' = IF ~a.row.armed \/ a.is = "reinstate" THEN 0
                    ELSE UpTo(MaxBlocks, (IF known THEN charged ELSE 0)
                                         + (IF a.is = "block" THEN 1 ELSE 0))

HookSave(h) ==
  /\ pc[h] = "held"
  /\ \E a \in PreTool(mem[h], prompt, call[h]) :
       /\ Save(h, a.row)
       /\ CountBlocks(h, a)
       /\ judged' = IF a.judge THEN [judged EXCEPT ![call[h].now] = UpTo(2, @ + 1)] ELSE judged
       /\ pc' = [pc EXCEPT ![h] =
                   IF Refuses(a, call[h].tool) THEN "idle" ELSE "scope"]
  /\ call' = IF pc'[h] = "idle" THEN [call EXCEPT ![h] = NoCall] ELSE call
  /\ UNCHANGED <<clock, prompt>>

\* _enforce_tool_scope reads the row again, after the lock is released.
Finish(h) ==
  /\ pc' = [pc EXCEPT ![h] = "idle"]
  /\ call' = [call EXCEPT ![h] = NoCall]

ScopeBlock(h) ==
  /\ pc[h] = "scope"
  /\ call[h].tool = "mutate"
  /\ row.scope # 0
  /\ Finish(h)
  /\ UNCHANGED <<clock, prompt, row, lock, mem, history>>

ScopePass(h) ==
  /\ pc[h] = "scope"
  /\ IF GateLifts /\ call[h].tool = "mutate"
     THEN pc' = [pc EXCEPT ![h] = "gate"] /\ UNCHANGED call
     ELSE Finish(h)
  /\ UNCHANGED <<clock, prompt, row, lock, mem, history>>

(***************************************************************************)
(* _evidence_lift_allows: load, perhaps judge, save, without the lock.     *)
(***************************************************************************)
LiftLoad(h) ==
  /\ pc[h] = "gate"
  /\ mem' = [mem EXCEPT ![h] = row]
  /\ pc' = [pc EXCEPT ![h] = "lift"]
  /\ UNCHANGED <<clock, prompt, row, lock, call, history>>

Covered(s, a) == s.uses > 0 /\ s.lift = a

LiftOutcomes(s, a) ==
  LET called == [s EXCEPT !.liftCalls = @ + 1]
      spend(r) == [r EXCEPT !.uses = IF @ > 0 THEN @ - 1 ELSE 0]
  IN  IF Covered(s, a) THEN {spend(s)}
      ELSE IF s.liftCalls >= MaxLiftCalls THEN {}
      ELSE {called, spend([called EXCEPT !.lift = a, !.uses = LiftUses])}

LiftSave(h) ==
  /\ pc[h] = "lift"
  /\ row' \in LiftOutcomes(mem[h], call[h].action)
  /\ mem' = [mem EXCEPT ![h] = DefaultRow]
  /\ Finish(h)
  /\ UNCHANGED <<clock, prompt, lock, blocks, charged, resolved, judged>>

LiftExhausted(h) ==
  /\ pc[h] = "lift"
  /\ LiftOutcomes(mem[h], call[h].action) = {}
  /\ mem' = [mem EXCEPT ![h] = DefaultRow]
  /\ Finish(h)
  /\ UNCHANGED <<clock, prompt, row, lock, history>>

(***************************************************************************)
(* The detached release worker.                                            *)
(***************************************************************************)
WorkerStart(w) ==
  /\ pc[w] = "idle"
  /\ row.armed \/ row.prov
  /\ pc' = [pc EXCEPT ![w] = "wait"]
  /\ UNCHANGED <<clock, prompt, row, lock, mem, call, history>>

ReleaseCharge(p, s) ==
  charged' = IF ~s.armed THEN 0 ELSE charged

WorkerSave(w) ==
  /\ pc[w] = "held"
  /\ mem[w].armed \/ mem[w].prov
  /\ \E s \in PostToolRelease(mem[w], TRUE) : Save(w, s) /\ ReleaseCharge(w, s)
  /\ pc' = [pc EXCEPT ![w] = "idle"]
  /\ UNCHANGED <<clock, prompt, call, blocks, judged>>

WorkerQuit(w) ==
  /\ pc[w] = "held"
  /\ ~mem[w].armed /\ ~mem[w].prov
  /\ pc' = [pc EXCEPT ![w] = "idle"]
  /\ mem' = [mem EXCEPT ![w] = DefaultRow]
  /\ Unlock(w)
  /\ UNCHANGED <<clock, prompt, row, call, history>>

(***************************************************************************)
(* The Stop hook: _advance_release, then _advance_auto_verify, each under  *)
(* the lock.                                                               *)
(***************************************************************************)
StopStart(z) ==
  /\ pc[z] = "idle"
  /\ \A h \in Hooks : pc[h] = "idle"   \* the host stops a turn between tool calls
  /\ pc' = [pc EXCEPT ![z] = "wait"]
  /\ UNCHANGED <<clock, prompt, row, lock, mem, call, history>>

StopSkips(z) ==
  IF pc[z] = "held" THEN ~(mem[z].armed \/ mem[z].prov) \/ mem[z].verifyAt # 0
                    ELSE mem[z].verifyAt = 0

StopNext(z) == pc' = [pc EXCEPT ![z] = IF pc[z] = "held" THEN "waitVerify" ELSE "idle"]

StopSave(z) ==
  /\ pc[z] \in {"held", "heldVerify"}
  /\ ~StopSkips(z)
  /\ \E s \in (IF pc[z] = "held" THEN PostToolRelease(mem[z], FALSE) ELSE Poll(mem[z])) :
       Save(z, s) /\ ReleaseCharge(z, s)
  /\ StopNext(z)
  /\ UNCHANGED <<clock, prompt, call, blocks, judged>>

StopSkip(z) ==
  /\ pc[z] \in {"held", "heldVerify"}
  /\ StopSkips(z)
  /\ StopNext(z)
  /\ mem' = [mem EXCEPT ![z] = DefaultRow]
  /\ Unlock(z)
  /\ UNCHANGED <<clock, prompt, row, call, history>>

Next ==
  \/ Tick
  \/ NewPrompt
  \/ \E p \in Procs : Acquire(p) \/ Expire(p) \/ Crash(p)
  \/ \E h \in Hooks :
       \/ HookStart(h) \/ HookSave(h) \/ ScopeBlock(h) \/ ScopePass(h)
       \/ LiftLoad(h) \/ LiftSave(h) \/ LiftExhausted(h)
  \/ \E w \in Workers : WorkerStart(w) \/ WorkerSave(w) \/ WorkerQuit(w)
  \/ \E z \in Stops : StopStart(z) \/ StopSave(z) \/ StopSkip(z)

Spec == Init /\ [][Next]_vars

\* A waiter polls the flock until it gets it or its wait is exhausted.  Nothing
\* is assumed of a holder: its judge call may hang.
Enter(p) == Acquire(p) \/ Expire(p)
FairSpec == Spec /\ \A p \in Procs : WF_vars(Enter(p))

(***************************************************************************)
(* Properties.                                                             *)
(***************************************************************************)
Consistent(s) ==
  /\ ~(s.armed /\ s.prov)
  /\ s.prov => s.claim # NoClaim
  /\ ~s.armed => s.count = 0 /\ s.verifyAt = 0
  /\ s.armed => s.count < MaxBlocks
  /\ s.verifyAt # 0 => s.claim # NoClaim
  /\ s.claim # NoClaim => s.armed \/ s.prov
  /\ s.armed \/ s.prov => s.key # 0 /\ s.scope = 0
  /\ s.scope # 0 => s.scope = s.key
  /\ Len(s.adj) <= MaxAdjudicated

\* Whatever the interleaving, and even when saves overwrite each other, the
\* stored row is one the breaker understands: armed and provisionally lifted
\* exclude each other, a block count and a background verification belong to an
\* armed claim, the count never reaches the cap, and a director scope belongs to
\* the key in the row and never coexists with an arm.
RowConsistent == row \in Row /\ Consistent(row)

\* A process that holds the flock and has loaded the row saves on top of that
\* row: nobody wrote in between (save_breaker's "the read-modify-(judge)-write
\* is serialized").
Serialized ==
  \A p \in Procs : pc[p] \in {"held", "heldVerify", "lift"} => mem[p] = row

\* Within its prompt an armed claim is given up only when it is adjudicated or
\* provisionally lifted: an arm is never silently lost.
NoSilentDisarm ==
  [][row.armed /\ ~row'.armed /\ row.key = prompt /\ row.claim # NoClaim
       => row'.prov \/ row.claim \in ToSet(row'.adj)]_vars

\* Between an arm, lift or reinstatement and the next, fewer than MaxBlocks calls
\* are charged, whichever of several hooks were refused.
BudgetKept == row.armed => charged < MaxBlocks

\* The counter that triggers the fail-open release counts calls that were
\* refused in a row ("auto-released after {count} consecutive blocks").
CountEarned == row.armed => row.count <= blocks

\* The budget costs what it says: neither more refusals than the cap nor fewer.
BudgetHonest == BudgetKept /\ CountEarned

\* Refusals of mutating calls in a row stay below the cap: no enforcement loop
\* traps the session.
NoTrap == blocks < MaxBlocks

\* One hook of a batch calls the judge and the others reuse its result: no two
\* judged calls of a prompt lie within the coalesce window.
OneJudgePerBatch ==
  \A t, u \in Time :
    judged[t] + (IF t = u THEN 0 ELSE judged[u]) > 1 => Distance(t, u) >= CoalesceWindow

\* The scope that _enforce_tool_scope reads after the lock is released was
\* written for the prompt that it gates.
ScopeOwnPrompt ==
  \A h \in Hooks : pc[h] = "scope" /\ row.scope # 0 => row.scope = prompt

\* Without races the rows, locks and processes implement the abstract gate.
GateOf(s) == CASE s.armed -> "armed" [] s.prov -> "lifted" [] OTHER -> "open"

Gate == INSTANCE ClaimGate WITH
  gate  <- GateOf(row),
  claim <- row.claim,
  owner <- IF GateOf(row) = "open" THEN 0 ELSE row.key

ImplementsGate == Gate!GateSpec

\* A dead or hung holder cannot wedge a batch: every waiter goes on.
NoWedge == \A p \in Procs : Waiting(p) ~> ~Waiting(p)
=============================================================================
