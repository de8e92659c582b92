------------------------------ MODULE PostTool ------------------------------
(* The PostToolUse hook after a tool of a parallel batch: log the evidence,    *)
(* count research of a HEAVY session, claim the judging of the turn, start the *)
(* detached reconcile and discover job, tell the agent what changed.  Jobs     *)
(* judge a snapshot of the board and apply to the board of then.  The pending  *)
(* text and the lease's own hazards are BgLane's, the evidence log Records'.   *)
EXTENDS Naturals, Sequences, FiniteSets, SequencesExt

CONSTANTS Hooks,         \* processes of the hook; each serves one tool at a time
          Jobs,          \* slots for detached children
          Titles,        \* normalized titles of approaches
          Offers,        \* what the judge may find: sequences of titles, the empty one among them
          Window, TTL,   \* coalesce window of claims, life of a lease
          MinTools, MaxDiscoveries, MaxFrontiers,
          MaxCalls, MaxClock, MaxTurns, NoTurn

ASSUME ToolConstants ==
  /\ MaxFrontiers \in Nat /\ Window \in Nat /\ NoTurn \notin Hooks
  /\ \A found \in Offers : found \in Seq(Titles)

VARIABLES clock, turn, lines,  \* the prompt that runs; how far the transcript has grown
          counters, claim, lease,
          board,                 \* titles of the frontier tasks, in order
          marks,                 \* ledger: the dedup marks of what was told
          emitLock, hook, job,
          calls, grants, said, overlap    \* history
toolVars == <<clock, turn, lines, counters, claim, lease, board, marks, emitLock, hook, job,
          calls, grants, said, overlap>>
Unheld == NoTurn

Unmarked == [epoch |-> NoTurn, body |-> {}, hint |-> FALSE]
HookIdle == [pc |-> "idle", research |-> FALSE, fails |-> FALSE, epoch |-> NoTurn, ts |-> 0, seen |-> Unmarked,
             discover |-> FALSE, parts |-> {}]
JobFree == [pc |-> "free", discover |-> FALSE, found |-> <<>>]

ToolInit ==
  /\ clock = 0 /\ turn = 1 /\ lines = 1
  /\ counters = [research |-> 0, discoveries |-> 0]
  /\ claim = [at |-> 0, epoch |-> NoTurn] /\ lease = Unheld
  /\ board = <<>> /\ marks = Unmarked /\ emitLock = Unheld
  /\ hook = [h \in Hooks |-> HookIdle] /\ job = [j \in Jobs |-> JobFree]
  /\ calls = 0 /\ grants = <<>> /\ said = <<>> /\ overlap = FALSE

spoken == <<marks, emitLock, said, overlap>>
world == <<clock, turn, lines>>
At(h, from, to) == hook[h].pc = from /\ hook' = [hook EXCEPT ![h].pc = to]
Distance(a, b) == IF a > b THEN a - b ELSE b - a

----------------------------------------------------------------------------
\* main(): update_ledger loads the row, adds the evidence and saves the row,
\* without the lock of the dedup marks.
LogLoads(h, research, fails) ==
  /\ hook[h].pc = "idle" /\ calls < MaxCalls /\ calls' = calls + 1
  /\ hook' = [hook EXCEPT ![h] = [HookIdle EXCEPT !.pc = "log", !.research = research, !.fails = fails,
                                                  !.seen = marks]]
  /\ UNCHANGED <<world, counters, claim, lease, board, job, grants, spoken>>
LogSaves(h) ==
  /\ At(h, "log", "logged")
  /\ marks' = hook[h].seen /\ overlap' = (overlap \/ marks # hook[h].seen)
  /\ UNCHANGED <<world, counters, claim, lease, board, emitLock, job, calls, grants, said>>

\* _spec_judge_plan: new evidence asks for a reconcile, research beside too few
\* frontiers for a discovery.
Plan(h, evidence) ==
  LET counts == hook[h].research /\ Len(board) < MaxFrontiers
      n == counters.research + 1
  IN /\ hook[h].pc = "logged"
     /\ counters' = IF counts THEN [counters EXCEPT !.research = n] ELSE counters
     /\ LET discover == counts /\ n >= MinTools /\ counters.discoveries < MaxDiscoveries
        IN hook' = [hook EXCEPT ![h].discover = discover,
                                ![h].pc = IF evidence \/ discover THEN "wants" ELSE "tells"]
     /\ UNCHANGED <<world, claim, lease, board, job, calls, grants, spoken>>
\* claim_spec_judging: the time and then the epoch are read; prompt and length of
\* the transcript name the epoch, unless it cannot be read.
ReadEpoch(h, readable) ==
  /\ hook[h].pc = "wants"
  /\ hook' = [hook EXCEPT ![h].ts = clock, ![h].pc = IF readable THEN "claims" ELSE "claimed",
                          ![h].epoch = IF readable THEN <<turn, lines>> ELSE NoTurn]
  /\ UNCHANGED <<world, counters, claim, lease, board, job, calls, grants, spoken>>
\* Faulty variant: a claim of another turn is not told from a claim of this one,
\* nor time from time: a claim is refused only while it is the very same.
ClaimedSame(h) == claim.epoch = hook[h].epoch /\ claim.at = hook[h].ts
\* posttool_spec_claim: one transaction, on the time of the caller.
Claimed(h) == claim.epoch = hook[h].epoch /\ Distance(hook[h].ts, claim.at) < Window
Claim(h) ==
  /\ hook[h].pc = "claims"
  /\ IF Claimed(h)
     THEN /\ hook' = [hook EXCEPT ![h].pc = "tells"] /\ UNCHANGED <<claim, grants>>
     ELSE /\ claim' = [at |-> hook[h].ts, epoch |-> hook[h].epoch]
          /\ grants' = Append(grants, claim')
          /\ hook' = [hook EXCEPT ![h].pc = "claimed"]
  /\ UNCHANGED <<world, counters, lease, board, job, calls, spoken>>
\* spawn_reconcile_job: the lease, and a child when it was free.
Spawn(h) ==
  /\ At(h, "claimed", "tells")
  /\ IF lease # Unheld /\ Distance(clock, lease) < TTL THEN UNCHANGED <<lease, job>>
     ELSE \E j \in Jobs :
            /\ job[j].pc = "free" /\ lease' = clock
            /\ job' = [job EXCEPT ![j] = [JobFree EXCEPT !.pc = "judges", !.discover = hook[h].discover]]
  /\ UNCHANGED <<world, counters, claim, board, calls, grants, spoken>>

----------------------------------------------------------------------------
\* The detached job: ask about a snapshot, apply under the lock of the spec.
JobAnswers(j, found) ==
  /\ job[j].pc = "judges"
  /\ found # <<>> => job[j].discover /\ Len(board) < MaxFrontiers
  /\ job' = [job EXCEPT ![j].pc = "applies", ![j].found = found]
  /\ UNCHANGED <<world, counters, claim, lease, board, hook, calls, grants, spoken>>
\* Faulty variant: the snapshot's room and titles are trusted, not the base's.
AddedTrusting(base, found) == {found}
\* apply_frontier_additions: in order, what neither the base nor the answer has
\* before, up to the cap.  There is one such sequence; `at` says where its titles
\* stand in the answer.
Added(base, found) ==
  LET new == {i \in DOMAIN found : found[i] \notin ToSet(base) /\ \A k \in 1..(i - 1) : found[k] # found[i]}
      room == IF Len(base) < MaxFrontiers THEN MaxFrontiers - Len(base) ELSE 0
      n == IF Cardinality(new) < room THEN Cardinality(new) ELSE room
      First(at) == /\ \A k, m \in 1..n : k < m => at[k] < at[m]
                   /\ \A i \in new, k \in 1..n : i < at[k] => \E m \in 1..n : at[m] = i
  IN {[k \in 1..n |-> found[at[k]]] : at \in {f \in [1..n -> new] : First(f)}}
JobApplies(j) ==
  /\ job[j].pc = "applies"
  /\ \E added \in Added(board, job[j].found) :
        /\ board' = board \o added
        /\ counters' = IF added = <<>> THEN counters ELSE [counters EXCEPT !.discoveries = @ + 1]
  /\ lease' = Unheld /\ job' = [job EXCEPT ![j] = JobFree]
  /\ UNCHANGED <<world, claim, hook, calls, grants, spoken>>
JobDies(j) ==
  /\ job[j].pc # "free" /\ job' = [job EXCEPT ![j] = JobFree]
  /\ UNCHANGED <<world, counters, claim, lease, board, hook, calls, grants, spoken>>

----------------------------------------------------------------------------
\* prepare_posttool_parts: a hint told before is left out, by an unlocked look.
Prepare(h, parts) ==
  /\ hook[h].pc = "tells" /\ (parts # {} => hook[h].fails)
  /\ LET body == IF marks.hint THEN parts \ {"hint"} ELSE parts
     IN hook' = [hook EXCEPT ![h] = IF body = {} THEN HookIdle
                                    ELSE [HookIdle EXCEPT !.pc = "prepared", !.parts = body]]
  /\ UNCHANGED <<world, counters, claim, lease, board, job, calls, grants, spoken>>
\* Faulty variant: no lock around look and save.
EmitLoadsUnlocked(h) ==
  /\ hook[h].pc = "prepared" /\ UNCHANGED emitLock
  /\ hook' = [hook EXCEPT ![h].pc = "emits", ![h].seen = marks]
  /\ UNCHANGED <<world, counters, claim, lease, board, job, calls, grants, marks, said, overlap>>
\* emit_posttool_context: under its lock, load, compare, mark and save; then print.
EmitLoads(h) ==
  /\ hook[h].pc = "prepared" /\ emitLock = Unheld /\ emitLock' = h
  /\ hook' = [hook EXCEPT ![h].pc = "emits", ![h].seen = marks]
  /\ UNCHANGED <<world, counters, claim, lease, board, job, calls, grants, marks, said, overlap>>
EmitSaves(h) ==
  LET body == hook[h].parts
      seen == hook[h].seen
  IN /\ hook[h].pc = "emits" /\ emitLock' = Unheld
     /\ IF seen.epoch = turn /\ seen.body = body THEN UNCHANGED <<marks, said>>
        ELSE /\ marks' = [epoch |-> turn, body |-> body, hint |-> seen.hint \/ "hint" \in body]
             /\ said' = Append(said, [epoch |-> turn, body |-> body])
     /\ hook' = [hook EXCEPT ![h] = HookIdle]
     /\ UNCHANGED <<world, counters, claim, lease, board, job, calls, grants, overlap>>
ToolKilled(h) ==
  /\ hook[h].pc # "idle" /\ hook' = [hook EXCEPT ![h] = HookIdle]
  /\ emitLock' = (IF emitLock = h THEN Unheld ELSE emitLock)
  /\ UNCHANGED <<world, counters, claim, lease, board, job, calls, grants, marks, said, overlap>>

----------------------------------------------------------------------------
\* The agent, its host and the clock.
others == <<counters, claim, lease, hook, job, calls, grants, spoken>>
TimePasses == clock < MaxClock /\ clock' = clock + 1 /\ UNCHANGED <<turn, lines, board, others>>
TranscriptGrows == lines <= turn /\ lines' = lines + 1 /\ UNCHANGED <<clock, turn, board, others>>
NextPrompt == turn < MaxTurns /\ turn' = turn + 1 /\ UNCHANGED <<clock, lines, board, others>>
AgentDeclares(t) ==
  /\ Len(board) < MaxFrontiers /\ t \notin ToSet(board) /\ board' = Append(board, t)
  /\ UNCHANGED <<world, others>>

JudgeNext ==
  \/ \E h \in Hooks :
       \/ \E research \in BOOLEAN : LogLoads(h, research, FALSE)
       \/ LogSaves(h) \/ Plan(h, TRUE) \/ Claim(h) \/ Spawn(h)
       \/ \E readable \in BOOLEAN : ReadEpoch(h, readable)
       \/ Prepare(h, {})
  \/ \E j \in Jobs :
       \/ JobApplies(j) \/ JobDies(j)
       \/ \E found \in Offers : JobAnswers(j, found)
  \/ TimePasses \/ TranscriptGrows \/ \E t \in Titles : AgentDeclares(t)
TellNext ==
  \/ \E h \in Hooks :
       \/ LogLoads(h, FALSE, TRUE) \/ LogSaves(h) \/ Plan(h, FALSE)
       \/ \E parts \in SUBSET {"failure", "hint"} : Prepare(h, parts)
       \/ EmitLoads(h) \/ EmitSaves(h) \/ ToolKilled(h)
  \/ NextPrompt
ToolNext == JudgeNext \/ TellNext
ToolSpec == ToolInit /\ [][ToolNext]_toolVars

----------------------------------------------------------------------------
\* What must hold.

\* A batch is judged once: of two claims for one epoch closer than the window,
\* one of another epoch came between (or the epoch could not be read).
OneClaim ==
  \A i, k \in DOMAIN grants :
    i < k /\ grants[i].epoch = grants[k].epoch /\ Distance(grants[i].at, grants[k].at) < Window
      => \E j \in (i + 1)..(k - 1) :
           grants[j].epoch # grants[k].epoch \/ Distance(grants[j].at, grants[k].at) >= Window
\* However many jobs judge outdated boards at once, the board holds no approach
\* twice and no more frontiers than the cap.
FrontiersSound ==
  Len(board) <= MaxFrontiers /\ Cardinality(ToSet(board)) = Len(board)
\* The same text is not told twice running in one epoch, until a save without the
\* lock puts older marks back.
ContextNotRepeated ==
  ~overlap => \A i \in 1..(Len(said) - 1) : said[i] # said[i + 1]
\* Parallel hooks of a batch act and speak as one.
BatchOnce == OneClaim /\ ContextNotRepeated
=============================================================================
