------------------------------ MODULE StopGate ------------------------------
(***************************************************************************)
(* The Stop hook (gate_stop) as the counters of the session ledger make    *)
(* it: completion gate, loop judge, handoff judge, findings, observation   *)
(* gate.  The board enters as the set of tasks Stop validation left        *)
(* incomplete, which is any set at every Stop: the agent, the judges and   *)
(* the Stop's own pass (SpecStore) may have added, resolved or reopened    *)
(* any task.                                                               *)
(*                                                                         *)
(* A Stop loads and saves the ledger several times.  Each load and save is *)
(* one step, for only Rivals write meanwhile: detached jobs and hooks of   *)
(* subagents, which load the ledger, add what this module leaves out (the  *)
(* usage of their judge calls) and save it whole.  They do so at once, so  *)
(* one that loaded before a Stop has saved before the next one begins.     *)
(***************************************************************************)
EXTENDS Integers, FiniteSets

CONSTANTS
  Tasks,           \* the tasks of the board
  JudgeTasks,      \* ... those the judge added
  Fragments,       \* incomplete sets detect_requirement_fragmentation may report
  CapChoices,      \* [stalled, stop, handoff]: the three UNIFABLE_*_CAP/BLOCKS, 0 for none
  Threshold,       \* COMPLETION_LOOP_JUDGE_THRESHOLD
  StallSignature,  \* LOOP_STALL_SIGNATURE_BLOCKS
  RefireStep,      \* LOOP_JUDGE_REFIRE_STEP
  LiftMax,         \* LOOP_PROVISIONAL_STOPS_MAX
  MaxStopBlocks,   \* MAX_STOP_BLOCKS of the observation gate
  Rivals,          \* other writers of the ledger
  None,            \* a rival that has no ledger loaded
  MaxBlocks,       \* bound: completion blocks in a row when no cap ends them
  MaxNags          \* bound: handoff blocks in a row when no cap ends them

Caps == [stalled : Nat, stop : Nat, handoff : Nat]

ASSUME StopGateConstants ==
  /\ IsFiniteSet(Tasks) /\ JudgeTasks \subseteq Tasks
  /\ Fragments \subseteq SUBSET Tasks
  /\ CapChoices \subseteq Caps
  /\ {Threshold, StallSignature, RefireStep, LiftMax, MaxStopBlocks} \subseteq Nat \ {0}
  /\ MaxBlocks \in Nat /\ MaxNags \in Nat

VARIABLES
  caps,    \* the caps, fixed at the start
  led,     \* the stored ledger
  at,      \* where the Stop hook is: "idle", "complete", "loop", "count", "handoff", "soft"
  open,    \* the incomplete tasks this Stop sees
  again,   \* stop_hook_active: the last Stop was blocked
  mem,     \* the ledger each rival loaded, or None
  hist     \* history, see below

stopVars == <<caps, led, at, open, again, mem, hist>>

\* completion_best_incomplete None is above every count, completion_prev_incomplete
\* None is 0: a count is compared with them as with any other.
NoBest == Cardinality(Tasks) + 1

Ledger ==
  [stall    : Nat,             \* completion_stall_blocks
   blocks   : Nat,             \* completion_stop_blocks
   prev     : 0..(NoBest - 1), \* completion_prev_incomplete
   best     : 1..NoBest,       \* completion_best_incomplete
   episode  : SUBSET Tasks,    \* loop_episode_id and completion_prev_incomplete_set
   same     : BOOLEAN,         \* loop_same_set_streak >= 2
   judged   : SUBSET Tasks,    \* loop_judge_episode_id
   judgedAt : Nat,             \* loop_judge_at_stop_blocks
   recent   : BOOLEAN,         \* loop_judge_last_at is within the debounce time
   left     : 0..LiftMax,      \* loop_lift_stops_remaining of a provisional lift
   handoff  : Nat,             \* completion_handoff_blocks
   obs      : 0..MaxStopBlocks]  \* stop_blocks

Fresh ==
  [stall |-> 0, blocks |-> 0, prev |-> 0, best |-> NoBest, episode |-> {}, same |-> FALSE,
   judged |-> {}, judgedAt |-> 0, recent |-> FALSE, left |-> 0, handoff |-> 0, obs |-> 0]

(***************************************************************************)
(* History: completion blocks in a row under a cap on the raw count,       *)
(* handoff and observation blocks in a row; the Stops loop verdicts        *)
(* granted less those let through on no other ground than that (a set cap, *)
(* an exempt grade, a finished board); completion blocks since the loop    *)
(* judge was asked (up to RefireStep), and whether the count it was asked  *)
(* at is still below the counter.  An outdated save gives back whatever    *)
(* its ledger held, and the history starts again.                          *)
(***************************************************************************)
Nothing ==
  [trapped |-> 0, nagged |-> 0, nudged |-> 0, granted |-> 0,
   unasked |-> 0, comparable |-> FALSE]

StopInit ==
  /\ caps \in CapChoices
  /\ led = Fresh /\ mem = [r \in Rivals |-> None]
  /\ at = "idle" /\ open = {} /\ again = FALSE
  /\ hist = Nothing

(***************************************************************************)
(* Ledger updates.                                                         *)
(***************************************************************************)
\* Faulty variant: keeps the best count.
ResetKeepsBest(l) == [l EXCEPT !.stall = 0, !.blocks = 0, !.prev = 0]

\* reset_completion_stall
Reset(l) == [l EXCEPT !.stall = 0, !.blocks = 0, !.prev = 0, !.best = NoBest]

\* update_loop_signature
Signed(l) == [l EXCEPT !.same = (open = l.episode), !.episode = open]

\* Faulty variant: keeps the raw count on a new low and counts from the old best.
NotedLate(l, n) ==
  [l EXCEPT
     !.stall = IF n < l.prev THEN 0 ELSE @ + 1,
     !.prev = n,
     !.best = n,
     !.blocks = IF n < l.best THEN 1 ELSE @ + 1]

\* note_completion_block
Noted(l, n) ==
  [l EXCEPT
     !.stall = IF n < l.prev THEN 0 ELSE @ + 1,
     !.prev = n,
     !.best = IF n < l.best THEN n ELSE @,
     !.blocks = IF n < l.best THEN 1 ELSE @ + 1]

\* Faulty variant: a cap of 0 is a cap.
ZeroCapReached(l) == l.stall >= caps.stalled \/ l.blocks >= caps.stop

CapReached(l) ==
  \/ caps.stalled > 0 /\ l.stall >= caps.stalled
  \/ caps.stop > 0 /\ l.blocks >= caps.stop

\* stall_signature, for a ledger that Signed has brought up to date
StallSigned(l, fragmented) ==
  \/ fragmented
  \/ l.stall >= StallSignature
  \/ l.blocks + 1 >= Threshold
  \/ l.same

\* Faulty variant: an episode that was judged is not judged again.
AsksOncePerEpisode(l, fragmented) ==
  /\ l.left = 0 /\ ~l.recent
  /\ StallSigned(l, fragmented)
  /\ l.episode # l.judged

\* should_invoke_loop_judge
Asks(l, fragmented) ==
  /\ l.left = 0 /\ ~l.recent
  /\ StallSigned(l, fragmented)
  /\ \/ l.judgedAt > 0 /\ l.blocks - l.judgedAt >= RefireStep
     \/ l.episode # l.judged

\* apply_loop_release_verdict, before the verdict is looked at
Asked(l) == [l EXCEPT !.judged = l.episode, !.judgedAt = l.blocks, !.recent = TRUE]

(***************************************************************************)
(* How a Stop ends.                                                        *)
(***************************************************************************)
Block ==
  /\ at' = "idle" /\ open' = {} /\ again' = TRUE
  /\ UNCHANGED <<caps, mem>>

Passes == at' = "idle" /\ open' = {} /\ again' = FALSE /\ UNCHANGED <<caps, mem>>

Let(h) == hist' = [h EXCEPT !.trapped = 0, !.nagged = 0]

Quiet == at = "idle" /\ \A r \in Rivals : mem[r] = None

GoTo(place) == at' = place /\ UNCHANGED <<caps, again, mem>>

(***************************************************************************)
(* The evidence gate.                                                      *)
(***************************************************************************)
\* Plan mode.
StopPlan ==
  /\ Quiet
  /\ Passes /\ Let(hist)
  /\ UNCHANGED led

\* No spec, whatever the counters say.
StopMissing ==
  /\ Quiet
  /\ Block
  /\ UNCHANGED <<led, hist>>

\* LIGHT work skips the gate; a missing or incomplete spec counts as open.
StopLight ==
  /\ Quiet
  /\ open' \in {{}, Tasks}
  /\ GoTo("handoff")
  /\ UNCHANGED <<led, hist>>

\* Every task is resolved: the counters restart, and the spec and its citations
\* are checked.  A spec that has no task counts as open from here on.
StopFinds == Quiet /\ GoTo("complete") /\ UNCHANGED <<led, open, hist>>

StopComplete ==
  /\ at = "complete"
  /\ led' = Reset(led)
  /\ hist' = [hist EXCEPT !.trapped = 0, !.comparable = FALSE]
  /\ \/ GoTo("handoff") /\ open' \in {{}, Tasks}
     \/ Block

StopIncomplete ==
  /\ Quiet /\ led.blocks < MaxBlocks
  /\ open' \in (SUBSET Tasks) \ {{}}
  /\ GoTo("loop")
  /\ UNCHANGED <<led, hist>>

(***************************************************************************)
(* The loop judge (_handle_completion_loop_release).                       *)
(***************************************************************************)
\* Faulty variant: the pass is not charged to the lift.
LoopConsumeFree ==
  /\ at = "loop" /\ led.left > 0
  /\ led' = Signed(led)
  /\ Passes /\ Let([hist EXCEPT !.granted = @ - 1])

LoopConsume ==
  /\ at = "loop" /\ led.left > 0
  /\ led' = [Signed(led) EXCEPT !.left = @ - 1]
  /\ Passes /\ Let([hist EXCEPT !.granted = @ - 1])

LoopQuiet ==
  /\ at = "loop"
  /\ LET l == Signed(led) IN
     /\ l.left = 0
     /\ ~Asks(l, FALSE)      \* fragmentation is a may: it never holds the judge back
     /\ led' = l
  /\ GoTo("count")
  /\ UNCHANGED <<open, hist>>

LoopAsks ==
  /\ at = "loop"
  /\ \E fragmented \in {FALSE, (open \in Fragments)} : Asks(Signed(led), fragmented)

HistAsked(n) ==
  [hist EXCEPT !.granted = @ + n, !.unasked = 0, !.comparable = led.blocks > 0]

\* No lift: declined, an error, a lift without a scope, or nothing to retract.
LoopDeclines ==
  /\ LoopAsks
  /\ led' = Asked(Signed(led))
  /\ hist' = HistAsked(0)
  /\ GoTo("count")
  /\ UNCHANGED open

\* Faulty variant: as many Stops as the verdict names.
LoopLiftsAsNamed ==
  /\ LoopAsks
  /\ \E n \in 1..(LiftMax + 1) :
       /\ led' = [Asked(Signed(led)) EXCEPT !.left = n]
       /\ hist' = HistAsked(n)
  /\ GoTo("count")
  /\ UNCHANGED open

\* A provisional lift, for the Stops after this one.
LoopLifts ==
  /\ LoopAsks
  /\ \E n \in 1..LiftMax :
       /\ led' = [Asked(Signed(led)) EXCEPT !.left = n]
       /\ hist' = HistAsked(n)
  /\ GoTo("count")
  /\ UNCHANGED open

\* A permanent one retracts tasks the judge added.  They need not be among the
\* incomplete ones, and a heavy board does not take each of them for resolved.
LoopRetracts ==
  /\ LoopAsks /\ JudgeTasks # {}
  /\ led' = Reset(Asked(Signed(led)))
  /\ hist' = [HistAsked(0) EXCEPT !.trapped = 0, !.comparable = FALSE]
  /\ \E S \in SUBSET (open \cap JudgeTasks) : open' = open \ S
  /\ IF open' = {} THEN GoTo("handoff") ELSE GoTo("count")

(***************************************************************************)
(* The block is counted; a positive cap may let the Stop through.          *)
(***************************************************************************)
Counted(l) ==
  [hist EXCEPT
     !.unasked = IF @ < RefireStep THEN @ + 1 ELSE @,
     !.comparable = @ /\ l.blocks > led.blocks]

CountBlock ==
  /\ at = "count"
  /\ led' = Noted(led, Cardinality(open))
  /\ ~CapReached(led')
  /\ Block
  /\ hist' = [Counted(led') EXCEPT !.trapped = IF caps.stop > 0 THEN @ + 1 ELSE @]

CountRelease ==
  /\ at = "count"
  /\ led' = Noted(led, Cardinality(open))
  /\ CapReached(led')
  /\ Passes
  /\ Let([Counted(led') EXCEPT
            !.granted = IF caps.stalled = 0 /\ caps.stop = 0 THEN @ - 1 ELSE @])

(***************************************************************************)
(* The handoff judge (completion_handoff_decision).                        *)
(***************************************************************************)
HandoffFull == caps.handoff > 0 /\ led.handoff >= caps.handoff

\* The last turn had tools or no text, or the judge failed.
HandoffSkips ==
  /\ at = "handoff"
  /\ GoTo("soft")
  /\ UNCHANGED <<led, open, hist>>

\* The notice that the cap is reached ends the Stop: no later gate is asked.
HandoffCapped ==
  /\ at = "handoff" /\ HandoffFull
  /\ Passes /\ Let(hist)
  /\ UNCHANGED led

\* The spec is complete, or the judge agrees.
HandoffClears ==
  /\ at = "handoff" /\ ~HandoffFull
  /\ led' = [led EXCEPT !.handoff = 0]
  /\ hist' = [hist EXCEPT !.nagged = 0]
  /\ GoTo("soft")
  /\ UNCHANGED open

HandoffBlocks ==
  /\ at = "handoff" /\ ~HandoffFull
  /\ open # {} /\ (caps.handoff = 0 => led.handoff < MaxNags)
  /\ led' = [led EXCEPT !.handoff = @ + 1]
  /\ hist' = [hist EXCEPT !.nagged = @ + 1]
  /\ Block

(***************************************************************************)
(* Findings and the observation gate.                                      *)
(***************************************************************************)
SoftFindings ==
  /\ at = "soft" /\ ~again
  /\ Block
  /\ UNCHANGED <<led, hist>>

\* Faulty variant: tests for the cap after one block too many.
ObserveLate ==
  /\ at = "soft" /\ ~again
  /\ led.obs <= MaxStopBlocks
  /\ led' = [led EXCEPT !.obs = IF @ < MaxStopBlocks THEN @ + 1 ELSE @]
  /\ hist' = [hist EXCEPT !.nudged = @ + 1]
  /\ Block

\* HEAVY work changed something and nothing has verified it.
SoftObserves ==
  /\ at = "soft" /\ ~again
  /\ led.obs < MaxStopBlocks
  /\ led' = [led EXCEPT !.obs = @ + 1]
  /\ hist' = [hist EXCEPT !.nudged = @ + 1]
  /\ Block

SoftPasses ==
  /\ at = "soft"
  /\ Passes /\ Let(hist)
  /\ UNCHANGED led

(***************************************************************************)
(* Around the Stop hook.                                                   *)
(***************************************************************************)
\* The host kills it at its timeout, and the session stops.
HookDies ==
  /\ at # "idle"
  /\ Passes /\ Let(hist)
  /\ UNCHANGED led

\* A user prompt restarts the observation gate, and no other counter.
NewPrompt ==
  /\ at = "idle"
  /\ led' = [led EXCEPT !.obs = 0]
  /\ again' = FALSE
  /\ hist' = [hist EXCEPT !.nudged = 0]
  /\ UNCHANGED <<caps, at, open, mem>>

\* The debounce time passes: between two Stops, for a Stop reads the time stamp
\* once, before it writes it.
MinutePasses ==
  /\ Quiet
  /\ led' = [led EXCEPT !.recent = FALSE]
  /\ UNCHANGED <<caps, at, open, again, mem, hist>>

\* The machine restarts and with it the monotonic clock: the judge's time stamp
\* is in the future, for as long as the machine had been up.
Reboot ==
  /\ Quiet /\ led.judged # {}
  /\ led' = [led EXCEPT !.recent = TRUE]
  /\ UNCHANGED <<caps, at, open, again, mem, hist>>

\* Between two Stops nothing but a prompt changes what they keep in the ledger, so a
\* rival that loads it then loads what the next Stop finds.
RivalLoads(r) ==
  /\ at # "idle" /\ mem[r] = None
  /\ mem' = [mem EXCEPT ![r] = led]
  /\ UNCHANGED <<caps, led, at, open, again, hist>>

RivalSaves(r) ==
  /\ mem[r] # None
  /\ led' = mem[r] /\ mem' = [mem EXCEPT ![r] = None]
  /\ hist' = IF led' = led THEN hist ELSE [Nothing EXCEPT !.granted = led'.left]
  /\ UNCHANGED <<caps, at, open, again>>

StopNext ==
  \/ StopPlan \/ StopMissing \/ StopLight \/ StopFinds \/ StopComplete \/ StopIncomplete
  \/ LoopConsume \/ LoopQuiet \/ LoopDeclines \/ LoopLifts \/ LoopRetracts
  \/ CountBlock \/ CountRelease
  \/ HandoffSkips \/ HandoffCapped \/ HandoffClears \/ HandoffBlocks
  \/ SoftFindings \/ SoftObserves \/ SoftPasses
  \/ HookDies \/ NewPrompt \/ MinutePasses \/ Reboot
  \/ \E r \in Rivals : RivalLoads(r) \/ RivalSaves(r)

StopSpec == StopInit /\ [][StopNext]_stopVars

(***************************************************************************)
(* Properties.                                                             *)
(***************************************************************************)
\* Every variable stays in its domain.
LedgerTypes ==
  /\ caps \in CapChoices
  /\ led \in Ledger /\ mem \in [Rivals -> Ledger \cup {None}]
  /\ at \in {"idle", "complete", "loop", "count", "handoff", "soft"}
  /\ open \in SUBSET Tasks /\ again \in BOOLEAN

\* The counters of a ledger belong together, in the stored one and in every
\* loaded one: the streak is part of the raw count, and a count below the best
\* was never seen.
Coherent(l) ==
  /\ l.stall <= l.blocks
  /\ l.prev = 0 <=> l.best = NoBest
  /\ l.prev # 0 => l.best <= l.prev
  /\ l.blocks = 0 <=> l.best = NoBest
  /\ l.left > 0 => l.judged # {}

LedgerCoherent == Coherent(led) /\ \A r \in Rivals : mem[r] = None \/ Coherent(mem[r])

\* With a cap on the raw count, the completion gate blocks a bounded number of
\* Stops in a row between two retractions of the loop judge: every new low of the
\* incomplete count restarts the counter.
TrapBounded ==
  caps.stop > 0 =>
    hist.trapped <= Cardinality(Tasks) * (caps.stop - 1)

\* A provisional lift lets through the Stops it was given for, and without caps
\* nothing else lets an incomplete board through.
LiftsGranted == hist.granted >= 0

\* The handoff judge and the observation gate nag no more often than their caps say.
SoftGatesBounded ==
  /\ caps.handoff > 0 => hist.nagged <= caps.handoff
  /\ hist.nudged <= MaxStopBlocks

\* "Re-fire the loop judge every N additional raw stop-blocks past the first
\* judgment, even if the episode was already judged",
\* when a board has that episode and shows the signs of a loop, with no lift or debounce time.
RefireDue ==
  /\ led.judged = open /\ hist.unasked >= RefireStep
  /\ led.left = 0 /\ ~led.recent /\ StallSigned(Signed(led), FALSE)

\* It is asked again then, as long as the raw count has not restarted, or was 0,
\* since it was asked last.
RefiresUnlessRestarted ==
  [][at = "loop" /\ at' = "count" /\ RefireDue /\ hist.comparable => hist'.unasked = 0]_stopVars
=============================================================================
