# A TLA+ model of unifable's gates

unifable is a plugin for coding agents. It runs as short-lived *hook processes*, one per host
event (a prompt, a tool call before and after it runs, the end of a turn), plus a few *detached
jobs* the hooks leave behind, plus the `unifable` command line the agent calls. None of them keeps
memory: all they share is one SQLite database (a breaker row and a spec document per session, a
session ledger, one row per background lane) and some files (locks, sidecars, markers, the judge's
login, the runtime itself). Hosts run tool calls in parallel batches and kill hooks that take too
long, and most decisions wait seconds for a language model, "the judge", between the read and the
write. So the questions worth a model are: what do stale reads, lost writes, exhausted waits and dead
processes do to the gates, can a gate close for good, can it open for no reason, and is the agent told
once what it has to know.

All paths below are relative to the repository; `gate/` stands for `scripts/gate/`.

## 1. Inventory

| Component | State it keeps | Operations | What is hard about it |
|---|---|---|---|
| Groundedness breaker (`gate/breaker_state`, `breaker_runtime`, `breaker_orchestration`) | the breaker row: armed, provisional, claim, key of the prompt, block count, adjudicated claims, time stamps, running verification, director scope, gate lift | evaluate before a tool, release after a tool and at Stop, poll a verification, fail open | hooks of a batch race for `breaker_lock`, held across a judge call; a 12 s wait, then they go on *unlocked* |
| Release lane (`gate/breaker_release_lane`) and reconcile lane (`gate/posttool_background`) | lease time stamp and pending text per lane | lease, spawn, job, push, drain | leases expire, are granted although their write failed, and are given back by jobs that outlived them; jobs die |
| Gate lift (`gate/gate_lift`, `hooks/pre_tool_use`) | three fields of the breaker row | record, consume, judge budget | load, judge and save without the lock |
| Pre-tool gate (`hooks/pre_tool_use`, `gate/tool_scope`, `protected_paths`, `pretool_block`, ...) | counts of refusals in the ledger | breaker, research waiver, scope, protected paths, spec, phases, whitelist, lift; telling a refusal | eight gates that may each answer; parallel refusals that share one explanation |
| Post-tool hook (`hooks/gate_post_tool`, `gate/posttool_*`) | ledger, dedup marks, judging claim | log evidence, cite it, claim the turn, dispatch the lanes, tell what changed | every hook of a batch does all of it |
| Prompt hooks (`hooks/gate_prompt`, `gate_prompt_effort`, `gate/pack_router`, ...) | marks in the ledger | classify, route packs, onboarding, scaffold, playbook | marks are stored before the one emission |
| Spec board (`gate/spec_tasks`, `heavy_workflow`, `spec_hygiene`) | the spec document: tasks with a kind and a status, heavy flag, stall counter | add, supersede, retract, revise, adopt, advance the primary, stall arbiter | statuses decide who may still act on a task |
| Spec judge and Stop validation (`gate/spec_judge`, `spec_stop_validate`, `loop_release`) | none of its own | verdicts, adjustments, reconcile delta, loop release | a batch of verdicts applied in turn to a board that changes under it |
| Spec store (`gate/spec_io`), command line (`gate/spec_cli`) | the stored document, `spec_lock` | load, save, `update_spec`, scaffold | some writers lock, most do not, and the Stop hook holds its copy for minutes |
| Citations and evidence (`gate/citations`, `groundedness`, `spec_validation`, `parse_tool_result`) | activity in the ledger, cites in the document | log reads and fetches, cite, sanitize, validate | what is logged is not what was done, and what is judged is another copy |
| Stop gate (`hooks/gate_stop`, `gate/verify_state`, `completion_handoff`) | counters in the ledger | board pass, handoff, findings, observation gate, breaker release | must neither trap nor let go early |
| Verify lane (`gate/verify_lane`) | a sidecar file per claim and repository state | dispatch, run, poll | seeded before it is spawned, reused whatever is in it |
| Database, ledger, findings (`gate/db`, `ledger`, `findings`) | one row per session, activity and findings by table | load, change, save; append; import of older files | no lock; a failed read looks like no row, a failed write is dropped |
| Judge transport (`gate/codex_judge`, `unifable_runtime/transport`) | the login file | read, refresh, connect, ask, ask again | one login and one temp file for every process of the machine |
| Transcript readers (`gate/transcript_tail`) | none | strip, compact, retain a window, fingerprint of the prompt | the file grows while it is read |
| Shell classification (`gate/bash_classify`) | none | cut a command, scan its pieces | several scanners of the same quotes |
| Janitor (`gate/janitor`), runtime sync (`gate/runtime_sync`) | markers, sentinel; versions and link | sweep; copy, validate, flip, collect | they delete what sessions use, one entry after the other |
| Notifications, hook router, skills, install, benchmarks | see `PROJECT.json` | | formatting, launching or separate programs |

Interactions. The PreToolUse hook asks the breaker, then the tool scope the director left in the
breaker row, then the phase gates that read the spec, and may end in the gate lift, which writes the
breaker row again. It also drains both lanes. The PostToolUse hook writes the ledger, cites the evidence
in the spec under `spec_lock`, and starts the lanes' jobs: the release job takes `breaker_lock` and
writes the breaker row, the reconcile job takes `spec_lock` and writes the spec. The Stop hook
judges every open task of its own copy of the spec, saves it, and on its way out runs the two locked
breaker steps. The breaker hands some claims to the verify lane and polls its sidecar. SessionStart starts
the janitor, which reaps the rows and lock files of all of these, and the runtime sync.

What makes the components correct:

- *Breaker*: an arm is not lost; a claim that was resolved does not come back; the fail-open budget
  counts what it says it counts; a batch asks the judge once; nobody waits for ever; a row of an
  earlier prompt does not gate this one.
- *Lanes*: one job at a time but for those an expired or unwritten lease lets in, no text lost or shown twice, a dead job does not close the lane.
- *Pre-tool gate*: what changes something passes on standing evidence only, an earned action passes, a call gets one
  answer, and a refusal is explained.
- *Hooks that tell*: once per session, per prompt or per batch, and never marked as told but untold.
- *Board*: one adoption, a primary that waits for the frontiers, withdrawn work that stays
  withdrawn, no livelock between viable frontiers and a blocked primary, and always somebody who can
  do something about an incomplete board.
- *Store, ledger, findings*: what was stored does not disappear.
- *Evidence*: a source counts once, and what the ledger knows opens the gate.
- *Stop gate*: counters that agree with each other, bounded blocks with positive caps, without caps
  no release but a granted one, a loop judge that is asked again.
- *Verify lane*: it disarms on passed runs only and does not hold the budget back for ever.
- *Janitor and sync*: nothing alive is reaped, everything dead is; the link leads to a whole runtime but for a forced sync of the version in use.
- *Judge call, transcript*: bounded in time, the login survives; a window within its limits and with a stable start.

## 2. Modules

| Module | Models | Used by |
|---|---|---|
| `Breaker` | the row, `breaker_lock`, PreToolUse hooks, release workers, the Stop hook's breaker steps, the gate lift | `MCBreaker`, `BreakerProofs` |
| `ClaimGate` | what the breaker promises: the abstract gate `Breaker` implements | `Breaker` (`INSTANCE ... WITH`) |
| `PreToolGate` | the whole answer of the PreToolUse hook to one call | `MCHooks`, `HooksProofs` |
| `PretoolBlock` | how parallel refusals are counted and told | `MCHooks`, `HooksProofs` |
| `PromptHook` | what SessionStart, UserPromptSubmit and a refusal tell, and the marks for it | `MCHooks`, `HooksProofs` |
| `PostTool` | the post-tool hooks of a batch, the judging claim, the reconcile and discover jobs | `MCHooks`, `HooksProofs` |
| `BgLane` | one background lane: lease, spawn, job, push, drain | `MCDetached`, `DetachedProofs` |
| `Janitor` | markers, sessions, the sweep | `MCDetached`, `DetachedProofs` |
| `RuntimeSync` | plugin cache, copied versions, the link | `MCDetached`, `DetachedProofs` |
| `VerifyLane` | sidecar, runner, poll, window | `MCDetached`, `DetachedProofs` |
| `Records` | ledger row, activity, findings under failing reads and writes | `MCShared`, `SharedProofs` |
| `LockFile` | flock on a name that a sweep removes | `MCShared`, `SharedProofs` |
| `JudgeCall` | a direct judge call and the shared login | `MCShared`, `SharedProofs` |
| `Retention`, `Transcript` | the retained window, on a transcript that grows | `MCShared`, `SharedProofs` |
| `Evidence` | what is taken for reads and fetches, cites, the verdict of the evidence gate | `MCShared`, `SharedProofs` |
| `ShellLine` | the scanners that take a command apart | `MCShared`, `ShellProofs` |
| `Board` | the spec document and everything that changes it, as operators | `SpecStore` |
| `SpecStore` | the processes that load and save the document | `MCSpecStore`, `MCStop`, `SpecStoreProofs` |
| `StopGate` | the Stop hook's gates and their counters in the session ledger | `MCStop`, `StopGateProofs` |
| `*Proofs` | theorems, see section 5 | |
| `TextLemmas` | lemmas about induction, sequences and reading from left to right | `SharedProofs`, `ShellProofs` |
| `MC*` | instances for TLC | the `.cfg` files |

`MCStop`, `MCHooks`, `MCDetached` and `MCShared` each hold several modules that share no state in the models. Their
variable `part` picks one, which moves while the others rest, so a run of them is the runs of its parts side by side.

### Breaker

`row` is the stored row. A process has a location `pc[p]`, the row it loaded `mem[p]` and, if it is a
hook, the call it handles (`call[h]`: time stamp, kind of tool, signature). The time stamp is taken
*before* the lock is asked for (`HookStart`), as in `_enforce_breaker`; `Acquire` takes the flock and
loads, `Expire` loads without it after the wait, `HookSave`, `WorkerSave` and `StopSave` write what the
evaluation made of the loaded row. Between load and save anything may happen to the stored row. The
evaluation itself reads nothing but the loaded row and the call, so `PreTool(s, k, t, now)` is the
set of its outcomes (new row, reply, whether the arm judge was asked), one alternative per verdict the judge
may give: `WhileProvisional`, `WhileDisarmed` and `WhileArmed` are the three branches of
`evaluate_pre_tool`, `Poll` is `_poll_auto_verify`, `Release` is `_apply_release`. `ScopeBlock` and
`ScopePass` read the row once more, after the lock, as `_enforce_tool_scope` does. `LiftLoad`,
`LiftSave` and `LiftExhausted` are `_evidence_lift_allows`, which takes no lock. `Crash` is the host
killing a process; the kernel gives the flock back.

A claim is a model value; `Matches` says which claims the text filters take for the same one. A
prompt is a number, its position in the session, because the breaker key is built from the task
lineage. Left out: messages, steering text, the event log, the judge's prompts, the commands of the
self-resolving filters (their outcome is one of the judge's), failures of the database, the fail-open of `spec_lock` after its 12 s.

`blocks`, `charged`, `resolved` and `judged` are history variables: no action reads them.

### ClaimGate

Three states (open, armed, lifted), the flagged claim, its prompt and the resolved claims. It says
what the row, windows, counts and processes must add up to: a flag ends only by being resolved,
lifted or left behind by a later prompt, and a resolved claim is not flagged again in any words.
`ImplementsGate` is `Gate!GateSpec` under the mapping at the end of `Breaker`.

### PreToolGate and PretoolBlock

`PreToolGate` is `main()` of the hook as one decision: what the breaker decides, what scope the director left and
how a command line was classified are inputs, and the gates answer in the code's order, the first refusal
ending the hook. `last` is the latest call with its answer, which counts what was *sent*: a JSON denial, a denial by exit
code, an explicit approval. `gateHost` matters because the breaker denies in JSON on one host and by exit code on the other, and
the research waiver of the breaker's refusal changes the exit code only. `PromptGraded`, `OperatorPins` and the policy operators give grade and profile from
the classification, the pin and the environment; the board is a record of what the gates ask of it. The lift judge's row has the grant,
its uses and the number of judge calls. Left out is the fail-open of the hook: an exception anywhere in `main()` lets the call through
(`pre_tool_use.py:1013-1021`), so what `MutationEarned` says is of hooks that answer. `Trials` follows the commands of one call through whitelist and lifts. Only the first target of a write is looked at in the HEAVY phases, as in the code.

`PretoolBlock` takes it from there: the first locked section counts the refusal by its signature, the second
marks the unlock lines and the last block, and between them the hook prints. Two writers take no lock: the next prompt's reset and
the notice of a gate that cleared. `clash` becomes true when one of them and a locked section overlap; the properties hold up to there.

### PromptHook

Each step of `gate_prompt.main()` that marks something in the ledger (or, for the playbook, makes a marker file) is a step of
the model; `now.out` collects the texts and `Emit` prints them all. `PromptKilled` is the host's timeout at any of them: marks
stay, texts are gone. SessionStart's frame and the refusal for want of evidence are in the module because scaffold and
refusal leave out what is marked as told. `shown`, `cut` and `refused` are history.

### PostTool

A hook of a batch logs (`LogSaves`, without the posttool lock), counts research, reads the time and then the epoch, claims the turn
(`Claim`, one transaction), asks for the lane's lease and tells what is new under its lock. A job has a snapshot, a judge's
answer and the locked apply to the board of then. `JudgeNext` and `TellNext` are the two halves of the hook, which share
only its identity; `ToolNext` is both. A judge's answer is a sequence of titles that may repeat one; `Added` is the one sequence of those
that are new to the board of now, in the answer's order and up to the cap, said by the places where they stand.

### BgLane

The database operations are `BEGIN IMMEDIATE` transactions, so each is one step. Time enters as ages
(of the lease, of the lease each hook or job runs on) that saturate at `TTL`. `lane` is fixed at the
start and selects the two places where the lanes' code differs: what a failed `mkstemp` does with the
lease, and the reconcile job's early return. A job's text is the job's slot; a slot is used again
only when its last text has left the queue.

Nothing bounds a holder by its lease: `Tick` always passes. A lease of 90 s is short for a job that may wait 12 s for a lock and then
asks the judge once or twice, and for a hook, which its host lets live for 120 s. So `TakeLease` grants an expired lease over the
head of a holder at work, `LeaseFailsOpen` is the grant of a lease whose write failed, and `Push` clears the lease of the row
whoever took it. `owner` (who works on the lease of the row) and `extra` (who got in beside somebody at work) are history.

### Janitor, RuntimeSync, VerifyLane, LockFile

`Janitor`: a sweep goes through the registry, one probe of all hosts, the tables in order, the markers and the sentinel, one step each, with
sessions starting, working and stopping in between. Keys are of a session or of a project, rows are one per key or a log,
ages are "fresh" or a day old. A failing read, probe or table is a *doubt*. The budget runs down over the tables.

`RuntimeSync`: a tree is the set of its entries; the host may take a version from the cache between the copies of
two entries. Validation looks at the sentinel only, as the code does. A removal (`rmtree`, of the version that is replaced and of old
ones) is a step per entry, in any order, each of which may fail and be passed over; a kill may come in between, and then the sentinel may be
there without the rest. The rename of the copy fails over a directory that is not empty. The flip is two steps, a new link and the rename of it.
The temporary copy is cleared in one step, since no link leads to it. `lost` and `torn` are history.

`VerifyLane`: the sidecar is named by the claim and by what git says, which is not the content of the tree
(`GitState`): editing a dirty file again changes nothing. Commands are started, passed or failed by runners that read the
sidecar once and rewrite it whole. `ran` and `disarmed` are history.

`LockFile`: inodes and a name. `Open` and `Take` are separate, and so are the sweep's probe, try, give back and unlink.

### Records, JudgeCall

`Records` has the unlocked load, change and save of the ledger with its activity log, and `findings` with numbers from a
counter. A read may fail (`MayFail`), which looks like no row and leads to the import of an older release's file; a write may fail, which the
hook does not notice (`HookDrops`) and `add_finding` and `set_status` report (`UserDrops`). `MovedAside` is
`connect()` of any process meeting a `DatabaseError`. `stale` marks a copy that something was stored past.

`JudgeCall` is one call without the daemon: login, refresh through the temp file, handshake, events, and what is asked
again. Tokens are numbers, so `live` is the newest one minted. `t` counts each call's own time. The deadline is looked at between
reads, and the code times out single socket operations, of which a frame or a handshake may take any number (`realtime_ws.py:179-250`, `274-287`). That
a read, a handshake or a refresh is over after `Shaking` or `Refreshing` is therefore an assumption on the network, and `CallBounded` is relative to it.

### Retention, Transcript, Evidence, ShellLine

`Retention` is arithmetic on lengths: `StickyStart`, `Capped`, `Fitted`. `Transcript` puts it on lines that are appended, in one write or two;
characters are named by line, form and place, so that "the same text" means what it says.

`Evidence` follows a read or fetch from the post-tool hook's log to the cite it makes, and the pre-tool hook's hygiene (its load, its
save without the lock, its judgement of the document loaded again). Files appear and go away, and a session may go on in another work
tree, under another key, with an empty ledger. What is logged is not what was done: a call is logged unless it is known to have failed, so `ReadCall` and
`FetchCall` choose separately whether it looks failed and whether the file was really read or the URL really fetched. `did` (the latter) and `opened` are history.

`ShellLine` has each scanner as a step (`TakeLine`, `JoinLine`, `Step`, `Look`) and a recursive function that takes it from one character or
line to the next; its one action types any command.

### Board and SpecStore

`Board` has one operator per function: `Sync`, `AdvancePrimary`, `Finalized`, `ResolveStall`,
`Supersede`, `Revise`, `Record`, and the tests `Pending`, `Incomplete`, `Phase`. A task's id is its
position, since ids are minted as `T{len+1}` and no code removes a task. The cached `heavy_phase` is
left out because every decision recomputes it, and the exit codes that rank accepted frontiers are,
too: any accepted frontier may win.

`SpecStore` has the stored document `doc` and the Stop hook's copy `stop.work`. A Stop pass goes
through `StopBegin` (hygiene and heal), the judge's adjustments (`StopRetract`, `StopRevise`),
`StopCollect` (the open tasks, cut down by the time budget), one `StopJudges`, `StopJudgesAdding` or
`StopDefers` per task in the code's order, `StopSave` (adoption, stall arbiter, save) and, while
something is incomplete, `StopLoop` (the loop judge, which saves once more). `Update` is the
reconcile job's `update_spec`. It judged an older document, but `update_spec` repeats every test on
the one it loads, so a stale delta does what some delta for the present document would, and the job
needs no copy. The command line, the prompt hook and the hygiene of the tool hooks load and save at
once inside the agent's turn and are one step each. When the grade changes, the Stop hook's
`clear_stale_heavy_workflow` finds nothing the prompt hook's has not cleared.
`judge_frontier_comparison` and `apply_grade_override_to_spec` have no caller in production and are
not modelled.

`parked` is a history variable: the Stop passes in a row that ended with stalled frontiers.

### StopGate

`SpecStore` says what a Stop does to the board; `StopGate` says what it does with the outcome. The
board enters as the set `open` of incomplete tasks, any set at every Stop. `led` holds the fields of
`DEFAULT_LEDGER` the gates read and write, under shorter names: `stall`, `blocks`, `prev` and `best`
are the `completion_*` counters, `episode`, `same`, `judged`, `judgedAt`, `recent` and `left` the
`loop_*` fields, `handoff` and `obs` the counters of the two nudging gates. Three fields are coarser
than the code's: `same` is a streak of two or more, `recent` is "within the debounce time of the
monotonic time stamp", and a count that is `None` has a number (`NoBest` above every count for the
low-water mark, 0 for the last one) that compares as the code's `isinstance` test does.
The ids the judge retracted and the event list decide nothing and are left out.

A Stop goes through `at`: evidence gate, `loop` (`_handle_completion_loop_release`), `count`
(`note_completion_block`), `complete`, `handoff`, `soft`. Each step is one load and save of the ledger,
so a kill (`HookDies`) falls between two of them. What the code merely looks at on the way (plan
mode, grade, a missing spec, findings, an unverified change, the verdicts) is a choice. A rival is a
detached job or a subagent's hook: it loads the ledger, changes a part that is not modelled, and
saves it whole (`RivalLoads`, `RivalSaves`), which puts back every counter as it was. A rival that
loaded during a Stop has saved before the next Stop begins. The debounce time passes between Stops
only, because a Stop reads the time stamp once and before it writes it.

`caps` is fixed at the start: the three environment variables. `hist` is a history variable; an outdated
save restarts it, so a bound on blocks *in a row* counts from there.

## 3. Runs

| Run | Instance | Shows |
|---|---|---|
| `BreakerSerial` | two hooks, a release worker, a Stop hook, two claims that match each other, two prompts | with nobody's lock wait exhausted: every save is on top of the row that was loaded, no arm is lost, the budget is kept and counts refusals, one judge call per batch, and the breaker implements `ClaimGate`: so a resolved claim stays released |
| `BreakerRaces` | a hook and a worker, two prompts, exhausted waits, unlocked gate lifts, research calls, judge calls that raise | with saves that overwrite each other the stored row is still one the code understands, no scope of an earlier prompt gates a call even when the judge raises before replacing it, and no waiter is wedged by a dead or hung holder |
| `BreakerTrap` | one hook | *violated*: refusals in a row are not bounded (finding 1) |
| `StopBoard` | board: up to three tasks, `StallCap` 2, one revision per task, one open task of the judge's; Stop gate: two tasks, one rival, no caps and a cap of each kind | adoption, primary, withdrawn tasks, stall arbiter, somebody can act; coherent counters, bounded blocks, no release but a granted one, the loop judge asked again when its count says so |
| `SpecDeadEnd` | the same board | *violated*: somebody can act (finding 2) |
| `SpecLostUpdate` | the same board, with a reconcile job during a Stop pass | *violated*: tasks are kept (finding 3) |
| `Detached` | lane: two hooks, jobs and readers, leases that fail to be written; janitor: two sessions of one project, a log and a board; sync: one syncer, two versions; verify: two commands and runners, three trees of two git states | `NoStorm`, `Delivered`, `LaneComesBack`; `LiveKept`, `DeadReaped`; `CurrentRuns`, `Upgraded`; `DisarmEarned`, `HoldEnds` |
| `Hooks` | gate: 20 calls, nine boards and none, three scopes, both hosts; block: two parallel refusals; prompt: four prompts, two packs; judge and tell: two post-tool hooks, two jobs | `MutationEarned`, `OpensWhenEarned`; `RefusalsTold`; `InstructedOnce`; `BatchOnce`, `FrontiersSound` |
| `Shared` | three hooks on a ledger row, three users of the findings, two judge calls, three processes on a lock file with a sweep, transcripts of four lines, two files and two URLs, commands of four characters | `RecordsKept`; `LoginKept`, `CallBounded`; `LockHolds`; `ReadsSteady`; `EvidenceFair`; `CommandsCut` |
| `EvidenceShut` | as `Shared`, files are not removed | *violated*: an open gate stays open (finding 4) |
| `SyncTorn` | one syncer, two versions | *violated*: an error leaves a runtime (finding 5) |
| `EvidenceUnearned` | as `EvidenceShut` | *violated*: a cite was earned (finding 6) |

Some properties are conjunctions of named parts that one module promises together: `BudgetHonest`, `Delivered`, `LiveKept`, `CurrentRuns`,
`RefusalsTold`, `InstructedOnce`, `BatchOnce`, `MutationEarned`, `OpensWhenEarned`, `RecordsKept`, `LockHolds`, `ReadsSteady`, `EvidenceFair`,
`CommandsCut`. Each part is stated and explained in its module, and for each there is a mutant of the code that breaks it.

**Bounds of the breaker.** `MaxBlocks` is 2 (1 in `BreakerRaces`, which asks nothing of the cap): the count then has a value below the cap that is not zero, which is
where an off-by-one shows. `MaxClock` is 4 (2 in `BreakerRaces`, 8 in `BreakerTrap`) with windows of 2 and 3: a call can fall within each window,
at its edge and beyond it. Two prompts give a stale arm and a stale scope. Two claims and
a guard list of two give a paraphrase next to the claim itself; the list's overflow is not
reached, and a resolved claim stays released only up to `MAX_EVENTS` resolved claims, in the code
as in the model. Two hooks and a worker are the smallest group in which two processes wait while a
third holds the lock.

**Of the board.** Three tasks are what a heavy board needs (two frontiers and a primary), and a board of requirements
with one that supersedes another; a third frontier or a requirement *beside* a complete heavy board needs a fourth and is not
reached. `StallCap` 2 is the default. The revision and judge-task caps are 1 instead of 3 and 5.
`StopBoard` identifies the board's states by `View`: while a pass works on its copy the stored document is not
compared, because it matters only if the pass dies, and that leads to a state the same steps, or
`Hygiene`, reach without the pass. Boards with the same tasks in another order are one state, since nothing asks which of two tasks came first.

**Of the Stop gate.** Two tasks, each of which may be open, complete or new at a Stop, stand for boards of any
size: the gates see a board only through its size and through whether it is the set they saw last. With two tasks
there is a new low, a rise, a tie, and a set of the same size with other members. The fragmentation detector wants four tasks in the code and `Fragments`
says which sets it reports. The thresholds (block 4, stall signature 3, refire step 4) become 2, 2 and 1, so each is crossed with
blocks to spare: `MaxBlocks` is 3. The three caps are zero together or positive together; their tests do not read each other. Without a cap nudges are not
counted (`MaxNags` 0): their bound is proved instead. `StopBoard` uses symmetry of these tasks: no constant, and no property,
tells one from the other; and it compares states without the counts of nags and nudges in `hist` (`MCView`), which no guard and no property of the run reads.

**Of the rest.**
- *Lane*: a lease of two steps is young, about to end, or has run out, under any holder. `Refuses` lets its write fail; one holder beside the one on the
  lease (`MaxExtra`) is let in at a time, by expiry or failure, and after the lane was idle the next. Two slots of jobs are two texts on their way at once.
- *Janitor*: two sessions of one project share a board; a log has fresh and old rows of one key; one doubt (`MaxDoubts`) is a marker,
  a probe or a table that fails, and a budget of two is used up before the last table. (With a budget
  below the number of sessions `DeadReaped` fails: nothing orders the keys of a table, and one of them can be left over each time.)
- *Sync*: two versions of two entries, of which versions one is kept, one kill, failed flip or failed removal (`MaxKills`) and one syncer. Two syncs at once share fixed temporary names and are not modelled.
- *Verify lane*: three trees of which two look the same to git, two arms, so a second arm meets the first one's sidecar.
- *Gate*: calls of every kind the hook distinguishes, one of each phase of a board, the grade from the environment on one host only; two lift uses and two judge calls, so both budgets run out.
- *Refusals*: two hooks, the second of which refuses for one reason only; a behaviour ends at a clash. Texts that repeat once.
- *Prompts*: three prompts of four, one kill, a cap of one pack with two that fit.
- *Post-tool hook*: two prompts, a clock of two with a window of two, one discovery per session and two frontiers: each claim is inside or at the
  edge of the window, each cap is reached. A behaviour of the telling half ends at an unlocked save that overlaps. The answers: nothing, either title, both in either order, one twice.
- *Records*: one failing read or write and one file moved aside; with none of either nothing is lost, so one is the least and its effects are what the properties name.
- *Judge call*: a timeout of 4 with a floor of 2 and one step for refresh and handshake gives a second attempt that begins just in time.
- *Lock file*: four inodes; three processes, so a third could come in beside two.
- *Transcript*: four lines of three characters against a budget of 8 in chunks of 3: two chunk drops. `MaxSize` 12 cuts a wrapped message.
- *Evidence*: one file with a marker in its path and one without, two spellings of one URL, one pre-tool hook, one removal, one change of work tree.
- *Shell*: four characters are enough for a quotation with an operator in it and something beside it, an escape of each of them, and a joined line. `Shared.cfg` names the characters (`Characters`) and the bound (`MaxLength`); the theorem does without the bound.

`Shared` compares states without the history `did` (`SharedView`): no action's guard and no property of the run looks at it. `Hooks` and `Shared` use symmetry of the post-tool hooks and jobs, and of the judge's callers.

`CHECK_DEADLOCK` is off where something is bounded that ends the session: clock, prompts, kills, calls.

**What the runs assume.** `BreakerSerial` sets `Expirers` to the empty set and
`GateLifts` to false: no wait is exhausted and the phase gates ask for no lift. These are the
conditions under which the code's comments claim serialization. Without them `Serialized` and
`NoSilentDisarm` fail, as the code lets a waiter go on unlocked by design: a hook that armed while a
worker was in its judge call is overwritten by it. `BreakerRaces` is the run that keeps these steps
and asks for what must hold all the same. `BudgetHonest` is checked without shell commands of the
research kind: `evaluate_pre_tool` counts them as refused mutations, and `main()` then waives the
refusal, so a claim may fail open "after N consecutive blocks" that no call ever felt.
`OneJudgePerBatch` needs a judge that answers: if it raises, the saved row carries the time stamp
of a call with no key and the siblings ask again.
`StopBoard` sets `Overlap` to false: no reconcile job saves during a Stop pass. With it every
property that relates two documents is subject to finding 3.
`StopBoard` lets a rival overwrite every counter, and the bounds count from the last such save; without a rival's
outdated save they are unconditional. One Stop hook runs at a time per session.
`Detached` bounds no holder by its lease; `NoStorm` counts what an expired or unwritten lease lets in.
What a kill, a failed read, an unlocked writer or a file that went away excuses is written into the properties, next to the promise:
`LoginKept` as long as nothing was lost, `RecordsKept` but for imports and overtaken saves, `LockHolds` up to one more holder per sweep,
`RefusalsTold` and `BatchOnce` up to a clash, `EvidenceFair` for a hook that was due.

**Fairness.** `FairSpec` of `Breaker` is weak fairness of `Enter(p)` for each process: the loop in
`breaker_lock` polls `flock` every few milliseconds until it gets it or its deadline passes, on its
own, whatever the holder does. Nothing is assumed of the holder. The lane's (`FairSpec` of `BgLane`; `Fairness` in `MCDetached` has the same conditions for the part that moves)
is that time passes, that the session goes on calling tools that ask for the lane, that a hook past its
lease goes on, and that a job ends in one of its ways, dying included; it assumes nothing of readers.
The janitor's: a sweep goes on by itself (weak), days pass between sweeps and sessions keep being started (strong, as a sweep or a running
host disables them for a while). The sync's: a syncer goes on, and hooks start one with the newest version again and again, as every SessionStart does (strong). The verify lane's is time
alone: nothing is assumed of runners or hooks.

## 4. Findings

1. **The block cap does not bound refusals** (`BreakerTrap`). `reinstate()` sets the block count to
   zero and the refusal that goes with it is not counted, so lifts and reinstatements in turn refuse
   mutating calls without end. `README.md` says "Every enforcement loop is capped so it can never
   trap a session".
2. **A board nobody can complete** (`SpecDeadEnd`). The reconcile judge may retract the primary, which
   completion never accepts, no Stop judges again, and the command line refuses to replace; the same
   for an adopted frontier that a revision takes back. With the default caps of zero only a provisional lift of
   the loop judge lets a Stop through, three at a time. `StaysWorkableUnlessUndone` shows that these are the only ways.
3. **A Stop pass drops a task** (`SpecLostUpdate`). The pass saves its copy whole and without
   `spec_lock`, over what the reconcile job added.
4. **A real path can close an open gate** (`EvidenceShut`). `validate_spec` looks for the words of a placeholder ("n/a", "todo", "pending")
   in every cite, and a cite is a path: reading `src/main/app.py` has the harness cite a path that contains "n/a", validation fails, and as long as
   the file exists nothing takes the cite back. `EvidenceFair` shows what holds when no such path is read.
5. **An error in a forced sync takes the runtime away** (`SyncTorn`). `_copy_version` removes `versions/<v>` entry by entry with
   `ignore_errors=True` and then renames the copy to it: an entry that cannot be removed makes the rename fail, and what was removed is gone. With `--force` that may be
   the version in use. The module's docstring says "Fail open: any error leaves the existing runtime untouched and returns False". A kill in between leaves a tree that has the
   sentinel and may lack the rest, which no sync without force repairs, since the sentinel is all it looks at. `CurrentRuns` shows that only a forced sync of the version in use can do this to it.
6. **A cite may be unearned** (`EvidenceUnearned`). URLs in the answer of a search, and in what exploration scripts print, are logged as fetched
   (`parse_tool_result.py:795-805`, as `tests/test_citation_verify.py:311` wants it), and a call whose outcome cannot be told is no failure (`parse_tool_result.py:889`), so `cat f || true` of a missing
   file is a read of it. `citations.py:6` says the file "was actually Read/grepped this session" and the URL "was actually fetched (WebFetch/curl) this session".

Seen in the code and reproduced by no run, because it is outside the instances or needs none:

*Breaker, gates and what they tell*
- `breaker_release_push` and `posttool_bg_push` clear the lease of the row whoever took it, and nothing bounds a job by its lease: a job that
  outlived its own gives back its successor's, and a third job starts beside that one within the TTL. `breaker_release_lane.py:24` says the lease
  "gates one in-flight disarm per breaker (rel_key = ledger_key) per TTL". A lease whose write fails is granted, too (`db.py:606`, `676`).
  The steps are all in `BgLane`; `NoStorm` shows that nothing else lets a second job in.
- The lift judge's budget is lost when two hooks bump the counter of the row each loaded before its judge call (`pre_tool_use.py:538`; `gate_lift.py:17` calls it bounded).
- A failed read of the breaker row yields the default row, which is then saved over the stored one (`db.py:407`).
- A Stop payload has no tool name, so `evaluate_post_tool_release` returns before the release judge that
  the comment in `_advance_release` says runs there; the Stop hook then drains the release lane's text and drops it.
- A REPL call whose code neither reads nor runs a command is refused even at LIGHT; a lift is consumed for a REPL call that a later command of the same code has refused;
  the lift code for writes and MCP tools cannot be reached.
- A search that reads like a mutation (`rg "rm" .unifable/spec/x`) is research to the breaker's waiver and a protected write to the next gate, so under an
  armed claim one call prints two denials. `OneAnswer` says that this is the only way to a second answer, and that no approval follows a denial.
- `gate_prompt` resolves the grade without `UNIFABLE_GRADE`, which every other hook honours; the ledger fields `prompt` and `operative_prompt` that `pre_tool_use.py:475` reads are never stored.
- All matched packs are marked as fired though only three are told, and marks are stored before the one emission, so a hook killed in between never tells (`PromptHook` has both as conditions).
- The same prompt sent twice is one epoch; the transcript's line count in the epoch changes while a batch runs, so siblings may be of different epochs.
- `posttool_last_specupdate_sig` is not in `DEFAULT_LEDGER`, so the guard against spec churn (`posttool_notify.py:117`) never works.
- Evidence logged while a reconcile job holds the lease, after it read the log, is reconciled only if a later tool follows, though `posttool_judges.py:50` says it is picked up. `LogSaves` takes no posttool lock and puts older dedup marks back.

*Board, Stop gate*
- A task that was revised and then superseded in one Stop pass is set back to pending by its own deferred verdict (`spec_stop_validate.py:450`).
- The loop judge is to be asked again every `LOOP_JUDGE_REFIRE_STEP` blocks, but the test takes a stored count of 0 for "never called" and compares with counts from before a restart (`loop_release.py:206`). `RefiresUnlessRestarted` shows that these are the only ways it stays away.
- Two `unifable` commands in one parallel batch lose a task (`spec_cli.py:116`).
- `verify_state` says of the raw block count that it "never resets except on a genuine full-open", but
  every new low and every permanent lift restart it. With a cap it still bounds the blocks (`TrapBounded`)
  between two retractions. A low-water mark set by a board of one task counts a later, larger board as a runaway from its first block.
- A board that a permanent lift completes is not passed to `validate_spec` and the citation check in that Stop,
  which `gate_stop`'s docstring says are required. The notice that the handoff cap is reached ends the Stop, so
  findings, observation gate and breaker steps do not run, in this and every later Stop.
- `loop_judge_last_at` is a monotonic time stamp in a stored ledger: after a reboot it lies in the future and the
  judge rests until the uptime has caught up (`Reboot`).

*Lanes, verification, upkeep*
- A verification whose runner could not be spawned stays "running" for its window; a sidecar is reused for other commands under the same key; editing a dirty file again does not change the key.
- The janitor deletes a log with its fresh rows when one row is old, loses the protection of a session whose marker it cannot read, and removes a lock file's name after it gave the lock back, though its docstring says "A held lock is NEVER unlinked".
- A version that the cache drops while it is copied is published without the missing entries if the sentinel was copied. A collection of old versions that is killed leaves trees with
  the sentinel and without the rest; a later unforced sync of such a version reuses it.

*Storage, evidence, judge*
- `connect()` moves a database aside as `.db.corrupt` on any `DatabaseError`, a mere lock included, and a second move overwrites the first. The import of older files happens again on every failed read and overwrites newer rows (`findings.py:59` says "One-time").
- `judge_transport._record` adds usage to the stored ledger while the Stop hook holds an older copy, and the hook's save drops it.
- The docstring of `codex_judge` says operational failures are not asked again, but the direct path does; a call may outlast its caller's timeout by the amount `CallBounded` states; any rejected handshake uses up a refresh.
- `citations.scan_transcript` pairs a call with its result only within one record, so reads of sub-agents earn nothing. A file read from another repository through an MCP server is logged under the local path of the same name. A harness cite relative to one root stands for the file of the same name in another. After the last file that was read is deleted the gate closes.
- `transcript_tail.py:520` says the retained prefix "stays byte-identical across appends"; with compaction on, a line that leaves the recent ones changes it. `_sticky_start`'s last branch cannot be reached.
- The shell scanners read a quotation of several lines line by line, join lines at a backslash with a blank, strip an escaped blank at a piece's end to a bare backslash, and take an apostrophe between double quotes for the start of a quotation where the splitter does not.

## 5. Proofs

Every theorem is of the specification TLC runs, for every value of its constants that the module's named assumptions allow
(`BreakerConstants`, `BreakerNames`, `BoardConstants`, `BgLaneConstants`, `StopGateConstants`, `JudgeCallConstants`, `LockConstants`,
`BlockConstants`, `PromptConstants`, `ToolConstants`, `CallShapes`, `LiftBudget`, `SyncConstants`, `RecordsConstants`, `RetentionConstants`, `TranscriptConstants`; TLC evaluates them in every run of the module). Where a theorem assumes more, it says so below, with the reason. A property with its theorem:

| Module | Properties proved |
|---|---|
| `BreakerProofs` | `RowConsistent`, `ScopeOwnPrompt`; serialized: `Serialized`, `NoSilentDisarm`, `BudgetKept`, `BudgetHonest`, `OneJudgePerBatch`, `ImplementsGate` |
| `SpecStoreProofs` | `TypeOK`, `AdoptionInvariant`, `NoStall`, `StaysWorkableUnlessUndone`, `PrimaryWaits`, `WithdrawnStaysUnrevised`; in one turn: `TasksKept` |
| `StopGateProofs` | `LedgerCoherent` (and `LedgerTypes`), `TrapBounded`, `LiftsGranted`, `SoftGatesBounded`, `RefiresUnlessRestarted` |
| `DetachedProofs` | lane: `NoStorm`, `LeaseMeansWork`, `Delivered`; verification: `DisarmEarned`; janitor: `LiveKept`; sync: `CurrentRuns` |
| `SharedProofs` | `LockHolds`, `RecordsKept`, `ReadsSteady`, `EvidenceFair`, `CallBounded`, `LoginKept` |
| `ShellProofs` | `CommandsCut` |
| `HooksProofs` | `MutationEarned`, `OpensWhenEarned`, `RefusalsTold`, `InstructedOnce`, `BatchOnce`, `FrontiersSound` |

### The breaker

Two of its theorems assume nothing about scheduling: lock waits may be exhausted, processes die and saves overwrite each other.

- `RowAlwaysConsistent` (`Spec => []RowConsistent`). `RowConsistent` is not inductive: a process saves a row it made from one it
  loaded earlier. The invariant `RowInv` says that the stored row *and every loaded row* are well typed and
  consistent; one lemma per update shows that it preserves a consistent row, one per branch lifts this
  to the outcomes of the evaluation, one step per action finishes it. The argument is why the code
  is safe to let saves overwrite each other: every row that is ever saved is a consistent one.
- `ScopeAlwaysOwnPrompt` (`Spec => []ScopeOwnPrompt`). A hook reads the scope again after it unlocked, from a row anybody may have
  saved since. `ScopeInv` says why that does no harm: from a hook's save to its end, the row and the copy it loaded for a lift have
  no scope or one of the prompt. It takes a lemma per update that no save writes a scope of another prompt.

The others are about serialized processes. They assume `Expirers = {}` (no lock wait is exhausted: no judge call of a holder
outlasts the 12 s) and `~GateLifts` (no call takes the unlocked lift); `BreakerRaces` and section 4 show what is lost without them.

- `LockSerializes` (`Spec => []Serialized`). `LockInv`: a process inside the section holds the lock and its loaded row is the stored
  one. The lemma `SerialSteps` draws from it what the rest use: every step answers a call on the stored row, settles it for a worker or a Stop, or leaves it alone.
- `ArmNeverSilentlyLost` (`Spec => []NoSilentDisarm`): each of those answers keeps an arm of the present prompt, records its claim, or lifts it.
- `BudgetAlwaysKept` (`Spec => []BudgetKept`): fewer than max_blocks() refusals are charged to one arm. `BudgetInv`: while the row is
  armed, what the history charged to the arm *is* the row's count.
- `BudgetAlwaysHonest` (`Spec => []BudgetHonest`) needs more: `~JudgeErrors` and no research calls, since a judge that raises lets its
  call through and a waiver lets research through that was counted. `EarnedInv` then has the count never ahead of the refusals in a row.
- `OneJudgeAlways` (`Spec => []OneJudgePerBatch`), also for `~JudgeErrors` (a failed call leaves its stamp under another key) and
  `~Overlap` (calls in flight at once are of one batch). A row remembers the last judged stamp only. `JudgeInv` says why that is
  enough: every stamp judged under the present key is at or before it, any two of them are a window apart, and every call still
  waiting is within the window of it.
- `BreakerImplementsGate` (`Spec => ImplementsGate`), the refinement of `ClaimGate`: initial states map to initial states, and each step
  of the rows, locks and processes is one step of the gate or a stutter. The gate remembers every resolved claim, the code the last
  `MAX_EVENTS` (50) of them, so the theorem assumes `Cardinality(Claims) <= MaxAdjudicated`: a session has no more distinct claims
  than that. Beyond it the oldest are forgotten, and may be flagged again. `AdjInv`: the list and the gate's set are the
  same, without repetition; by counting, the list is never cut.

### The spec store

Six of the seven hold with jobs that outlive their turn (`Overlap`), stale saves, dying passes and commands in between.

The operators of `Board` are whole handlers, so the proof first takes each apart into what it does to every single task: `Alike` (statuses
change, nothing else), `Same` (the tasks are carried over), `Held`, `Grows` (what a step may do to a task between two saves of
the board in use) and `Quiet`. Some sixty lemmas say which of them each operator is, and these compose. A document is
`Sound` if it is well formed (`Shaped`: the stall below its cap, one frontier adopted at most, statuses that fit the kind) and an adoption supersedes the primary.

`SpecInv` says that the stored document *and the copy a Stop pass is working on* are `Sound`, that the items the pass has
still to judge are tasks of its copy, no blocked one and no primary of an adopted board, and that the stall the history counts is the document's. The second and third
parts are what a save in the middle of a pass needs: it makes the copy the stored document.

- `TypeCorrect`, `AdoptionAlways`, `ArbiterInTime` follow from `SpecInv` (the stall is below the cap in each `Shaped` document).
- `WorkableAlways` (`Spec => []StaysWorkableUnlessUndone`): a case split over what is left on a `Sound` board whose primary nobody took back.
  A primary that is not blocked is work itself, a blocked one has a frontier that is pending, or one that the arbiter adopts.
  `SpecDeadEnd` shows that the exception cannot be dropped.
- `PrimaryAlwaysWaits`, `WithdrawnAlwaysStays` (action properties): from `Grows`, task by task.
- `TasksKeptInTurn` (`Spec => TasksKept`) assumes `~Overlap`: no reconcile job runs on into a Stop. It needs that a pass at work carries every stored
  task in its copy (`CarriesAll`). `SpecLostUpdate` is the counterexample without the assumption.

### The evidence of a session

In `SharedProofs`, `EvidenceAlwaysFair` (`EvidenceSpec => []EvidenceFair`), for any paths, markers, URL spellings, hooks and imported cites, and whatever is logged,
be it earned or not. `CopiesDistinct`: no copy of the document, stored or with a gate, cites a source in two spellings, so it matters to no one whose save wins. `Promises`: while a hook that is due an open gate is on its way, nothing marked or unread
is in the document, and once it has loaded (`CanSave`) some file it read is there and is in the stored document if it is in its
own copy. That clause is why a hook that finds nothing to save may leave the saving to others. The first attempt, that *every* such
cite of its copy is stored, is not inductive: a file may go, lose its cite to another hook, and come back.

### The other components

`DetachedProofs` has three about `BgLane`, for both lanes and any numbers of hooks, jobs and readers. The assumptions are `BgLaneConstants`.

- `NoStormAlways` (`Spec => []NoStorm`), whatever outlives its lease and whichever leases fail to be written. Its invariant `LaneInv` says of the lease of the row
  that at most one holder is at work on it, and none when the row has no lease; and of all others at work that there are at most `extra`. The second is what a push needs that clears
  the lease of somebody else: that holder stays at work without a lease, and its place was counted when the overrun one lost the lease to it, or the pusher's was given up.
- `LeaseAlwaysMeansWork`, from the same invariant: on the release lane a lease of the row has its holder at work, or dead.
- `TextsAlwaysDelivered` (`Spec => []Delivered`): the invariant says that a text is in at most one
  place (a slot, the pending column, a reader's hand, the shown texts) at a time, so a drain moves it and never copies it.

`StopGateProofs` has five, for any finite set of tasks, any caps, thresholds and rivals. The assumptions are
`StopGateConstants`.

- `LedgersAlwaysCoherent` (`Spec => [](TypeOK /\ LedgerCoherent)`). As with the breaker's rows, the
  invariant speaks of the stored ledger *and of every ledger a rival loaded*, and one lemma per update shows
  that it preserves a coherent ledger. It also needs that a Stop that is about to count has something incomplete.
- `TrapAlwaysBounded`: with a cap a session is blocked over its tasks a bounded number of times in a row. The
  count alone does not show it, because every new low restarts it. `HistInv` charges the blocks to the
  pair (low-water mark, count): at most cap - 1 for each mark above the present one, plus the present count. A
  new low moves to the next mark, so the sum stays below (number of tasks) x (cap - 1).
- `LiftsAlwaysGranted`: the lifted Stops left in the ledger never exceed those the loop judge granted.
- `SoftGatesAlwaysBounded`: each nudge is on its counter, and a counter at its cap nudges no more.
- `RefiresAlways` (`Spec => RefiresUnlessRestarted`), an action property: the loop judge is asked again at every refire step. What has to
  be carried is that the raw count in the ledger has run ahead of the count at which the judge was last asked by all the blocks since,
  unless it restarted (`RefireInv`); so a Stop that finds a whole step gone by is one that asks.

`DetachedProofs` also has `DisarmAlwaysEarned` (`VerifySpec => []DisarmEarned`), for any trees, git states, commands and runners. `DisarmEarned` speaks
of the moment of the disarm only. `Truthful` says of every place a result passes through, sidecar, runner and row, that a pass
written there was a run that exited 0 at the key it stands under; reuse, a second seed and a second runner preserve it because none
of them carries results from one key to another.

The third part of `DetachedProofs` is `LiveAlwaysKept` (`JanitorSpec => LiveKept`), an action property, for any sessions, projects, budgets and failures; it assumes that `Kinds` is a list.
`Contract` says what a sweep remembers is right: the hosts its markers name and that it does not know to have ended still have a
marker, and from the probe on they are among what it protects. From it each step that deletes keeps `LiveSpared` and `FreshSpared`, and a lemma covers the steps that delete nothing.

Its last part is `CurrentAlwaysRuns` (`SyncSpec => CurrentRuns`), for any versions and entries, whatever the host installs and removes. It assumes what the
property is about, one sync at a time (`Syncers = {y}`); two at once are in section 6. The code looks at a sentinel file only, so
`CurrentRuns` does not follow from its checks. `CopyWhole` says what a copy has at each step, all the entries gone through unless the host took the
version in between; `LinkSound` what has been looked at since and cannot have changed: what is about to be flipped to runs,
and what is copied or cleared without force does not, so a copy never replaces what the link leads to; `Removals` what a sync has still to remove, the version it replaces or versions
the link does not lead to, so that what stands under the name at the end is nothing, unless a removal failed; and `Forward` that an unforced sync goes to no older version. What the theorem
excuses is what the code does (finding 5): a tree is whole *until* something is removed of it, and a version that was `torn` may be reused.

`SharedProofs`: `LockAlwaysHolds` (`LockSpec => LockHolds`), an action property, for any processes and any finite number of
sweeps, none of which is a process (`LockConstants`). That several processes may hold the lock is what makes it hard: the bound counts files, not holders. `Few`
has two cases. While the name leads to a file old enough to be swept, no other file is in use. Afterwards the files in use, a
place for the file the name leads to or the next one made, and the sweeps on their way together are at most one more than the sweeps: a sweep
that removes a name trades its own place for the next file's, and no new one starts on a young file. `Met` says that a sweep
that got the lock met nobody in the body, which is why nobody it met loses the file.

`SharedProofs` also has `RecordsAlwaysKept` (`RecordsSpec => RecordsKept`), an action property, for any hooks, users, failed reads and writes, and
moved files; `RecordsConstants` says that no row is not a row. `CopiesFresh` says that a copy nothing was stored past has what the
row has, or is of no row; so a save that loses a mark had a stale copy. `Numbered` says, until an import or a moved file spoils them, that
the numbers given out are the findings there are and none is ahead of the counter: this is why the next one is new.

Its third part is `ReadsAlwaysSteady` (`TranscriptSpec => ReadsSteady`), an action property, for any texts, lengths, budgets and chunks that
`RetentionConstants` and `TranscriptConstants` allow, so also for a chunk of 0 (plain tailing) or of the whole budget, and transcripts of any length.
The text is a flattening defined by recursion, so the proof first shows that the recursion has a solution (`JoinsExist`, by `Induction`, both in `TextLemmas`, which follows from
inclusion of finite sets being well founded) and that sequences of which one begins with the other flatten to such texts (`FlattenBegins`). `LastShown` ties
what was shown to the present file: it is the window of the lines that were whole at the time, and these lines the file still begins with.
`StartMoves` is the arithmetic: with a longer text the window begins where it did or at least a chunk later. With compaction on, or after a half-written
line, the text before a window may change, and of the window only the bounds are claimed.

The last part of `SharedProofs` has two about the judge call, for any callers, attempts, timeouts and tokens. The assumptions are `JudgeCallConstants`.

- `CallAlwaysBounded` (`Spec => []CallBounded`). `Timely` bounds the clock of a call at each of its steps: an attempt begins at the floor before
  the deadline at the latest, and one rejection adds a refresh and a handshake to it. What those and a read take is assumed (`Refreshing`, `Shaking`).
- `LoginAlwaysKept` (`Spec => []LoginKept`). While nothing is lost, `OneHand` holds: at most one
  process has a new token in its hand, it is the live one and newer than the file's, and with empty hands the file's is live. The refresh token is taken once, so no second process comes to write the temp file.

`HooksProofs` begins with `RefusalsAlwaysTold` (`Spec => []RefusalsTold`), for any hooks, signatures, hosts and prompts; `BlockConstants` says
that prompts are numbered from 1 and that no hook is called nobody. `BlockInv` has, up to a clash, that a hook inside a locked section works on the
stored ledger (`Locked`), that `owed`, the history of who said they would tell, is exactly what the ledger counts in the present
epoch (`Accounts`), and that marked unlock lines are marks of the epoch that is counted, so that no later count clears them
(`Lines`). From the second the first to count a signature is the only one to tell it, and a repeat repeats something owed. An
epoch is the hash of a text, and texts repeat: what keeps the counts of one prompt out of the next that says the same is the reset by the prompt.

Its second part is `InstructedAlwaysOnce` (`PromptSpec => []InstructedOnce`), for any prompts, packs and caps, with any number of kills. `PromptConstants` says
that no pack is named like one of the hooks' own texts. A mark and its text are apart by up to four steps, so the invariant
speaks of what is out *or about to be* (`Out`): what is out is marked (`Marked`), hence never collected again, and without a kill what is marked
is out (`Seen`). The brief of a HEAVY prompt is the exception: it is marked with the grade and collected last; until then it is `Coming`.

Its third part has two, for any hooks, jobs, titles, answers and windows; `ToolConstants` says that an answer is a sequence of titles.

- `BatchAlwaysOnce` (`ToolSpec => []BatchOnce`). The claim is the last one granted (`Granted`), so a claim of the same batch within the window either meets its own
  and is refused, or some other was granted since. Time stamps reach the claim in any order; the window is a distance, and that it is
  symmetric is what the proof uses. `Speaking` says that who is about to tell holds the lock, has the marks, and that these are of
  what was told last, until an unlocked save overlaps.
- `FrontiersAlwaysSound` (`ToolSpec => []FrontiersSound`): `AddedSound` says of any board and any answer that what is added is new, distinct and fits under
  the cap. The snapshot the job asked about appears nowhere in it.

Its last part is about `PreToolGate`: `MutationAlwaysEarned` (`GateSpec => MutationEarned`) and `OpensAlwaysWhenEarned` (`GateSpec =>
OpensWhenEarned`), action properties, for any calls, boards, scopes, hosts and budgets, the lift budget of zero included. `CallShapes` says what `main()` takes from a call: one command
from a shell tool, any number from the REPL, paths from writes only. A call may hold any number of commands and each of them may use a grant or ask for one, so what became of it is a
function defined by recursion on the commands. The proof has to show that such a function exists (`TrialsExist`) and what holds after each command (`Tally`: the row
that only researched is the row of the start, any other has paid in judge calls or uses, so the two are never confused, and a call that still goes has its grant for one of
its commands). Both go by the first command for which they fail, which exists by `Least`: among the intervals from 1 one is minimal under strict inclusion, a well-founded order
of finite sets. `AnswersWeighed` then says of the gates as a whole that a call is stopped by the breaker, refused by a gate that may refuse it, or approved by those that had to open.

### The command line

`ShellProofs` has `CommandsAlwaysCut` (`ShellSpec => []CommandsCut`), for commands of any length over any characters; it assumes nothing, and
`MaxLength` plays no part in it. The passes are recursive functions of what they read, and each decides by the character that follows: an operator may have two
characters, and a backslash at the very end of a text is a character like any other. The proof first reads the text with an automaton that does not look
ahead (`End(C, text)`, which cuts at the characters of `C` outside quotes), and shows of each pass that it follows this automaton.

- *Two passes are one* (`PiecesFinal`). `SameEnd` and `Awaits` say that the splitter, for each of its three settings, keeps step with the automaton, except between the bars of
  an `||`; there the automaton has cut one part more, which is empty and so is dropped. What cutting finds does not depend on blanks at the ends (`FinalStrip`),
  although stripping may take the blank from a backslash that escaped it: this is why the second pass may work on what the first has stripped.
- *Live text is live in its piece* (`PiecesLive`). `SameQuotes` ties the scanner's flags to the automaton's quote, as long as no apostrophe stands between double quotes;
  `SameLive` says that what a scanner has seen of the line is what scanners of the pieces have seen. Without the hypothesis it is false (section 4).
- *A newline ends a command* (`NewlinesHold`). `Follow` runs over the command and over the same text with semicolons: the automaton of the second is that of the last line
  begun, after the pieces of the lines before (`EndsAlike`). `Backslashed` and `Undashed` carry the two exceptions: no line before ends in a backslash, so `_logical_lines`
  takes each by itself (`Taking`), and none but the first begins with a dash, so `_join_flag_lines` leaves them alone. A backslash at
  the very end of the command is taken away before the last line is split; `Trimmed` is what cutting finds then.

`TextLemmas` has what these proofs and those about transcripts need: induction as a fact about sets of numbers (`Induction`), from which come induction on texts (`SeqInduction`),
the existence and uniqueness of a function that reads a text from left to right (`FollowsExist`, `FollowsOne`), and the equations of `FlattenSeq` (`FlattenAppend`).

### Model-checked only

Every invariant and action property of the passing runs has a theorem. Liveness (`NoWedge`, `LaneComesBack`, `DeadReaped`, `Upgraded`, `HoldEnds`)
has none: it needs fairness and `ENABLED`, which the prover does not reach.

## 6. Plan

The core of the system and what runs beside it are modelled. What is left, in this order:

1. *Fault models*: a failed read of the breaker row in `Breaker`; the command line's load and save as separate steps in `SpecStore`; two syncs
   at once in `RuntimeSync`.
2. *Composition*: `VerifyLane` in place of the breaker's nondeterministic verification; `Evidence` in place of `PreToolGate`'s `backed`.
3. *Data*: the tables of `bash_classify` and the shapes `parse_tool_result` knows, as functions checked against a reference definition.

The number of runs is kept to distinct questions: a new module's invariants share one passing run, and
runs that make the same point as a later, composed one give way to it.

## 7. Not modelled

- *Text*: prompts, schemas, titles, checks and their output, the tables of programs and flags of shell classification, parsing of tool results, message
  formatting, compression of tool output, the prompt enhancement. It reaches the models as the choice of a verdict, a kind of tool or command, a target and whether it
  succeeded, or which claims match.
- *Of the hooks*: the exceptions that let a call through (`pre_tool_use.py:1013-1021`), and `spec_lock` given up after 12 s.
- *Of the Stop hook*: usage counters, the exceptions that end a hook with its call let through, the holdout experiment,
  the loop's event list and retracted ids, none of which a later gate reads.
- *Of the judge transport*: the shared daemon's socket protocol, frames and usage sums; batches (`ask_structured_batch` has no caller).
- *Of the storage*: session keys, migrations of the schema, the breaker's event table, contract texts, relocation of specs.
- *Of the upkeep*: daemon sockets, provenance files, the launchers' texts, the recon lane and the test hint.
- *Code without a caller*: `judge_frontier_comparison`, `apply_grade_override_to_spec`, `verification_done`.
- Installation, the hook router (its timeouts are the deaths in the models), benchmarks, probes and the shadow logger change no state the gates decide on. The
  skills are separate programs. `PROJECT.json` lists each part with the reason.
