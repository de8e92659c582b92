----------------------------- MODULE PromptHook -----------------------------
(* What UserPromptSubmit tells the agent.  The hook collects router packs,     *)
(* citation footer, plan-mode line, scaffold onboarding, HEAVY brief and       *)
(* effort playbook in steps that each mark in the ledger (or a marker file)    *)
(* that their text is out, and prints all of it at its end: killed before that *)
(* it has marked what nobody saw.  SessionStart's frame and the refusals of    *)
(* the PreToolUse hook belong to it, for they leave out what is marked.        *)
EXTENDS Naturals, Sequences, FiniteSets

CONSTANTS Prompts,      \* text, packs (manifest order), mode, profile, effort, plan
          Packs, MaxPacks, MaxSubmits, MaxKills, NoText

ASSUME PromptConstants ==
  /\ Packs \cap {"cite", "onboard", "brief", "playbook", "frame", "restate", "plan", "enhanced"} = {}
  /\ \A p \in Prompts :
       /\ p.packs \in Seq(Packs) /\ p.text # NoText
       /\ p.mode \in {"quick", "normal", "deep"} /\ p.profile \in {"code", "operational"}
       /\ {p.effort, p.plan} \subseteq BOOLEAN

VARIABLES session,                   \* its ledger
          started, playbook,         \* there is a board; the playbook's marker file is there
          pc, now,                   \* the hook that runs and its text so far
          shown, cut,                \* how often each text was printed; packs over the cap
          prompts, kills, refused
promptVars == <<session, started, playbook, pc, now, shown, cut, prompts, kills, refused>>

GradeOf == [quick |-> "LIGHT", normal |-> "STANDARD", deep |-> "HEAVY"]
OnceTexts == {"cite", "onboard", "brief", "playbook"} \cup Packs
Texts == OnceTexts \cup {"frame", "restate", "plan", "enhanced"}
NoNow == [prompt |-> NoText, mode |-> "normal", profile |-> "code", out |-> {}]

PromptInit ==
  /\ session = [task |-> NoText, grade |-> "STANDARD", fired |-> {}, brief |-> FALSE, inject |-> FALSE,
               onboard |-> FALSE, frame |-> FALSE, cite |-> FALSE, planned |-> NoText,
               plan |-> FALSE, footer |-> NoText]
  /\ started \in BOOLEAN /\ playbook = FALSE
  /\ pc = "new" /\ now = NoNow
  /\ shown = [x \in Texts |-> 0] /\ cut = {}
  /\ prompts = 0 /\ kills = 0 /\ refused = FALSE

hidden == <<shown, cut, prompts, kills, refused>>
Goes(from, to) == pc = from /\ pc' = to
Tells(texts) == now' = [now EXCEPT !.out = @ \cup texts]
Printed(texts) == shown' = [x \in Texts |-> IF x \in texts THEN shown[x] + 1 ELSE shown[x]]

----------------------------------------------------------------------------
\* SessionStart: the frame is marked and then printed; without a payload neither.
FrameMarked ==
  /\ Goes("new", "frame") /\ session' = [session EXCEPT !.frame = TRUE]
  /\ UNCHANGED <<started, playbook, now, hidden>>
FramePrinted ==
  /\ Goes("frame", "idle") /\ Printed({"frame", "restate"})
  /\ UNCHANGED <<session, started, playbook, now, cut, prompts, kills, refused>>
NoFrame == Goes("new", "idle") /\ UNCHANGED <<session, started, playbook, now, hidden>>

----------------------------------------------------------------------------
\* The steps of gate_prompt.main().

\* pack_router: packs not fired before are fired, and the first few are told.
Route(p) ==
  LET fresh == {i \in DOMAIN p.packs : p.packs[i] \notin session.fired}
      all == {p.packs[i] : i \in fresh}
      first == {p.packs[i] : i \in {k \in fresh : Cardinality({m \in fresh : m < k}) < MaxPacks}}
  IN /\ Goes("idle", "routed") /\ prompts < MaxSubmits /\ prompts' = prompts + 1
     /\ session' = [session EXCEPT !.fired = @ \cup all]
     /\ cut' = cut \cup (all \ first)
     /\ now' = [NoNow EXCEPT !.prompt = p, !.out = first]
     /\ UNCHANGED <<started, playbook, shown, kills, refused>>

\* The grade judge beside the enhancer; no verdict is normal code work, and
\* operational work is never deep.
Classify(answers, enhances) ==
  LET p == now.prompt
      mode == IF ~answers THEN "normal"
              ELSE IF p.profile = "operational" /\ p.mode = "deep" THEN "normal" ELSE p.mode
      profile == IF answers THEN p.profile ELSE "code"
  IN /\ Goes("routed", "graded")
     /\ now' = [now EXCEPT !.mode = mode, !.profile = profile,
                           !.out = @ \cup IF enhances /\ profile = "code" /\ mode # "quick"
                                          THEN {"enhanced"} ELSE {}]
     /\ UNCHANGED <<session, started, playbook, hidden>>

\* Faulty variant: every HEAVY prompt injects the brief.
ApplyEach ==
  LET g == GradeOf[now.mode]
  IN /\ Goes("graded", "applied")
     /\ session' = [session EXCEPT !.task = now.prompt.text, !.grade = g, !.plan = now.prompt.plan,
                                 !.inject = (g = "HEAVY"), !.brief = @ \/ g = "HEAVY"]
     /\ UNCHANGED <<started, playbook, now, hidden>>
\* apply(): the task of the prompt, its grade, the brief on the first HEAVY one.
Apply ==
  LET g == GradeOf[now.mode]
  IN /\ Goes("graded", "applied")
     /\ session' = [session EXCEPT !.task = now.prompt.text, !.grade = g, !.plan = now.prompt.plan,
                                 !.inject = g = "HEAVY" /\ ~session.brief, !.brief = @ \/ g = "HEAVY"]
     /\ UNCHANGED <<started, playbook, now, hidden>>

CiteFooter ==
  /\ Goes("applied", "cited")
  /\ session' = [session EXCEPT !.cite = TRUE]
  /\ Tells(IF session.cite THEN {} ELSE {"cite"})
  /\ UNCHANGED <<started, playbook, hidden>>
\* Once per text of the prompt: its hash names the epoch.
PlanLine ==
  /\ Goes("cited", "planned")
  /\ IF session.plan /\ session.planned # session.task
     THEN session' = [session EXCEPT !.planned = session.task] /\ Tells({"plan"})
     ELSE UNCHANGED <<session, now>>
  /\ UNCHANGED <<started, playbook, hidden>>
\* Faulty variant: any board there is counts as the scaffold the agent was told of.
ScaffoldMarked ==
  /\ Goes("planned", "scaffolded")
  /\ IF session.grade = "LIGHT" THEN UNCHANGED <<session, started, now>>
     ELSE /\ started' = TRUE /\ session' = [session EXCEPT !.onboard = TRUE]
          /\ Tells(IF started THEN {} ELSE {"onboard"})
  /\ UNCHANGED <<playbook, hidden>>
\* The board of a session that has none; its tutorial leaves out what the frame
\* or the brief tells.
Scaffold ==
  /\ Goes("planned", "scaffolded")
  /\ IF session.grade = "LIGHT" THEN UNCHANGED <<session, started, now>>
     ELSE /\ started' = TRUE
          /\ IF started \/ session.onboard THEN UNCHANGED <<session, now>>
             ELSE /\ session' = [session EXCEPT !.onboard = TRUE]
                  /\ Tells({"onboard"} \cup IF session.inject \/ session.frame THEN {} ELSE {"restate"})
  /\ UNCHANGED <<playbook, hidden>>
\* The marker of the playbook is made before its text, and its paragraphs give
\* way to the packs that have fired.
Effort ==
  /\ Goes("scaffolded", "ready")
  /\ playbook' = (playbook \/ now.prompt.effort)
  /\ Tells((IF session.inject THEN {"brief", "restate"} ELSE {})
           \cup (IF now.prompt.effort /\ ~playbook THEN {"playbook"} ELSE {}))
  /\ UNCHANGED <<session, started, hidden>>
Emit ==
  /\ Goes("ready", "idle") /\ Printed(now.out) /\ now' = NoNow
  /\ UNCHANGED <<session, started, playbook, cut, prompts, kills, refused>>
\* The host's hook timeout, at any step.
PromptKilled ==
  /\ pc \notin {"new", "idle"} /\ kills < MaxKills /\ kills' = kills + 1
  /\ pc' = "idle" /\ now' = NoNow
  /\ UNCHANGED <<session, started, playbook, shown, cut, prompts, refused>>

----------------------------------------------------------------------------
\* Faulty variant: the unlock lines are left out when there is a board.
RefuseByBoard ==
  /\ pc = "idle" /\ session.grade # "LIGHT" /\ session.task # NoText
  /\ refused' = TRUE
  /\ Printed(IF started \/ session.footer = session.task THEN {} ELSE {"restate"})
  /\ session' = [session EXCEPT !.footer = IF started THEN @ ELSE session.task]
  /\ UNCHANGED <<started, playbook, pc, now, cut, prompts, kills>>
\* PreToolUse refuses for want of evidence: the unlock lines, unless the scaffold
\* was announced or this prompt has seen them.
RefuseEvidence ==
  /\ pc = "idle" /\ session.grade # "LIGHT" /\ session.task # NoText
  /\ refused' = TRUE
  /\ Printed(IF session.onboard \/ session.footer = session.task THEN {} ELSE {"restate"})
  /\ session' = [session EXCEPT !.footer = IF session.onboard THEN @ ELSE session.task]
  /\ UNCHANGED <<started, playbook, pc, now, cut, prompts, kills>>

PromptNext ==
  \/ FrameMarked \/ FramePrinted \/ NoFrame
  \/ \E p \in Prompts : Route(p)
  \/ \E answers \in BOOLEAN, enhances \in BOOLEAN : Classify(answers, enhances)
  \/ Apply \/ CiteFooter \/ PlanLine \/ Scaffold \/ Effort \/ Emit \/ PromptKilled \/ RefuseEvidence
PromptSpec == PromptInit /\ [][PromptNext]_promptVars

----------------------------------------------------------------------------
\* What must hold.

\* Pack, citation footer, onboarding, HEAVY brief and playbook: each is printed
\* once in a session at most, whatever the prompts and however hooks end.
ShownOnce == \A x \in OnceTexts : shown[x] <= 1
\* What is marked as told was printed, unless a hook was killed before it printed
\* or, of packs, the cap cut it off.
MarkedIsShown ==
  pc = "idle" /\ kills = 0 =>
    /\ session.frame => shown["frame"] > 0
    /\ session.cite => shown["cite"] > 0
    /\ session.onboard => shown["onboard"] > 0
    /\ session.brief => shown["brief"] > 0
    /\ playbook => shown["playbook"] > 0
    /\ \A t \in session.fired \ cut : shown[t] > 0
\* An agent that is refused for want of evidence has been told what to do first,
\* by frame, onboarding, brief or refusal, unless a hook was killed.
RefusedIsInstructed == refused /\ kills = 0 => shown["restate"] > 0
\* What belongs once into a session is told, once.
InstructedOnce == ShownOnce /\ MarkedIsShown /\ RefusedIsInstructed
=============================================================================
