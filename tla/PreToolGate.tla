---------------------------- MODULE PreToolGate ----------------------------
(* The whole answer of the PreToolUse hook to one tool call: breaker,         *)
(* research waiver, director's scope, protected paths, evidence spec, HEAVY   *)
(* phases, research whitelist, gate lift.  What the breaker decides, what the *)
(* board and the scope contain and how a command line is classified come from *)
(* elsewhere (Breaker, SpecStore, ShellLine); a call carries its classes.    *)
EXTENDS Naturals, Sequences

CONSTANTS Calls,          \* calls the agent may make
          Specs,          \* boards the session may have, NoSpec among them
          Scopes,         \* director scopes the row may hold, NoScope among them
          NoSpec, NoScope,
          GateHosts,          \* "claude" answers in JSON, "codex" by exit code
          EnvGrades,      \* values of UNIFABLE_GRADE, "unset" among them
          Verdicts,       \* answers of the grade judge: mode and profile
          Pins,           \* grades an operator may pin, "none" among them
          LiftUses, MaxJudgeCalls

VARIABLES gateHost, env, policy, spec, backed, row, last
gateVars == <<gateHost, env, policy, spec, backed, row, last>>

Grades == {"LIGHT", "STANDARD", "HEAVY"}
GradeOfMode == [quick |-> "LIGHT", normal |-> "STANDARD", deep |-> "HEAVY"]
ModeOf == [LIGHT |-> "quick", STANDARD |-> "normal", HEAVY |-> "deep"]
Profiles == {"code", "operational"}

----------------------------------------------------------------------------
\* Policy: which grade and which evidence profile hold for this call.

ResolveGrade(l) ==
  IF env \in Grades THEN env
  ELSE IF l.pin \in Grades THEN l.pin
  ELSE IF l.active THEN GradeOfMode[l.mode]
  ELSE "STANDARD"
Grade == ResolveGrade(policy)
ProfileOf(s) == IF s # NoSpec /\ s.profile \in Profiles THEN s.profile
                ELSE IF policy.profile \in Profiles THEN policy.profile ELSE "code"

----------------------------------------------------------------------------
\* Evidence: does the board stand for this grade, and in which HEAVY phase is it.

HasTasks(s) == s.tasks \/ s.frontiers > 0 \/ s.primary
Waived(s, g) == g # "HEAVY" /\ s.work = "branch"
Valid(s, g) ==
  /\ s.restated /\ HasTasks(s)
  /\ g = "HEAVY" => s.frontiers >= 2 /\ s.primary
  /\ ProfileOf(s) = "code" =>
       /\ s.context \/ Waived(s, g)
       /\ s.art \/ Waived(s, g) \/ (g # "HEAVY" /\ s.work = "upkeep")
Backed(s) == backed \/ ProfileOf(s) = "operational"
\* Faulty variant: the pre-edit check leaves the citation cross-check to Stop.
StandsUnbacked == spec # NoSpec /\ Valid(spec, Grade)
Stands == spec # NoSpec /\ Valid(spec, Grade) /\ Backed(spec)
Unlocked == Grade = "LIGHT" \/ Stands

HeavyPhase(s) ==
  IF ~(s.restated /\ s.frontiers >= 2 /\ s.primary) THEN "declare"
  ELSE CASE s.outcome = "adopted" -> "adopted"
         [] s.outcome = "rejected" -> "primary"
         [] OTHER -> "frontier"
\* Only the first target of a write is looked at.
HeavyRefuses(c) ==
  LET phase == HeavyPhase(spec)
  IN phase = "declare" \/ (phase = "frontier" /\ c.targets # <<>> /\ Head(c.targets) = "primary")
SpecRefuses(c) == ~Unlocked \/ (Grade = "HEAVY" /\ HeavyRefuses(c))

----------------------------------------------------------------------------
\* Classes of calls.

Shell(c) == c.kind \in {"shell", "repl"}
McpMutation(c) == c.kind = "mcp" /\ ~c.readlike
McpForced(c) == c.kind = "mcp" /\ (~c.readlike \/ c.payload)
Gated(c) == McpMutation(c) \/ c.kind \in {"write", "delegate"} \/ Shell(c)
\* The tools the breaker refuses while a claim is unproven: not delegation.
\* Faulty variant: every MCP tool counts as a mutation.
BreakerToolMcp(c) == c.kind \in {"mcp", "write"} \/ Shell(c)
BreakerTool(c) == McpMutation(c) \/ c.kind = "write" \/ Shell(c)
Research(c) ==
  /\ Shell(c)
  /\ IF c.cmds = <<>> THEN c.reads ELSE \A i \in DOMAIN c.cmds : c.cmds[i].research
Floor(c) == c.kind = "inspect" \/ (c.kind = "mcp" /\ c.readlike)

Names(c) == IF c.name = "apply_patch" THEN {"apply_patch", "Edit", "Write"} ELSE {c.name}
InScope(c, sc) ==
  \/ Floor(c) \/ sc = NoScope
  \/ /\ Names(c) \cap sc.deny = {}
     /\ sc.allow = {} \/ Names(c) \cap sc.allow # {}
\* The director steers only until the evidence stands, and never research.
\* Faulty variant: the director's scope binds in the action phase too.
ScopeRefusesAlways(c, sc) == Gated(c) /\ ~Research(c) /\ ~InScope(c, sc)
ScopeRefuses(c, sc) == Gated(c) /\ ~Research(c) /\ ~InScope(c, sc) /\ ~Unlocked

WriteHits(c) == \E i \in DOMAIN c.targets : c.targets[i] = "protected"
ShellHits(c) == \E i \in DOMAIN c.cmds : c.cmds[i].mutating /\ c.cmds[i].place = "protected"
SetsReserved(c) == \E i \in DOMAIN c.cmds : c.cmds[i].env

----------------------------------------------------------------------------
\* What main() takes from a call: a shell tool carries one command, the REPL as
\* many as its code runs, other tools none; only writes, and MCP calls that are
\* treated as such, have their paths looked at.
Places == {"free", "primary", "protected"}
Commands == [id : STRING, research : BOOLEAN, mutating : BOOLEAN, env : BOOLEAN, place : Places]
ASSUME CallShapes == \A c \in Calls :
  /\ c.targets \in Seq(Places) /\ c.cmds \in Seq(Commands)
  /\ c.cmds # <<>> => Shell(c)
  /\ c.kind = "shell" => Len(c.cmds) = 1
  /\ c.targets # <<>> => c.kind = "write" \/ McpForced(c)
ASSUME LiftBudget == LiftUses \in Nat /\ MaxJudgeCalls \in Nat

----------------------------------------------------------------------------
\* An answer counts what was sent: the host reads a denial from the JSON or from
\* the exit code.

Nothing == [denies |-> 0, allows |-> 0, rc |-> 0]
Deny(a) == [denies |-> a.denies + 1, allows |-> a.allows, rc |-> IF gateHost = "claude" THEN 0 ELSE 2]
\* Faulty variant: an exit code of 0 is taken for "allowed" after a waived denial.
AllowByCode(a) == [a EXCEPT !.allows = @ + 1, !.rc = 0]
Allow(a) == IF a.denies = 0 THEN [a EXCEPT !.allows = @ + 1, !.rc = 0] ELSE [a EXCEPT !.rc = 0]
Passed(a) == IF gateHost = "claude" THEN a.denies = 0 ELSE a.rc = 0

\* The lift judge for one command: reuse a grant for this very action, or ask.
Row == [lift |-> "none", uses |-> 0, calls |-> 0]
Lifts(r, act) ==
  IF r.lift = act /\ r.uses > 0 THEN {[ok |-> TRUE, row |-> [r EXCEPT !.uses = @ - 1]]}
  ELSE IF r.calls >= MaxJudgeCalls THEN {[ok |-> FALSE, row |-> r]}
  ELSE {[ok |-> FALSE, row |-> [r EXCEPT !.calls = @ + 1]],
        [ok |-> TRUE, row |-> [lift |-> act, uses |-> IF LiftUses = 0 THEN 0 ELSE LiftUses - 1,
                              calls |-> r.calls + 1]]}

\* The whitelist, command by command: what may have become of the call after the
\* first k of its commands.  A refused command stops the loop.
Tried(cmd, o) ==
  IF ~o.ok \/ cmd.research THEN {o}
  ELSE IF ~cmd.mutating THEN {[o EXCEPT !.ok = FALSE]}
  ELSE Lifts(o.row, cmd.id)
Trials(c, start) ==
  LET after[k \in 0..Len(c.cmds)] ==
        IF k = 0 THEN {[ok |-> TRUE, row |-> start]}
        ELSE UNION {Tried(c.cmds[k], o) : o \in after[k - 1]}
  IN after
Whitelisted(c, start) == Trials(c, start)[Len(c.cmds)]

Outcome(a, r) == [ans |-> a, row |-> r]
WriteAnswers(c, a) == {Outcome(IF WriteHits(c) \/ SpecRefuses(c) THEN Deny(a) ELSE Allow(a), row)}
\* Faulty variant: an unlocked session skips the guards of the command line.
ShellAnswersUnguarded(c, a) ==
  IF Unlocked THEN {Outcome(Allow(a), row)}
  ELSE {Outcome(IF o.ok THEN Allow(a) ELSE Deny(a), o.row) : o \in Whitelisted(c, row)}
ShellAnswers(c, a) ==
  IF ShellHits(c) \/ SetsReserved(c) \/ (c.kind = "repl" /\ c.cmds = <<>> /\ ~c.reads)
  THEN {Outcome(Deny(a), row)}
  ELSE IF Unlocked THEN {Outcome(Allow(a), row)}
  ELSE {Outcome(IF o.ok THEN Allow(a) ELSE Deny(a), o.row) : o \in Whitelisted(c, row)}

\* main(): each gate in turn; the first that refuses ends the hook, except that
\* the breaker's refusal, already sent, is waived for research.
Answers(c, sc, refused) ==
  LET a == IF refused THEN Deny(Nothing) ELSE Nothing
  IN IF refused /\ ~Research(c) THEN {Outcome(a, row)}
     ELSE IF ScopeRefuses(c, sc) THEN {Outcome(Deny(a), row)}
     ELSE CASE c.kind = "write" -> WriteAnswers(c, a)
            [] c.kind = "mcp" -> IF McpForced(c) THEN WriteAnswers(c, a) ELSE {Outcome(Allow(a), row)}
            [] Shell(c) -> ShellAnswers(c, a)
            [] c.kind = "delegate" -> {Outcome(IF Unlocked THEN Allow(a) ELSE Deny(a), row)}
            [] OTHER -> {Outcome(Allow(a), row)}

----------------------------------------------------------------------------
NoCall == [kind |-> "none", name |-> "none", targets |-> <<>>, cmds |-> <<>>,
           reads |-> FALSE, readlike |-> FALSE, payload |-> FALSE]
None == [call |-> NoCall, refused |-> FALSE, ans |-> Nothing, lifted |-> FALSE]
GateInit ==
  /\ gateHost \in GateHosts /\ env \in EnvGrades
  /\ policy = [active |-> FALSE, mode |-> "quick", pin |-> "none", profile |-> "none"]
  /\ spec = NoSpec /\ backed = FALSE
  /\ row = Row /\ last = None

\* gate_prompt: the classification holds for the prompt unless a grade is pinned.
PromptGraded(v) ==
  LET m == IF v.profile = "operational" /\ v.mode = "deep" THEN "normal" ELSE v.mode
  IN /\ policy' = [policy EXCEPT !.active = TRUE, !.profile = v.profile,
                                 !.mode = IF policy.pin \in Grades THEN ModeOf[policy.pin] ELSE m]
     /\ UNCHANGED <<gateHost, env, spec, backed, row>>
OperatorPins(g) == policy' = [policy EXCEPT !.pin = g] /\ UNCHANGED <<gateHost, env, spec, backed, row>>
\* Agent, command line, reconcile job and Stop change the board.
BoardChanges(s, b) == spec' = s /\ backed' = b /\ UNCHANGED <<gateHost, env, policy, row>>
\* One hook: the breaker's evaluation leaves a claim armed or not and a scope,
\* and the gates answer.
Call(c, armed, scope) ==
  /\ \E refused \in {FALSE, armed /\ BreakerTool(c)} : \E o \in Answers(c, scope, refused) :
       /\ row' = o.row
       /\ last' = [call |-> c, refused |-> refused, ans |-> o.ans, lifted |-> o.row # row]
  /\ UNCHANGED <<gateHost, env, policy, spec, backed>>
HostReads == UNCHANGED <<gateHost, env, policy, spec, backed, row>>

GateNext ==
  \/ /\ last = None
     /\ \E c \in Calls, armed \in BOOLEAN, scope \in Scopes : Call(c, armed, scope)
  \/ /\ last = None /\ last' = None
     /\ \/ \E v \in Verdicts : PromptGraded(v)
        \/ \E g \in Pins : OperatorPins(g)
        \/ \E s \in Specs, b \in BOOLEAN : BoardChanges(s, b)
  \/ last # None /\ last' = None /\ HostReads
GateSpec == GateInit /\ [][GateNext]_gateVars

----------------------------------------------------------------------------
\* What must hold.

Mutates(c) == c.kind \in {"write", "delegate"} \/ McpForced(c) \/ (Shell(c) /\ ~Research(c))
Clean(c) == ~WriteHits(c) /\ ~ShellHits(c) /\ ~SetsReserved(c)

\* The evidence store and the reserved variables stay out of reach on every way
\* through the gates: LIGHT, unlocked, lifted or waived.
GuardsAbsolute == Passed(last.ans) => Clean(last.call)
\* A call gets one answer.  A denial that was sent is not followed by an approval,
\* and only the denial waived for research is followed by another.
OneAnswer ==
  \/ last.ans.denies + last.ans.allows <= 1
  \/ last.refused /\ Research(last.call) /\ last.ans.denies = 2 /\ last.ans.allows = 0
\* Nothing that may change the workspace passes above LIGHT before the board
\* restates the task, with two frontiers and a primary at HEAVY, and what it says
\* it read was read; but for a shell action the lift judge granted, this very one.
Earned == \/ Grade = "LIGHT"
          \/ /\ spec # NoSpec /\ spec.restated
             /\ Grade = "HEAVY" => spec.frontiers >= 2 /\ spec.primary
             /\ backed \/ ProfileOf(spec) = "operational"
MutationEarned ==
  [][/\ Mutates(last'.call) /\ Passed(last'.ans) =>
          \/ Earned
          \/ last'.lifted /\ \E i \in DOMAIN last'.call.cmds : row'.lift = last'.call.cmds[i].id
     /\ GuardsAbsolute' /\ OneAnswer']_<<last, row>>

\* Reading is free under every scope, grade and claim, and so is research in the
\* shell, but on a host that takes the breaker's JSON for the answer.
ReadsFree ==
  \/ Floor(last.call) /\ ~last.call.payload
  \/ Research(last.call) /\ Clean(last.call) /\ ~(gateHost = "claude" /\ last.refused)
  => Passed(last.ans)
\* The gate opens when the evidence stands or is waived: then only the breaker
\* and a HEAVY phase refuse an action on free ground, and of the REPL, code that
\* neither reads nor runs a command.
OpensWhenEarned ==
  [][LET c == last'.call
     IN /\ /\ Unlocked /\ Clean(c) /\ ~last'.refused
           /\ ~(Grade = "HEAVY" /\ (c.kind = "write" \/ McpForced(c)) /\ HeavyRefuses(c))
           /\ ~(c.kind = "repl" /\ c.cmds = <<>> /\ ~c.reads)
           => Passed(last'.ans)
        /\ ReadsFree']_<<last, row>>
=============================================================================
