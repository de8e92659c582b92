------------------------------ MODULE MCHooks ------------------------------
(* Small instances of what the hooks do within a call: the answer of the gate, *)
(* how a refusal is told, the prompt hook, and the two halves of the post-tool *)
(* hook.  They share no state that these models have, so one of them moves in  *)
(* each behaviour; `part` says which.                                          *)
EXTENDS PreToolGate, PretoolBlock, PromptHook, PostTool, TLC

CONSTANTS b2, sb, ka, kb, h1, h2, j1, j2

----------------------------------------------------------------------------
\* PreToolGate: commands of each class, calls of each kind, boards of each phase.
Cmd(id, research, mutating, sets, place) ==
  [id |-> id, research |-> research, mutating |-> mutating, env |-> sets, place |-> place]
rg == Cmd("rg", TRUE, FALSE, FALSE, "free")
cp == Cmd("cp", FALSE, TRUE, FALSE, "free")
mv == Cmd("mv", FALSE, TRUE, FALSE, "free")
py == Cmd("py", FALSE, FALSE, FALSE, "free")
rm == Cmd("rm", FALSE, TRUE, FALSE, "protected")
dev == Cmd("dev", FALSE, FALSE, TRUE, "free")
\* A search for the word "rm" under the store: research that reads like a mutation.
look == Cmd("look", TRUE, TRUE, FALSE, "protected")
C(kind, name, targets, cmds) ==
  [kind |-> kind, name |-> name, targets |-> targets, cmds |-> cmds,
   reads |-> FALSE, readlike |-> FALSE, payload |-> FALSE]
MCCalls ==
  {C("write", "Edit", <<"free">>, <<>>), C("write", "Edit", <<"primary">>, <<>>),
   C("write", "apply_patch", <<"free", "protected">>, <<>>), C("write", "apply_patch", <<"free", "primary">>, <<>>),
   C("mcp", "mcp__put", <<"free">>, <<>>), [C("mcp", "mcp__get", <<>>, <<>>) EXCEPT !.readlike = TRUE],
   [C("mcp", "mcp__query", <<"free">>, <<>>) EXCEPT !.readlike = TRUE, !.payload = TRUE],
   C("delegate", "Task", <<>>, <<>>), C("other", "TodoWrite", <<>>, <<>>),
   C("repl", "REPL", <<>>, <<>>), [C("repl", "REPL", <<>>, <<>>) EXCEPT !.reads = TRUE],
   C("repl", "REPL", <<>>, <<rg, cp>>), C("repl", "REPL", <<>>, <<cp, mv>>)}
  \cup {C("shell", "Bash", <<>>, <<cmd>>) : cmd \in {rg, cp, mv, py, rm, dev, look}}
Board == [restated |-> FALSE, tasks |-> FALSE, frontiers |-> 0, primary |-> FALSE, context |-> FALSE,
          art |-> FALSE, work |-> "code", outcome |-> "open", profile |-> "code"]
Stated == [Board EXCEPT !.restated = TRUE, !.tasks = TRUE]
Cited == [Stated EXCEPT !.context = TRUE, !.art = TRUE]
Heavy == [Cited EXCEPT !.frontiers = 2, !.primary = TRUE]
MCSpecs == {NoSpec, Board, Stated, Cited, [Stated EXCEPT !.work = "branch"],
          [Stated EXCEPT !.work = "upkeep", !.context = TRUE], [Stated EXCEPT !.profile = "operational"],
          Heavy, [Heavy EXCEPT !.outcome = "adopted"], [Heavy EXCEPT !.outcome = "rejected"]}
MCScopes == {NoScope, [allow |-> {}, deny |-> {"Edit", "Bash"}], [allow |-> {"Read"}, deny |-> {}]}
MCVerdicts == {[mode |-> "quick", profile |-> "code"], [mode |-> "normal", profile |-> "code"],
             [mode |-> "deep", profile |-> "code"], [mode |-> "deep", profile |-> "operational"]}

----------------------------------------------------------------------------
\* PretoolBlock: two parallel refusals, two signatures, one text said twice.
MCText == <<"t1", "t1">>

----------------------------------------------------------------------------
\* PromptHook: two packs of which one fits, prompts of each mode.
Says(text, packs, mode, profile, effort, plan) ==
  [text |-> text, packs |-> packs, mode |-> mode, profile |-> profile, effort |-> effort, plan |-> plan]
MCPrompts == {Says("t1", <<ka, kb>>, "deep", "code", FALSE, FALSE),
              Says("t2", <<kb>>, "normal", "code", TRUE, FALSE),
              Says("t3", <<>>, "quick", "code", FALSE, TRUE),
              Says("t4", <<ka>>, "deep", "operational", FALSE, TRUE)}

----------------------------------------------------------------------------
\* PostTool: two hooks and two jobs, two titles of which a judge may find each, or
\* both, or one twice.
MCAnswers == {<<>>, <<"x">>, <<"y">>, <<"x", "y">>, <<"y", "x">>, <<"x", "x">>}

----------------------------------------------------------------------------
VARIABLE part
Parts == {"gate", "block", "prompt", "judge", "tell"}

allVars == <<part, gateVars, vars, promptVars, toolVars>>

MCInit ==
  /\ part \in Parts
  /\ GateInit /\ (part # "gate" => gateHost = "claude")
             /\ (env # "unset" => part = "gate" /\ gateHost = "claude")
  /\ Init /\ (part # "block" => host = "claude")
  /\ PromptInit /\ (part # "prompt" => ~started)
  /\ ToolInit
\* A block told while writers without the lock overlap is a clash, after which
\* its properties say nothing; so its behaviours end there.  One of the two
\* hooks refuses for one reason only: twice the states would show no more.
MCNext ==
  /\ UNCHANGED part
  /\ \/ part = "gate" /\ GateNext /\ UNCHANGED <<vars, promptVars, toolVars>>
     \/ part = "block" /\ ~clash /\ Next /\ blk'[b2].sig # sb /\ UNCHANGED <<gateVars, promptVars, toolVars>>
     \/ part = "prompt" /\ PromptNext /\ UNCHANGED <<gateVars, vars, toolVars>>
     \/ part = "judge" /\ JudgeNext /\ UNCHANGED <<gateVars, vars, promptVars>>
     \/ part = "tell" /\ ~overlap /\ TellNext /\ UNCHANGED <<gateVars, vars, promptVars>>
MCSpec == MCInit /\ [][MCNext]_allVars

\* Nothing tells one post-tool hook, or one of its jobs, from the other.
MCSymmetry == Permutations(Hooks) \cup Permutations(Jobs)
=============================================================================
