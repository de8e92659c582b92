---------------------------- MODULE PretoolBlock ----------------------------
(* How a refusal of the PreToolUse hook is told.  The hooks of a parallel tool *)
(* batch refuse at once; the ledger counts each refusal by its signature, so   *)
(* that one of them is told in full, and remembers that the unlock lines went  *)
(* out.  The two locked sections of a refusal race with writers that take no   *)
(* lock: the next prompt and the notice of a gate that cleared.                *)
EXTENDS Naturals, FiniteSets

CONSTANTS Blocks,       \* hook processes that refuse a call
          Sigs,         \* signatures: kind and detail of the refusal
          Hosts,        \* "claude" (no turn id, a reason always), "codex" (turn id), "other"
          Text,         \* Text[n]: the text of prompt n; its hash names the task
          NoEpoch, Nobody, MaxRepeat

ASSUME BlockConstants ==
  /\ 1 \in DOMAIN Text /\ DOMAIN Text \subseteq Nat /\ MaxRepeat \in Nat
  /\ Nobody \notin Blocks

VARIABLES host, prompt, ledger, lock,
          blk,                          \* a refusal under way: progress and its own copies
          rival,                        \* a writer without the lock: its loaded copy
          told, owed, marked, clash \* what happened since the prompt: see the properties
vars == <<host, prompt, ledger, lock, blk, rival, told, owed, marked, clash>>

NoCounts == [s \in Sigs |-> 0]
NoCopy == [epoch |-> NoEpoch, counts |-> NoCounts, footer |-> NoEpoch, last |-> FALSE]
\* The turn of the payload, else the prompt that runs.
EpochNow(t) == IF host = "codex" THEN t ELSE Text[prompt]
\* The epoch of a refusal is worked out anew each time its ledger is loaded.
EpochOf(b) == EpochNow(blk[b].turn)
\* `knew`: the unlock lines had been marked when the refusal began.
Idle == [pc |-> "idle", sig |-> "", turn |-> 1, lines |-> FALSE, knew |-> FALSE,
         copy |-> NoCopy, out |-> "none"]

Init ==
  /\ host \in Hosts /\ prompt = 1
  /\ ledger = NoCopy /\ lock = Nobody
  /\ blk = [b \in Blocks |-> Idle] /\ rival = NoCopy
  /\ told = {} /\ owed = {} /\ marked = FALSE /\ clash = FALSE

\* block_context and the format_* functions: the unlock lines go into the
\* message unless this epoch has seen them.
Refuse(b, s) ==
  /\ blk[b].pc = "idle"
  /\ blk' = [blk EXCEPT ![b] = [Idle EXCEPT !.pc = "refused", !.sig = s, !.turn = prompt, !.knew = marked,
                                           !.lines = ledger.footer # EpochNow(prompt)]]
  /\ UNCHANGED <<host, prompt, ledger, lock, rival, told, owed, marked, clash>>

\* The two locked sections: to count the refusal, to mark what was said.
Section(b) == CASE blk[b].pc = "refused" -> "counting" [] blk[b].pc = "telling" -> "marking"
\* Faulty variant: the ledger is loaded without the lock.
LoadUnlocked(b) ==
  /\ blk[b].pc \in {"refused", "telling"}
  /\ blk' = [blk EXCEPT ![b].copy = ledger, ![b].pc = Section(b)]
  /\ UNCHANGED <<host, prompt, ledger, lock, rival, told, owed, marked, clash>>
Load(b) ==
  /\ blk[b].pc \in {"refused", "telling"} /\ lock = Nobody /\ lock' = b
  /\ blk' = [blk EXCEPT ![b].copy = ledger, ![b].pc = Section(b)]
  /\ UNCHANGED <<host, prompt, ledger, rival, told, owed, marked, clash>>

\* Faulty variant: every refusal clears the footer marks, not the first of an epoch.
CountedAnew(l, e, s) ==
  [l EXCEPT !.epoch = e, !.footer = NoEpoch, !.last = TRUE,
            !.counts = [(IF l.epoch = e THEN l.counts ELSE NoCounts) EXCEPT ![s] = @ + 1]]
\* The first refusal of an epoch resets counts and marks.
Counted(l, e, s) ==
  [l EXCEPT !.epoch = e, !.last = TRUE,
            !.footer = IF l.epoch = e THEN @ ELSE NoEpoch,
            !.counts = [(IF l.epoch = e THEN l.counts ELSE NoCounts) EXCEPT ![s] = @ + 1]]
\* The first of a signature is told, without the unlock lines when this epoch
\* has seen them; a repeat gets its headline where no turn id scopes it.
Told(l, e, n) ==
  IF n = 1 THEN IF l.epoch = e /\ l.footer = e THEN "compact" ELSE "full"
  ELSE IF host = "codex" THEN "silent" ELSE "headline"
Explains(b) == blk[b].out \in {"full", "compact"} /\ blk[b].turn = prompt
Save(b) ==
  LET e == EpochOf(b)
      s == blk[b].sig
      l == Counted(blk[b].copy, e, s)
      out == Told(blk[b].copy, e, l.counts[s])
  IN /\ blk[b].pc = "counting" /\ l.counts[s] <= MaxRepeat
     /\ ledger' = l /\ lock' = Nobody
     /\ blk' = [blk EXCEPT ![b].out = out, ![b].lines = @ /\ out = "full",
                           ![b].copy = NoCopy, ![b].pc = "say"]
     /\ owed' = IF out \in {"full", "compact"} /\ blk[b].turn = prompt THEN owed \cup {s} ELSE owed
     /\ clash' = (clash \/ blk[b].turn # prompt)
     /\ UNCHANGED <<host, prompt, rival, told, marked>>
\* Print, or write the deny JSON; a refusal that said nothing marks nothing.
Say(b) ==
  /\ blk[b].pc = "say"
  /\ told' = IF Explains(b) THEN told \cup {blk[b].sig} ELSE told
  /\ blk' = IF blk[b].out = "silent" THEN [blk EXCEPT ![b] = Idle] ELSE [blk EXCEPT ![b].pc = "telling"]
  /\ UNCHANGED <<host, prompt, ledger, lock, rival, owed, marked, clash>>
Mark(b) ==
  /\ blk[b].pc = "marking"
  /\ ledger' = IF blk[b].lines THEN [blk[b].copy EXCEPT !.footer = EpochOf(b)] ELSE blk[b].copy
  /\ marked' = (marked \/ (blk[b].lines /\ blk[b].turn = prompt))
  /\ lock' = Nobody /\ blk' = [blk EXCEPT ![b] = Idle]
  /\ clash' = (clash \/ blk[b].turn # prompt)
  /\ UNCHANGED <<host, prompt, rival, told, owed>>
\* The host's hook timeout.  The kernel drops the lock.
Killed(b) ==
  /\ blk[b].pc # "idle" /\ blk' = [blk EXCEPT ![b] = Idle]
  /\ lock' = (IF lock = b THEN Nobody ELSE lock)
  /\ UNCHANGED <<host, prompt, ledger, rival, told, owed, marked, clash>>

----------------------------------------------------------------------------
\* consume_gate_cleared_notify: load, drop the record of the last block, save.
ClearLoads ==
  /\ rival = NoCopy /\ ledger.last
  /\ rival' = ledger
  /\ UNCHANGED <<host, prompt, ledger, lock, blk, told, owed, marked, clash>>
ClearSaves ==
  /\ rival # NoCopy
  /\ ledger' = [rival EXCEPT !.last = FALSE] /\ rival' = NoCopy
  /\ clash' = (clash \/ rival # ledger \/ lock # Nobody)
  /\ UNCHANGED <<host, prompt, lock, blk, told, owed, marked>>
\* Faulty variant: the prompt hook leaves the counts of the last prompt.
PromptKeepsCounts(n) ==
  /\ n = prompt + 1 /\ prompt' = n /\ UNCHANGED ledger
  /\ told' = {} /\ owed' = {} /\ marked' = FALSE
  /\ clash' = (clash \/ lock # Nobody)
  /\ UNCHANGED <<host, lock, blk, rival>>
\* gate_prompt: a new prompt starts counting anew, the footer mark stays.
Prompt(n) ==
  /\ n = prompt + 1 /\ prompt' = n
  /\ ledger' = [ledger EXCEPT !.epoch = NoEpoch, !.counts = NoCounts]
  /\ told' = {} /\ owed' = {} /\ marked' = FALSE
  /\ clash' = (clash \/ lock # Nobody)
  /\ UNCHANGED <<host, lock, blk, rival>>

Next ==
  \/ \E b \in Blocks :
       \/ \E s \in Sigs : Refuse(b, s)
       \/ Load(b) \/ Save(b) \/ Say(b) \/ Mark(b) \/ Killed(b)
  \/ ClearLoads \/ ClearSaves
  \/ \E n \in DOMAIN Text : Prompt(n)
Spec == Init /\ [][Next]_vars

----------------------------------------------------------------------------
\* What must hold until an unlocked writer overlaps another, or a hook outlives
\* its prompt (clash).

\* A refusal that repeats another without saying why repeats one that was told
\* since the prompt, or is being told, or whose hook died telling it.
RepeatsExplained ==
  \A b \in Blocks :
    blk[b].pc = "say" /\ blk[b].out \in {"silent", "headline"} /\ blk[b].turn = prompt /\ ~clash
      => blk[b].sig \in told \cup owed
\* In a parallel batch one refusal of a signature is told in full, not each.
ToldOnce ==
  \A b \in Blocks :
    blk[b].pc = "say" /\ Explains(b) /\ ~clash
      => /\ blk[b].sig \notin told
         /\ \A c \in Blocks \ {b} : blk[c].pc = "say" /\ Explains(c) => blk[c].sig # blk[b].sig
\* A refusal that began after the unlock lines were marked does not repeat them.
UnlockLinesOnce ==
  \A b \in Blocks :
    blk[b].pc = "say" /\ blk[b].lines /\ blk[b].turn = prompt /\ blk[b].knew => clash
\* The agent learns why it was refused, and learns it once.
RefusalsTold == RepeatsExplained /\ ToldOnce /\ UnlockLinesOnce
=============================================================================
