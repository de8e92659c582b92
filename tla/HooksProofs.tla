----------------------------- MODULE HooksProofs -----------------------------
(***************************************************************************)
(* What the hooks do within a call, for any number of them.  PreToolGate:  *)
(* what may change the workspace passes only when it was earned.           *)
(* PretoolBlock: a refusal that says less repeats one that was told.       *)
(* PromptHook: the texts of a session are told once, and the instructions  *)
(* come with what stands in for them.  PostTool: the hooks of a batch have *)
(* the turn judged once and tell a text once, and the jobs' answers leave  *)
(* the board sound.                                                        *)
(***************************************************************************)
EXTENDS PreToolGate, PretoolBlock, PromptHook, PostTool, FiniteSetTheorems, TLAPS

----------------------------------------------------------------------------
(* PretoolBlock: how a refusal is told, for any hooks, signatures, hosts and *)
(* prompts.                                                                *)

Epochs == {NoEpoch} \cup Nat \cup {Text[n] : n \in DOMAIN Text}
Ledger == [epoch : Epochs, counts : [Sigs -> Nat], footer : Epochs, last : BOOLEAN]
Refusal ==
  [pc : {"idle", "refused", "counting", "say", "telling", "marking"}, sig : Sigs \cup {""},
   turn : Nat, lines : BOOLEAN, knew : BOOLEAN, copy : Ledger,
   out : {"none", "full", "compact", "silent", "headline"}]

Types ==
  /\ prompt \in DOMAIN Text /\ 1 <= prompt
  /\ ledger \in Ledger /\ rival \in Ledger
  /\ blk \in [Blocks -> Refusal]
  /\ \A b \in Blocks : blk[b].turn <= prompt /\ (blk[b].pc # "idle" => blk[b].sig \in Sigs)
  /\ clash \in BOOLEAN /\ marked \in BOOLEAN

(***************************************************************************)
(* The epoch of the prompt that runs, and the signatures counted in it.    *)
(***************************************************************************)
Now == EpochNow(prompt)
CountedNow == {s \in Sigs : ledger.epoch = Now /\ ledger.counts[s] # 0}

(* A locked section is alone, and as long as no unlocked writer overlaps   *)
(* it, it works on the stored ledger.                                      *)
Locked ==
  \A b \in Blocks :
    blk[b].pc \in {"counting", "marking"} => lock = b /\ (~clash => blk[b].copy = ledger)

Said(b) == blk[b].pc \in {"say", "telling", "marking"} /\ blk[b].turn = prompt

(* What is owed to the agent, told or not, is what was counted in this     *)
(* epoch; so the first to count a signature is the one to tell it.         *)
Accounts ==
  ~clash =>
    /\ owed = CountedNow /\ told \subseteq owed
    /\ \A b \in Blocks : Said(b) => ledger.epoch = Now /\ blk[b].sig \in owed
    /\ \A b \in Blocks : blk[b].pc = "say" /\ Explains(b) =>
         /\ blk[b].sig \notin told
         /\ \A c \in Blocks \ {b} : blk[c].pc = "say" /\ Explains(c) => blk[c].sig # blk[b].sig

(* The unlock lines were marked in the epoch that is counted, so that the  *)
(* next refusal does not clear the mark, and one that begins sees it.      *)
Lines ==
  /\ ~clash /\ marked => ledger.epoch = Now /\ ledger.footer = Now
  /\ \A b \in Blocks : blk[b].knew /\ blk[b].lines => clash

BlockInv == Types /\ Locked /\ Accounts /\ Lines

LEMMA NoCopyTyped == NoCopy \in Ledger /\ \A s \in Sigs : NoCopy.counts[s] = 0
BY DEF NoCopy, Ledger, Epochs, NoCounts

LEMMA IdleTyped ==
  /\ Idle \in Refusal /\ Idle.pc = "idle" /\ Idle.turn = 1 /\ ~Idle.lines /\ ~Idle.knew
BY NoCopyTyped DEF Idle, Refusal

LEMMA NowTyped == ASSUME Types PROVE Now \in Epochs
BY BlockConstants DEF Types, Now, EpochNow, Epochs

LEMMA AccountsKept ==
  ASSUME Accounts, ~clash' => ~clash /\ owed' = owed /\ told' = told,
         ~clash' => Now' = Now /\ CountedNow' = CountedNow /\ ledger'.epoch = ledger.epoch,
         \A b \in Blocks : Said(b)' => Said(b) /\ blk'[b].sig = blk[b].sig,
         \A b \in Blocks : blk'[b].pc = "say" /\ Explains(b)' =>
                             blk[b].pc = "say" /\ Explains(b) /\ blk'[b].sig = blk[b].sig
  PROVE  Accounts'
<1> SUFFICES ASSUME ~clash'
             PROVE  /\ owed' = CountedNow' /\ told' \subseteq owed'
                    /\ \A b \in Blocks : Said(b)' => ledger'.epoch = Now' /\ blk'[b].sig \in owed'
                    /\ \A b \in Blocks : blk'[b].pc = "say" /\ Explains(b)' =>
                         /\ blk'[b].sig \notin told'
                         /\ \A c \in Blocks \ {b} : blk'[c].pc = "say" /\ Explains(c)' => blk'[c].sig # blk'[b].sig
  BY DEF Accounts
<1>1. owed' = CountedNow' /\ told' \subseteq owed'
  BY DEF Accounts
<1>2. ASSUME NEW b \in Blocks, Said(b)' PROVE ledger'.epoch = Now' /\ blk'[b].sig \in owed'
  BY <1>2 DEF Accounts
<1>3. ASSUME NEW b \in Blocks, blk'[b].pc = "say" /\ Explains(b)'
      PROVE  /\ blk'[b].sig \notin told'
             /\ \A c \in Blocks \ {b} : blk'[c].pc = "say" /\ Explains(c)' => blk'[c].sig # blk'[b].sig
  BY <1>3 DEF Accounts
<1> QED BY <1>1, <1>2, <1>3

LEMMA Started == Init => BlockInv
<1> SUFFICES ASSUME Init PROVE BlockInv
  OBVIOUS
<1>1. \A b \in Blocks : blk[b] = Idle
  BY DEF Init
<1>2. Types
  <2>1. blk \in [Blocks -> Refusal]
    BY IdleTyped DEF Init
  <2>2. ledger \in Ledger /\ rival \in Ledger /\ clash \in BOOLEAN /\ marked \in BOOLEAN
    BY NoCopyTyped DEF Init
  <2>3. prompt \in DOMAIN Text /\ prompt = 1
    BY BlockConstants DEF Init
  <2>4. \A b \in Blocks : blk[b].turn <= prompt /\ blk[b].pc = "idle"
    BY <1>1, <2>3, IdleTyped
  <2> QED BY <2>1, <2>2, <2>3, <2>4 DEF Types
<1>3. Locked /\ Lines
  BY <1>1, IdleTyped DEF Init, Locked, Lines
<1>4. CountedNow = {}
  BY NoCopyTyped DEF Init, CountedNow
<1>5. Accounts
  BY <1>1, <1>4, IdleTyped DEF Init, Accounts, Said
<1> QED BY <1>2, <1>3, <1>5 DEF BlockInv

(***************************************************************************)
(* The steps of a refusal.                                                 *)
(***************************************************************************)
LEMMA RefuseKeeps ==
  ASSUME BlockInv, NEW b \in Blocks, NEW s \in Sigs, Refuse(b, s)
  PROVE  BlockInv'
<1>0. Types /\ Locked /\ Accounts /\ Lines
  BY DEF BlockInv
<1> DEFINE new == [Idle EXCEPT !.pc = "refused", !.sig = s, !.turn = prompt, !.knew = marked,
                               !.lines = ledger.footer # EpochNow(prompt)]
<1>1. blk' = [blk EXCEPT ![b] = new] /\ UNCHANGED <<host, prompt, ledger, lock, rival, told, owed, marked, clash>>
  BY DEF Refuse
<1>2. /\ new \in Refusal /\ new.pc = "refused" /\ new.sig = s /\ new.turn = prompt /\ new.knew = marked
      /\ new.lines = (ledger.footer # Now)
  BY <1>0, IdleTyped, BlockConstants DEF Refusal, Types, Now
<1> HIDE DEF new
<1>3. blk'[b] = new /\ \A c \in Blocks \ {b} : blk'[c] = blk[c]
  BY <1>0, <1>1 DEF Types
<1>4. Types'
  BY <1>0, <1>1, <1>2, <1>3, BlockConstants DEF Types
<1>5. Now' = Now /\ CountedNow' = CountedNow
  BY <1>1 DEF Now, EpochNow, CountedNow
<1>6. Locked'
  BY <1>0, <1>1, <1>2, <1>3 DEF Locked
<1>7. Accounts'
  BY <1>0, <1>1, <1>2, <1>3, <1>5 DEF Accounts, Said, Explains
<1>8. Lines'
  BY <1>0, <1>1, <1>2, <1>3, <1>5 DEF Lines, Types
<1> QED BY <1>4, <1>6, <1>7, <1>8 DEF BlockInv

LEMMA LoadKeeps ==
  ASSUME BlockInv, NEW b \in Blocks, Load(b)
  PROVE  BlockInv'
<1>0. Types /\ Locked /\ Accounts /\ Lines
  BY DEF BlockInv
<1>1. /\ blk' = [blk EXCEPT ![b].copy = ledger, ![b].pc = Section(b)] /\ lock' = b /\ lock = Nobody
      /\ blk[b].pc \in {"refused", "telling"}
      /\ UNCHANGED <<host, prompt, ledger, rival, told, owed, marked, clash>>
  BY DEF Load
<1>2. Section(b) = IF blk[b].pc = "refused" THEN "counting" ELSE "marking"
  BY <1>1 DEF Section
<1>3. /\ blk'[b] \in Refusal /\ blk'[b].copy = ledger /\ blk'[b].pc = Section(b) /\ blk'[b].sig = blk[b].sig
      /\ blk'[b].turn = blk[b].turn /\ blk'[b].out = blk[b].out
      /\ blk'[b].knew = blk[b].knew /\ blk'[b].lines = blk[b].lines
      /\ \A c \in Blocks \ {b} : blk'[c] = blk[c]
  BY <1>0, <1>1, <1>2 DEF Types, Refusal
<1>4. Types'
  <2>1. blk' \in [Blocks -> Refusal]
    BY <1>0, <1>1, <1>3 DEF Types
  <2> QED BY <1>0, <1>1, <1>3, <2>1 DEF Types
<1>5. Now' = Now /\ CountedNow' = CountedNow
  BY <1>1 DEF Now, EpochNow, CountedNow
<1>6. Locked'
  BY <1>0, <1>1, <1>3, BlockConstants DEF Locked
<1>7. Said(b)' => Said(b)
  BY <1>1, <1>2, <1>3 DEF Said
<1>8. blk'[b].pc # "say"
  BY <1>2, <1>3
<1>9. Accounts'
  <2>1. \A c \in Blocks : Said(c)' => Said(c) /\ blk'[c].sig = blk[c].sig
    BY <1>1, <1>3, <1>7 DEF Said
  <2>2. \A c \in Blocks : blk'[c].pc = "say" /\ Explains(c)' =>
                           blk[c].pc = "say" /\ Explains(c) /\ blk'[c].sig = blk[c].sig
    BY <1>1, <1>3, <1>8 DEF Explains
  <2> QED BY <1>0, <1>1, <1>5, <2>1, <2>2, AccountsKept
<1>10. Lines'
  BY <1>0, <1>1, <1>3, <1>5 DEF Lines
<1> QED BY <1>4, <1>6, <1>9, <1>10 DEF BlockInv

(* What counting does to a ledger.                                         *)
LEMMA CountedDoes ==
  ASSUME NEW l \in Ledger, NEW e \in Epochs, NEW s \in Sigs
  PROVE  LET n == Counted(l, e, s)
             before(t) == IF l.epoch = e THEN l.counts[t] ELSE 0 IN
         /\ n \in Ledger /\ n.epoch = e
         /\ n.footer = (IF l.epoch = e THEN l.footer ELSE NoEpoch)
         /\ \A t \in Sigs : n.counts[t] = before(t) + (IF t = s THEN 1 ELSE 0)
         /\ \A t \in Sigs : before(t) \in Nat
<1> DEFINE was == IF l.epoch = e THEN l.counts ELSE NoCounts
           foot == IF l.epoch = e THEN l.footer ELSE NoEpoch
           cnt == [was EXCEPT ![s] = @ + 1]
<1>1. was \in [Sigs -> Nat] /\ \A t \in Sigs : was[t] = IF l.epoch = e THEN l.counts[t] ELSE 0
  BY DEF Ledger, NoCounts
<1>2. Counted(l, e, s) = [l EXCEPT !.epoch = e, !.last = TRUE, !.footer = foot, !.counts = cnt]
  BY DEF Counted, Ledger
<1> HIDE DEF was
<1>3. cnt \in [Sigs -> Nat] /\ \A t \in Sigs : cnt[t] = was[t] + (IF t = s THEN 1 ELSE 0)
  BY <1>1
<1>4. foot \in Epochs
  BY DEF Ledger, Epochs
<1> HIDE DEF cnt
<1>5. Counted(l, e, s) \in Ledger /\ Counted(l, e, s).epoch = e /\ Counted(l, e, s).footer = foot
      /\ Counted(l, e, s).counts = cnt
  BY <1>2, <1>3, <1>4 DEF Ledger
<1> QED BY <1>1, <1>3, <1>5

(* The first of a signature counts it, and tells it.                       *)
LEMMA SaveKeeps ==
  ASSUME BlockInv, NEW b \in Blocks, Save(b)
  PROVE  BlockInv'
<1>0. Types /\ Locked /\ Accounts /\ Lines
  BY DEF BlockInv
<1> DEFINE e == EpochOf(b)
           s == blk[b].sig
           copy == blk[b].copy
           l == Counted(copy, e, s)
           out == Told(copy, e, l.counts[s])
<1>1. /\ blk[b].pc = "counting" /\ ledger' = l /\ lock' = Nobody
      /\ blk' = [blk EXCEPT ![b].out = out, ![b].lines = @ /\ out = "full", ![b].copy = NoCopy, ![b].pc = "say"]
      /\ owed' = IF out \in {"full", "compact"} /\ blk[b].turn = prompt THEN owed \cup {s} ELSE owed
      /\ clash' = (clash \/ blk[b].turn # prompt)
      /\ UNCHANGED <<host, prompt, rival, told, marked>>
  BY DEF Save
<1>2. copy \in Ledger /\ s \in Sigs /\ blk[b].turn \in Nat /\ blk[b].turn <= prompt
  BY <1>0, <1>1 DEF Types, Refusal
<1>3. blk[b].turn = prompt => e = Now
  BY DEF EpochOf, EpochNow, Now
<1>4. e \in Epochs
  BY <1>0, <1>2, NowTyped DEF EpochOf, EpochNow, Now, Epochs, Types
<1>5. /\ l \in Ledger /\ l.epoch = e
      /\ l.footer = (IF copy.epoch = e THEN copy.footer ELSE NoEpoch)
      /\ \A t \in Sigs : /\ (IF copy.epoch = e THEN copy.counts[t] ELSE 0) \in Nat
                         /\ l.counts[t] = (IF copy.epoch = e THEN copy.counts[t] ELSE 0) + (IF t = s THEN 1 ELSE 0)
  BY <1>2, <1>4, CountedDoes
<1>6. /\ out \in {"full", "compact", "silent", "headline"}
      /\ out \in {"full", "compact"} <=> l.counts[s] = 1
  BY DEF Told
<1> HIDE DEF e, s, copy, l, out
<1>7. /\ blk'[b] \in Refusal /\ blk'[b].out = out /\ blk'[b].pc = "say" /\ blk'[b].sig = s
      /\ blk'[b].turn = blk[b].turn
      /\ blk'[b].knew = blk[b].knew /\ (blk'[b].lines => blk[b].lines)
      /\ \A c \in Blocks \ {b} : blk'[c] = blk[c]
  <2>1. blk[b] \in Refusal /\ b \in DOMAIN blk
    BY <1>0 DEF Types
  <2>2. blk'[b] = [blk[b] EXCEPT !.out = out, !.lines = @ /\ out = "full", !.copy = NoCopy, !.pc = "say"]
    BY <1>1, <2>1
  <2>3. (blk[b].lines /\ out = "full") \in BOOLEAN
    OBVIOUS
  <2>4. \A c \in Blocks \ {b} : blk'[c] = blk[c]
    BY <1>0, <1>1 DEF Types
  <2> QED BY <1>6, <2>1, <2>2, <2>3, <2>4, NoCopyTyped DEF Refusal, s
<1>8. Types'
  <2>1. blk' \in [Blocks -> Refusal]
    BY <1>0, <1>1, <1>7 DEF Types
  <2> QED BY <1>0, <1>1, <1>2, <1>5, <1>7, <2>1 DEF Types
<1>9. Locked'
  <2>1. lock = b /\ \A c \in Blocks \ {b} : blk[c].pc \notin {"counting", "marking"}
    BY <1>0, <1>1 DEF Locked
  <2> QED BY <1>7, <2>1 DEF Locked
<1>10. Now' = Now
  BY <1>1 DEF Now, EpochNow
<1>11. ASSUME ~clash'
       PROVE  /\ ~clash /\ blk[b].turn = prompt /\ copy = ledger /\ e = Now
              /\ ledger.epoch = e \/ owed = {}
  <2>1. ~clash /\ blk[b].turn = prompt
    BY <1>1, <1>11
  <2>2. copy = ledger
    BY <1>0, <1>1, <2>1 DEF Locked, copy
  <2>3. owed = CountedNow
    BY <1>0, <2>1 DEF Accounts
  <2> QED BY <1>3, <2>1, <2>2, <2>3 DEF CountedNow
<1>12. Accounts'
  <2> SUFFICES ASSUME ~clash'
               PROVE  /\ owed' = CountedNow' /\ told' \subseteq owed'
                      /\ \A c \in Blocks : Said(c)' => ledger'.epoch = Now' /\ blk'[c].sig \in owed'
                      /\ \A c \in Blocks : blk'[c].pc = "say" /\ Explains(c)' =>
                           /\ blk'[c].sig \notin told'
                           /\ \A d \in Blocks \ {c} : blk'[d].pc = "say" /\ Explains(d)' => blk'[d].sig # blk'[c].sig
    BY DEF Accounts
  <2>1. ~clash /\ blk[b].turn = prompt /\ copy = ledger /\ e = Now /\ owed = CountedNow /\ told \subseteq owed
    BY <1>0, <1>11 DEF Accounts
  <2>2. CountedNow' = CountedNow \cup {s}
    <3>1. CountedNow' = {t \in Sigs : l.counts[t] # 0}
      BY <1>1, <1>5, <1>10, <2>1 DEF CountedNow
    <3>2. CountedNow = {t \in Sigs : (IF copy.epoch = e THEN copy.counts[t] ELSE 0) # 0}
      BY <2>1 DEF CountedNow
    <3>3. \A t \in Sigs : l.counts[t] # 0 <=> (IF copy.epoch = e THEN copy.counts[t] ELSE 0) # 0 \/ t = s
      BY <1>5
    <3> QED BY <1>2, <3>1, <3>2, <3>3
  <2>3. l.counts[s] = 1 <=> s \notin CountedNow
    <3>1. s \in CountedNow <=> (IF copy.epoch = e THEN copy.counts[s] ELSE 0) # 0
      BY <1>2, <2>1 DEF CountedNow
    <3> QED BY <1>2, <1>5, <3>1
  <2>4. owed' = CountedNow' /\ told' \subseteq owed' /\ owed \subseteq owed' /\ s \in owed'
    BY <1>1, <1>6, <2>1, <2>2, <2>3
  <2>5. \A c \in Blocks : Said(c)' => ledger'.epoch = Now' /\ blk'[c].sig \in owed'
    <3>1. ledger'.epoch = Now' /\ blk'[b].sig \in owed'
      BY <1>1, <1>5, <1>7, <1>10, <2>1, <2>4
    <3>2. \A c \in Blocks \ {b} : Said(c)' => Said(c) /\ blk'[c].sig = blk[c].sig
      BY <1>1, <1>7 DEF Said
    <3>3. \A c \in Blocks : Said(c) => blk[c].sig \in owed
      BY <1>0, <2>1 DEF Accounts
    <3> QED BY <2>4, <3>1, <3>2, <3>3
  <2>6. Explains(b)' => s \notin owed
    BY <1>6, <1>7, <2>1, <2>3 DEF Explains
  <2>7. \A c \in Blocks \ {b} : blk'[c].pc = "say" /\ Explains(c)' => 
          blk[c].pc = "say" /\ Explains(c) /\ blk'[c].sig = blk[c].sig /\ blk[c].sig \in owed
    <3>1. \A c \in Blocks \ {b} : blk'[c].pc = "say" /\ Explains(c)' => blk[c].pc = "say" /\ Explains(c) /\ Said(c)
      BY <1>1, <1>7 DEF Explains, Said
    <3>2. \A c \in Blocks : Said(c) => blk[c].sig \in owed
      BY <1>0, <2>1 DEF Accounts
    <3> QED BY <1>7, <3>1, <3>2
  <2>8. \A c \in Blocks : blk'[c].pc = "say" /\ Explains(c)' =>
          /\ blk'[c].sig \notin told'
          /\ \A d \in Blocks \ {c} : blk'[d].pc = "say" /\ Explains(d)' => blk'[d].sig # blk'[c].sig
    <3>1. \A c \in Blocks : blk[c].pc = "say" /\ Explains(c) =>
            /\ blk[c].sig \notin told
            /\ \A d \in Blocks \ {c} : blk[d].pc = "say" /\ Explains(d) => blk[d].sig # blk[c].sig
      BY <1>0, <2>1 DEF Accounts
    <3>2. ASSUME Explains(b)'
          PROVE  /\ s \notin told
                 /\ \A d \in Blocks \ {b} : blk'[d].pc = "say" /\ Explains(d)' => blk'[d].sig # s
      BY <2>1, <2>6, <2>7, <3>2
    <3>3. ASSUME NEW c \in Blocks \ {b}, blk'[c].pc = "say" /\ Explains(c)'
          PROVE  /\ blk'[c].sig \notin told
                 /\ \A d \in Blocks \ {c} : blk'[d].pc = "say" /\ Explains(d)' => blk'[d].sig # blk'[c].sig
      <4>1. blk[c].pc = "say" /\ Explains(c) /\ blk'[c].sig = blk[c].sig /\ blk[c].sig \in owed
        BY <2>7, <3>3
      <4>2. ASSUME NEW d \in Blocks \ {c}, blk'[d].pc = "say" /\ Explains(d)' PROVE blk'[d].sig # blk'[c].sig
        <5>1. CASE d = b
          BY <1>7, <2>6, <4>1, <4>2, <5>1
        <5>2. CASE d # b
          BY <2>7, <3>1, <4>1, <4>2, <5>2
        <5> QED BY <5>1, <5>2
      <4> QED BY <3>1, <4>1, <4>2
    <3> SUFFICES ASSUME NEW c \in Blocks, blk'[c].pc = "say" /\ Explains(c)'
                 PROVE  /\ blk'[c].sig \notin told'
                        /\ \A d \in Blocks \ {c} : blk'[d].pc = "say" /\ Explains(d)' => blk'[d].sig # blk'[c].sig
      OBVIOUS
    <3>4. told' = told
      BY <1>1
    <3>5. CASE c = b
      BY <1>7, <3>2, <3>4, <3>5
    <3>6. CASE c # b
      BY <3>3, <3>4, <3>6
    <3> QED BY <3>5, <3>6
  <2> QED BY <2>4, <2>5, <2>8
<1>13. Lines'
  <2>1. ~clash' /\ marked' => ledger'.epoch = Now' /\ ledger'.footer = Now'
    BY <1>0, <1>1, <1>5, <1>10, <1>11 DEF Lines
  <2> QED BY <1>0, <1>1, <1>7, <2>1 DEF Lines, Types
<1> QED BY <1>8, <1>9, <1>12, <1>13 DEF BlockInv

LEMMA SayKeeps ==
  ASSUME BlockInv, NEW b \in Blocks, Say(b)
  PROVE  BlockInv'
<1>0. Types /\ Locked /\ Accounts /\ Lines
  BY DEF BlockInv
<1>1. /\ blk[b].pc = "say" /\ told' = IF Explains(b) THEN told \cup {blk[b].sig} ELSE told
      /\ blk' = IF blk[b].out = "silent" THEN [blk EXCEPT ![b] = Idle] ELSE [blk EXCEPT ![b].pc = "telling"]
      /\ UNCHANGED <<host, prompt, ledger, lock, rival, owed, marked, clash>>
  BY DEF Say
<1>2. /\ blk' \in [Blocks -> Refusal] /\ blk'[b].pc \in {"idle", "telling"}
      /\ blk'[b].pc = "telling" => blk'[b].sig = blk[b].sig
      /\ blk'[b].turn <= prompt
      /\ blk'[b].pc = "telling" => blk'[b].turn = blk[b].turn
      /\ blk'[b].knew /\ blk'[b].lines => blk[b].knew /\ blk[b].lines
      /\ \A c \in Blocks \ {b} : blk'[c] = blk[c]
  <2>1. 1 <= prompt
    BY <1>0 DEF Types
  <2>2. CASE blk[b].out = "silent"
    BY <1>0, <1>1, <2>1, <2>2, IdleTyped DEF Types
  <2>3. CASE blk[b].out # "silent"
    <3>1. blk \in [Blocks -> Refusal] /\ blk[b] \in Refusal /\ blk[b].turn <= prompt
      BY <1>0 DEF Types
    <3>2. blk' = [blk EXCEPT ![b] = [blk[b] EXCEPT !.pc = "telling"]]
      BY <1>1, <2>3
    <3>3. blk'[b] = [blk[b] EXCEPT !.pc = "telling"] /\ \A c \in Blocks \ {b} : blk'[c] = blk[c]
      BY <3>1, <3>2
    <3>4. blk'[b] \in Refusal
      BY <3>1, <3>3 DEF Refusal
    <3>5. /\ blk'[b].pc = "telling" /\ blk'[b].sig = blk[b].sig /\ blk'[b].turn = blk[b].turn
          /\ blk'[b].knew = blk[b].knew /\ blk'[b].lines = blk[b].lines
      BY <3>1, <3>3 DEF Refusal
    <3>6. blk' \in [Blocks -> Refusal]
      BY <3>1, <3>2, <3>3, <3>4
    <3> QED BY <3>1, <3>3, <3>5, <3>6
  <2> QED BY <2>2, <2>3
<1>3. Types'
  BY <1>0, <1>1, <1>2 DEF Types
<1>4. Locked'
  BY <1>0, <1>1, <1>2 DEF Locked
<1>5. Now' = Now /\ CountedNow' = CountedNow
  BY <1>1 DEF Now, EpochNow, CountedNow
<1>6. Accounts'
  <2>1. \A c \in Blocks : Said(c)' => Said(c) /\ blk'[c].sig = blk[c].sig
    BY <1>1, <1>2 DEF Said
  <2>2. Explains(b) => Said(b)
    BY <1>1 DEF Explains, Said
  <2>3. blk'[b].pc # "say"
    BY <1>2
  <2>4. \A c \in Blocks : blk'[c].pc = "say" /\ Explains(c)' => c # b /\ blk[c].pc = "say" /\ Explains(c) /\ blk'[c].sig = blk[c].sig
    BY <1>1, <1>2, <2>3 DEF Explains
  <2> QED BY <1>0, <1>1, <1>5, <2>1, <2>2, <2>4 DEF Accounts
<1>7. Lines'
  BY <1>0, <1>1, <1>2, <1>5 DEF Lines
<1> QED BY <1>3, <1>4, <1>6, <1>7 DEF BlockInv

LEMMA MarkKeeps ==
  ASSUME BlockInv, NEW b \in Blocks, Mark(b)
  PROVE  BlockInv'
<1>0. Types /\ Locked /\ Accounts /\ Lines
  BY DEF BlockInv
<1> DEFINE copy == blk[b].copy
<1>1. /\ blk[b].pc = "marking"
      /\ ledger' = IF blk[b].lines THEN [copy EXCEPT !.footer = EpochOf(b)] ELSE copy
      /\ marked' = (marked \/ (blk[b].lines /\ blk[b].turn = prompt))
      /\ lock' = Nobody /\ blk' = [blk EXCEPT ![b] = Idle]
      /\ clash' = (clash \/ blk[b].turn # prompt)
      /\ UNCHANGED <<host, prompt, rival, told, owed>>
  BY DEF Mark
<1>2. copy \in Ledger /\ blk[b].turn \in Nat /\ blk[b].turn <= prompt /\ blk[b].lines \in BOOLEAN
  BY <1>0, <1>1 DEF Types, Refusal
<1>3. blk[b].turn = prompt => EpochOf(b) = Now
  BY DEF EpochOf, EpochNow, Now
<1>4. EpochOf(b) \in Epochs
  BY <1>0, <1>2, NowTyped DEF EpochOf, EpochNow, Now, Epochs, Types
<1> HIDE DEF copy
<1>5. /\ ledger' \in Ledger /\ ledger'.epoch = copy.epoch /\ ledger'.counts = copy.counts
      /\ ledger'.footer = IF blk[b].lines THEN EpochOf(b) ELSE copy.footer
  BY <1>1, <1>2, <1>4 DEF Ledger
<1>6. blk' \in [Blocks -> Refusal] /\ blk'[b] = Idle /\ \A c \in Blocks \ {b} : blk'[c] = blk[c]
  BY <1>0, <1>1, IdleTyped DEF Types
<1>7. Types'
  <2>1. 1 <= prompt
    BY <1>0 DEF Types
  <2> QED BY <1>0, <1>1, <1>2, <1>5, <1>6, <2>1, IdleTyped DEF Types
<1>8. Locked'
  <2>1. lock = b /\ \A c \in Blocks \ {b} : blk[c].pc \notin {"counting", "marking"}
    BY <1>0, <1>1 DEF Locked
  <2> QED BY <1>6, <2>1, IdleTyped DEF Locked
<1>9. Now' = Now
  BY <1>1 DEF Now, EpochNow
<1>10. ASSUME ~clash' PROVE ~clash /\ blk[b].turn = prompt /\ copy = ledger /\ EpochOf(b) = Now /\ ledger.epoch = Now
  <2>1. ~clash /\ blk[b].turn = prompt
    BY <1>1, <1>10
  <2>2. copy = ledger
    BY <1>0, <1>1, <2>1 DEF Locked, copy
  <2>3. ledger.epoch = Now
    BY <1>0, <1>1, <2>1 DEF Accounts, Said
  <2> QED BY <1>3, <2>1, <2>2, <2>3
<1>11. Accounts'
  <2>1. ~clash' => CountedNow' = CountedNow /\ ledger'.epoch = ledger.epoch
    BY <1>5, <1>9, <1>10 DEF CountedNow
  <2>2. \A c \in Blocks : Said(c)' => Said(c) /\ blk'[c] = blk[c]
    BY <1>1, <1>6, IdleTyped DEF Said
  <2>3. \A c \in Blocks : blk'[c].pc = "say" /\ Explains(c)' => blk[c].pc = "say" /\ Explains(c) /\ blk'[c] = blk[c]
    BY <1>1, <1>6, IdleTyped DEF Explains
  <2> QED BY <1>0, <1>1, <1>9, <1>10, <2>1, <2>2, <2>3, AccountsKept
<1>12. Lines'
  <2>1. ~clash' /\ marked' => ledger'.epoch = Now' /\ ledger'.footer = Now'
    BY <1>0, <1>1, <1>5, <1>9, <1>10 DEF Lines
  <2> QED BY <1>0, <1>1, <1>6, <2>1, IdleTyped DEF Lines
<1> QED BY <1>7, <1>8, <1>11, <1>12 DEF BlockInv

LEMMA KilledKeeps ==
  ASSUME BlockInv, NEW b \in Blocks, Killed(b)
  PROVE  BlockInv'
<1>0. Types /\ Locked /\ Accounts /\ Lines
  BY DEF BlockInv
<1>1. /\ blk' = [blk EXCEPT ![b] = Idle] /\ lock' = (IF lock = b THEN Nobody ELSE lock)
      /\ UNCHANGED <<host, prompt, ledger, rival, told, owed, marked, clash>>
  BY DEF Killed
<1>2. blk' \in [Blocks -> Refusal] /\ blk'[b] = Idle /\ \A c \in Blocks \ {b} : blk'[c] = blk[c]
  BY <1>0, <1>1, IdleTyped DEF Types
<1>3. Types'
  <2>1. 1 <= prompt
    BY <1>0 DEF Types
  <2> QED BY <1>0, <1>1, <1>2, <2>1, IdleTyped DEF Types
<1>4. Locked'
  BY <1>0, <1>1, <1>2, IdleTyped DEF Locked
<1>5. Now' = Now /\ CountedNow' = CountedNow
  BY <1>1 DEF Now, EpochNow, CountedNow
<1>6. Accounts'
  <2>1. \A c \in Blocks : Said(c)' => Said(c) /\ blk'[c] = blk[c]
    BY <1>1, <1>2, IdleTyped DEF Said
  <2>2. \A c \in Blocks : blk'[c].pc = "say" /\ Explains(c)' => blk[c].pc = "say" /\ Explains(c) /\ blk'[c] = blk[c]
    BY <1>1, <1>2, IdleTyped DEF Explains
  <2> QED BY <1>0, <1>1, <1>5, <2>1, <2>2, AccountsKept
<1>7. Lines'
  BY <1>0, <1>1, <1>2, <1>5, IdleTyped DEF Lines
<1> QED BY <1>3, <1>4, <1>6, <1>7 DEF BlockInv

(***************************************************************************)
(* The writers without the lock.                                           *)
(***************************************************************************)
LEMMA ClearLoadsKeeps ==
  ASSUME BlockInv, ClearLoads
  PROVE  BlockInv'
<1>0. Types /\ Locked /\ Accounts /\ Lines
  BY DEF BlockInv
<1>1. rival' = ledger /\ UNCHANGED <<host, prompt, ledger, lock, blk, told, owed, marked, clash>>
  BY DEF ClearLoads
<1>2. Types' /\ Locked'
  BY <1>0, <1>1 DEF Types, Locked
<1>3. Now' = Now /\ CountedNow' = CountedNow
  BY <1>1 DEF Now, EpochNow, CountedNow
<1>4. Accounts'
  BY <1>0, <1>1, <1>3 DEF Accounts, Said, Explains
<1>5. Lines'
  BY <1>0, <1>1, <1>3 DEF Lines
<1> QED BY <1>2, <1>4, <1>5 DEF BlockInv

LEMMA ClearSavesKeeps ==
  ASSUME BlockInv, ClearSaves
  PROVE  BlockInv'
<1>0. Types /\ Locked /\ Accounts /\ Lines
  BY DEF BlockInv
<1>1. /\ ledger' = [rival EXCEPT !.last = FALSE] /\ rival' = NoCopy
      /\ clash' = (clash \/ rival # ledger \/ lock # Nobody)
      /\ UNCHANGED <<host, prompt, lock, blk, told, owed, marked>>
  BY DEF ClearSaves
<1>2. /\ ledger' \in Ledger /\ ledger'.epoch = rival.epoch /\ ledger'.counts = rival.counts
      /\ ledger'.footer = rival.footer
  BY <1>0, <1>1 DEF Types, Ledger
<1>3. Types'
  BY <1>0, <1>1, <1>2, NoCopyTyped DEF Types
<1>4. ~clash' => ~clash /\ rival = ledger /\ \A b \in Blocks : blk[b].pc \notin {"counting", "marking"}
  BY <1>0, <1>1, BlockConstants DEF Locked
<1>5. Locked'
  BY <1>0, <1>1, <1>4 DEF Locked
<1>6. Now' = Now /\ (~clash' => CountedNow' = CountedNow /\ ledger'.epoch = ledger.epoch /\ ledger'.footer = ledger.footer)
  BY <1>1, <1>2, <1>4 DEF Now, EpochNow, CountedNow
<1>7. Accounts'
  BY <1>0, <1>1, <1>4, <1>6 DEF Accounts, Said, Explains
<1>8. Lines'
  BY <1>0, <1>1, <1>4, <1>6 DEF Lines
<1> QED BY <1>3, <1>5, <1>7, <1>8 DEF BlockInv

(* A new prompt counts anew, owes nothing and has been told nothing.       *)
LEMMA PromptKeeps ==
  ASSUME BlockInv, NEW n \in DOMAIN Text, Prompt(n)
  PROVE  BlockInv'
<1>0. Types /\ Locked /\ Accounts /\ Lines
  BY DEF BlockInv
<1>1. /\ n = prompt + 1 /\ prompt' = n
      /\ ledger' = [ledger EXCEPT !.epoch = NoEpoch, !.counts = NoCounts]
      /\ told' = {} /\ owed' = {} /\ marked' = FALSE
      /\ clash' = (clash \/ lock # Nobody)
      /\ UNCHANGED <<host, lock, blk, rival>>
  BY DEF Prompt
<1>2. ledger' \in Ledger /\ \A s \in Sigs : ledger'.counts[s] = 0
  BY <1>0, <1>1 DEF Types, Ledger, Epochs, NoCounts
<1>3. \A b \in Blocks : blk[b].turn \in Nat /\ blk[b].turn <= prompt /\ prompt \in Nat
  BY <1>0, BlockConstants DEF Types, Refusal
<1>4. Types'
  <2>1. 1 <= prompt' /\ prompt' \in DOMAIN Text /\ \A b \in Blocks : blk'[b].turn <= prompt'
    BY <1>0, <1>1, <1>3, BlockConstants DEF Types
  <2>2. marked' \in BOOLEAN /\ clash' \in BOOLEAN
    BY <1>0, <1>1 DEF Types
  <2> QED BY <1>0, <1>1, <1>2, <2>1, <2>2 DEF Types
<1>5. ~clash' => ~clash /\ \A b \in Blocks : blk[b].pc \notin {"counting", "marking"}
  BY <1>0, <1>1, BlockConstants DEF Locked
<1>6. Locked'
  BY <1>0, <1>1, <1>5 DEF Locked
<1>7. \A b \in Blocks : blk'[b].turn # prompt'
  BY <1>1, <1>3
<1>8. CountedNow' = {}
  BY <1>2 DEF CountedNow
<1>9. Accounts'
  BY <1>1, <1>7, <1>8 DEF Accounts, Said, Explains
<1>10. Lines'
  BY <1>0, <1>1 DEF Lines
<1> QED BY <1>4, <1>6, <1>9, <1>10 DEF BlockInv

LEMMA StepKeeps == BlockInv /\ [Next]_vars => BlockInv'
<1> SUFFICES ASSUME BlockInv, [Next]_vars PROVE BlockInv'
  OBVIOUS
<1>1. ASSUME NEW b \in Blocks, NEW s \in Sigs, Refuse(b, s) PROVE BlockInv'
  BY <1>1, RefuseKeeps
<1>2. ASSUME NEW b \in Blocks, Load(b) \/ Save(b) \/ Say(b) \/ Mark(b) \/ Killed(b) PROVE BlockInv'
  BY <1>2, LoadKeeps, SaveKeeps, SayKeeps, MarkKeeps, KilledKeeps
<1>3. CASE ClearLoads \/ ClearSaves
  BY <1>3, ClearLoadsKeeps, ClearSavesKeeps
<1>4. ASSUME NEW n \in DOMAIN Text, Prompt(n) PROVE BlockInv'
  BY <1>4, PromptKeeps
<1>5. CASE UNCHANGED vars
  <2>1. Now' = Now /\ CountedNow' = CountedNow
    BY <1>5 DEF vars, Now, EpochNow, CountedNow
  <2>2. Types' /\ Locked' /\ Lines'
    BY <1>5, <2>1 DEF vars, BlockInv, Types, Locked, Lines
  <2>3. Accounts'
    BY <1>5, <2>1 DEF vars, BlockInv, Accounts, Said, Explains
  <2> QED BY <2>2, <2>3 DEF BlockInv
<1> QED BY <1>1, <1>2, <1>3, <1>4, <1>5 DEF Next

LEMMA BlockInvHolds == Spec => []BlockInv
<1>1. Init => BlockInv
  BY Started
<1>2. BlockInv /\ [Next]_vars => BlockInv'
  BY StepKeeps
<1> QED BY <1>1, <1>2, PTL DEF Spec

(***************************************************************************)
(* However the refusals of a batch race in emit_pretool_block, each that   *)
(* leaves its reasons out repeats one that gave them or is about to, one   *)
(* of a signature gives them, and the unlock lines are not repeated, until *)
(* a writer without the lock overlaps another or a hook outlives its turn. *)
(***************************************************************************)
THEOREM RefusalsAlwaysTold == Spec => []RefusalsTold
<1>1. BlockInv => RefusalsTold
  <2> SUFFICES ASSUME BlockInv PROVE RefusalsTold
    OBVIOUS
  <2>1. RepeatsExplained
    BY DEF BlockInv, Accounts, Said, RepeatsExplained
  <2>2. ToldOnce
    BY DEF BlockInv, Accounts, ToldOnce
  <2>3. UnlockLinesOnce
    BY DEF BlockInv, Lines, UnlockLinesOnce
  <2> QED BY <2>1, <2>2, <2>3 DEF RefusalsTold
<1> QED BY <1>1, BlockInvHolds, PTL

----------------------------------------------------------------------------
(* PromptHook: what a session is told, for any prompts and packs.          *)

ToldTexts == {NoText} \cup {p.text : p \in Prompts}
Modes == {"quick", "normal", "deep"}
PromptSteps ==
  {"new", "frame", "idle", "routed", "graded", "applied", "cited", "planned", "scaffolded", "ready"}
Ledgers ==
  [task : ToldTexts, grade : {"LIGHT", "STANDARD", "HEAVY"}, fired : SUBSET Packs, brief : BOOLEAN,
   inject : BOOLEAN, onboard : BOOLEAN, frame : BOOLEAN, cite : BOOLEAN, planned : ToldTexts,
   plan : BOOLEAN, footer : ToldTexts]
Nows == [prompt : Prompts \cup {NoText}, mode : Modes, profile : {"code", "operational"}, out : SUBSET (Texts \ {"frame"})]

PromptTyped ==
  /\ session \in Ledgers /\ started \in BOOLEAN /\ playbook \in BOOLEAN
  /\ pc \in PromptSteps /\ now \in Nows /\ shown \in [Texts -> Nat]
  /\ cut \subseteq Packs /\ kills \in Nat /\ refused \in BOOLEAN
  /\ IF pc \in {"new", "frame", "idle"} THEN now = NoNow ELSE now.prompt \in Prompts

(* Printed, or about to be.                                                *)
Out(x) == shown[x] > 0 \/ x \in now.out
(* The brief is about to be told.                                          *)
Coming == session.inject /\ pc \in {"applied", "cited", "planned", "scaffolded"}

(* What is out is marked, so what is not marked is not out yet.            *)
Marked ==
  /\ Out("cite") => session.cite
  /\ Out("onboard") => session.onboard
  /\ Out("brief") => session.brief /\ ~Coming
  /\ Out("playbook") => playbook
  /\ \A t \in Packs : Out(t) => t \in session.fired
Once == \A x \in OnceTexts : shown[x] <= 1 /\ (x \in now.out => shown[x] = 0)

(* Without a kill what is marked is out, or comes.                         *)
Seen ==
  kills = 0 =>
    /\ session.frame => shown["frame"] > 0 \/ pc = "frame"
    /\ session.cite => Out("cite")
    /\ session.onboard => Out("onboard")
    /\ session.brief => Out("brief") \/ Coming
    /\ playbook => Out("playbook")
    /\ \A t \in session.fired \ cut : Out(t)

(* The instructions come with each text that stands in for them.           *)
Instructed ==
  /\ shown["frame"] > 0 => shown["restate"] > 0
  /\ kills = 0 =>
       /\ session.onboard => Out("restate") \/ (session.inject /\ pc = "scaffolded")
       /\ session.footer # NoText => shown["restate"] > 0
       /\ refused => shown["restate"] > 0

PromptInv ==
  PromptTyped /\ (Coming => session.brief) /\ Marked /\ Once /\ Seen /\ Instructed

LEMMA TextsApart ==
  /\ \A t \in Packs : t \in Texts /\ t \in OnceTexts
                     /\ t \notin {"cite", "onboard", "brief", "playbook", "frame", "restate", "plan", "enhanced"}
  /\ {"cite", "onboard", "brief", "playbook"} \subseteq OnceTexts /\ OnceTexts \subseteq Texts
  /\ {"frame", "restate", "plan", "enhanced"} \subseteq Texts
  /\ {"frame", "restate", "plan", "enhanced"} \cap OnceTexts = {}
BY PromptConstants DEF OnceTexts, Texts

LEMMA PromptStarted == PromptInit => PromptInv
<1> SUFFICES ASSUME PromptInit PROVE PromptInv
  OBVIOUS
<1>1. NoNow \in Nows /\ NoNow.out = {}
  BY DEF NoNow, Nows, Modes
<1>2. session \in Ledgers /\ ~session.frame /\ ~session.cite /\ ~session.onboard /\ ~session.brief
      /\ ~session.inject /\ session.fired = {} /\ session.footer = NoText
  BY DEF PromptInit, Ledgers, ToldTexts
<1>3. shown \in [Texts -> Nat] /\ \A x \in Texts : shown[x] = 0
  BY DEF PromptInit
<1>4. PromptTyped
  BY <1>1, <1>2, <1>3 DEF PromptInit, PromptTyped, PromptSteps
<1>5. \A x \in Texts : ~Out(x)
  BY <1>1, <1>3 DEF PromptInit, Out
<1>6. Marked /\ Once
  BY <1>1, <1>3, <1>5, TextsApart DEF PromptInit, Marked, Once
<1>7. Seen /\ Instructed /\ ~Coming
  BY <1>2, <1>3, TextsApart DEF PromptInit, Seen, Instructed, Coming
<1> QED BY <1>4, <1>6, <1>7 DEF PromptInv

(* The frame of a session.                                                 *)
LEMMA FrameKeeps ==
  ASSUME PromptInv, FrameMarked \/ NoFrame
  PROVE  PromptInv'
<1>0. PromptTyped /\ Marked /\ Once /\ Seen /\ Instructed
  BY DEF PromptInv
<1>1. UNCHANGED <<started, playbook, now, shown, cut, kills, refused>>
  BY DEF FrameMarked, NoFrame, hidden
<1>2. pc = "new" /\ pc' \in {"frame", "idle"}
  BY DEF FrameMarked, NoFrame, Goes
<1>3. /\ session' \in Ledgers
      /\ session'.fired = session.fired /\ session'.cite = session.cite /\ session'.onboard = session.onboard
      /\ session'.brief = session.brief /\ session'.footer = session.footer /\ session'.inject = session.inject
      /\ session'.frame => session.frame \/ pc' = "frame"
  BY <1>0 DEF FrameMarked, NoFrame, Goes, PromptTyped, Ledgers
<1>4. PromptTyped'
  BY <1>0, <1>1, <1>2, <1>3 DEF PromptTyped, PromptSteps
<1>5. ~Coming /\ ~Coming'
  BY <1>2 DEF Coming
<1>6. Marked' /\ Once'
  BY <1>0, <1>1, <1>3, <1>5 DEF Marked, Once, Out
<1>7. Seen'
  BY <1>0, <1>1, <1>2, <1>3, <1>5 DEF Seen, Out
<1>8. Instructed'
  BY <1>0, <1>1, <1>2, <1>3 DEF Instructed, Out
<1> QED BY <1>4, <1>5, <1>6, <1>7, <1>8 DEF PromptInv

LEMMA PrintedDoes ==
  ASSUME PromptTyped, NEW texts, Printed(texts)
  PROVE  /\ shown' \in [Texts -> Nat]
         /\ \A x \in Texts \cap texts : shown'[x] = shown[x] + 1
         /\ \A x \in Texts \ texts : shown'[x] = shown[x]
BY DEF PromptTyped, Printed

LEMMA FramePrintKeeps ==
  ASSUME PromptInv, FramePrinted
  PROVE  PromptInv'
<1>0. PromptTyped /\ Marked /\ Once /\ Seen /\ Instructed
  BY DEF PromptInv
<1>1. pc = "frame" /\ pc' = "idle" /\ UNCHANGED <<session, started, playbook, now, cut, kills, refused>>
  BY DEF FramePrinted, Goes
<1>2. /\ shown' \in [Texts -> Nat] /\ shown'["frame"] > 0 /\ shown'["restate"] > 0
      /\ \A x \in OnceTexts : shown'[x] = shown[x]
  BY <1>0, PrintedDoes, TextsApart DEF FramePrinted, PromptTyped
<1>3. PromptTyped'
  BY <1>0, <1>1, <1>2 DEF PromptTyped, PromptSteps
<1>4. ~Coming /\ ~Coming'
  BY <1>1 DEF Coming
<1>5. \A x \in OnceTexts : Out(x)' <=> Out(x)
  BY <1>1, <1>2 DEF Out
<1>6. Marked' /\ Once'
  BY <1>0, <1>1, <1>2, <1>4, <1>5, TextsApart DEF Marked, Once
<1>7. Seen'
  BY <1>0, <1>1, <1>2, <1>4, <1>5, TextsApart DEF Seen, PromptTyped, Ledgers
<1>8. Instructed'
  BY <1>1, <1>2 DEF Instructed, Out
<1> QED BY <1>3, <1>4, <1>6, <1>7, <1>8 DEF PromptInv

(* The packs.                                                              *)
LEMMA RouteKeeps ==
  ASSUME PromptInv, NEW p \in Prompts, Route(p)
  PROVE  PromptInv'
<1>0. PromptTyped /\ Marked /\ Once /\ Seen /\ Instructed
  BY DEF PromptInv
<1> DEFINE fresh == {i \in DOMAIN p.packs : p.packs[i] \notin session.fired}
           all == {p.packs[i] : i \in fresh}
           first == {p.packs[i] : i \in {k \in fresh : Cardinality({m \in fresh : m < k}) < MaxPacks}}
<1>1. /\ pc = "idle" /\ pc' = "routed" /\ UNCHANGED <<started, playbook, shown, kills, refused>>
      /\ session' = [session EXCEPT !.fired = @ \cup all]
      /\ cut' = cut \cup (all \ first) /\ now' = [NoNow EXCEPT !.prompt = p, !.out = first]
  BY DEF Route, Goes
<1>2. p.packs \in Seq(Packs)
  BY PromptConstants
<1>3. first \subseteq all /\ all \subseteq Packs /\ all \cap session.fired = {}
  <2>1. \A i \in fresh : p.packs[i] \in Packs /\ p.packs[i] \notin session.fired
    BY <1>2
  <2>2. first \subseteq all
    OBVIOUS
  <2> HIDE DEF fresh, first
  <2> QED BY <2>1, <2>2
<1> HIDE DEF fresh, all, first
<1>4. /\ session' \in Ledgers
      /\ session'.fired = session.fired \cup all /\ session'.cite = session.cite /\ session'.onboard = session.onboard
      /\ session'.brief = session.brief /\ session'.footer = session.footer /\ session'.frame = session.frame
  BY <1>0, <1>1, <1>3 DEF PromptTyped, Ledgers
<1>5. now' \in Nows /\ now'.out = first /\ now'.prompt = p /\ now.out = {}
  <2>1. first \subseteq Texts \ {"frame"}
    BY <1>3, TextsApart
  <2>2. now' = [prompt |-> p, mode |-> "normal", profile |-> "code", out |-> first]
    BY <1>1 DEF NoNow
  <2>3. now.out = {}
    BY <1>0, <1>1 DEF PromptTyped, NoNow
  <2> QED BY <2>1, <2>2, <2>3 DEF Nows, Modes
<1>6. PromptTyped'
  BY <1>0, <1>1, <1>3, <1>4, <1>5 DEF PromptTyped, PromptSteps
<1>7. ~Coming /\ ~Coming'
  BY <1>1 DEF Coming
<1>8. /\ \A x \in Texts \ Packs : Out(x)' <=> Out(x)
      /\ \A t \in Packs : (Out(t) <=> shown[t] > 0) /\ (Out(t)' <=> shown[t] > 0 \/ t \in first)
  BY <1>1, <1>3, <1>5 DEF Out
<1>9. Marked'
  BY <1>0, <1>1, <1>3, <1>4, <1>7, <1>8, TextsApart DEF Marked
<1>10. Once'
  <2> SUFFICES ASSUME NEW x \in OnceTexts PROVE shown'[x] <= 1 /\ (x \in now'.out => shown'[x] = 0)
    BY DEF Once
  <2>1. x \in first => ~Out(x)
    BY <1>0, <1>3 DEF Marked
  <2>2. shown[x] \in Nat
    BY <1>0, TextsApart DEF PromptTyped
  <2> QED BY <1>0, <1>1, <1>5, <2>1, <2>2 DEF Once, Out
<1>11. Seen'
  <2> SUFFICES ASSUME kills = 0 PROVE Seen'
    BY <1>1 DEF Seen
  <2>1. \A t \in session'.fired \ cut' : Out(t)'
    <3> SUFFICES ASSUME NEW t \in session'.fired \ cut' PROVE Out(t)'
      OBVIOUS
    <3>1. CASE t \in session.fired
      BY <1>0, <1>1, <1>8, <3>1 DEF Seen, PromptTyped, Ledgers
    <3>2. CASE t \in all
      BY <1>1, <1>3, <1>8, <3>2
    <3> QED BY <1>4, <3>1, <3>2
  <2>2. /\ session'.frame => shown'["frame"] > 0
        /\ (session'.cite => Out("cite")') /\ (session'.onboard => Out("onboard")')
        /\ (session'.brief => Out("brief")') /\ (playbook' => Out("playbook")')
    BY <1>0, <1>1, <1>4, <1>7, <1>8, TextsApart DEF Seen
  <2> QED BY <1>1, <2>1, <2>2 DEF Seen
<1>12. Instructed'
  BY <1>0, <1>1, <1>4, <1>8, TextsApart DEF Instructed
<1> QED BY <1>6, <1>7, <1>9, <1>10, <1>11, <1>12 DEF PromptInv

LEMMA ClassifyKeeps ==
  ASSUME PromptInv, NEW answers \in BOOLEAN, NEW enhances \in BOOLEAN, Classify(answers, enhances)
  PROVE  PromptInv'
<1>0. PromptTyped /\ Marked /\ Once /\ Seen /\ Instructed
  BY DEF PromptInv
<1>1. pc = "routed" /\ pc' = "graded" /\ UNCHANGED <<session, started, playbook, shown, cut, kills, refused>>
  BY DEF Classify, Goes, hidden
<1>2. PICK mode \in Modes, profile \in {"code", "operational"}, texts \in SUBSET {"enhanced"} :
        now' = [now EXCEPT !.mode = mode, !.profile = profile, !.out = now.out \cup texts]
  BY <1>0, <1>1, PromptConstants DEF Classify, Modes, PromptTyped
<1>3. now' \in Nows /\ now'.out = now.out \cup texts /\ now'.prompt = now.prompt
  BY <1>0, <1>2, TextsApart DEF PromptTyped, Nows
<1>4. PromptTyped'
  BY <1>0, <1>1, <1>3 DEF PromptTyped, PromptSteps
<1>5. ~Coming /\ ~Coming'
  BY <1>1 DEF Coming
<1>6. \A x \in OnceTexts \cup {"restate"} : (x \in now'.out <=> x \in now.out) /\ (Out(x)' <=> Out(x))
  BY <1>1, <1>3, TextsApart DEF Out
<1>7. Marked' /\ Once'
  BY <1>0, <1>1, <1>5, <1>6, TextsApart DEF Marked, Once
<1>8. Seen' /\ Instructed'
  BY <1>0, <1>1, <1>5, <1>6, TextsApart DEF Seen, Instructed, PromptTyped, Ledgers
<1> QED BY <1>4, <1>5, <1>7, <1>8 DEF PromptInv

(* The grade: the brief comes if it is not out yet.                        *)
LEMMA ApplyKeeps ==
  ASSUME PromptInv, Apply
  PROVE  PromptInv'
<1>0. PromptTyped /\ Marked /\ Once /\ Seen /\ Instructed
  BY DEF PromptInv
<1> DEFINE g == GradeOf[now.mode]
<1>1. /\ pc = "graded" /\ pc' = "applied"
      /\ session' = [session EXCEPT !.task = now.prompt.text, !.grade = g, !.plan = now.prompt.plan,
                                    !.inject = g = "HEAVY" /\ ~session.brief, !.brief = @ \/ g = "HEAVY"]
      /\ UNCHANGED <<started, playbook, now, shown, cut, kills, refused>>
  BY DEF Apply, Goes, hidden
<1>2. g \in {"LIGHT", "STANDARD", "HEAVY"}
  BY <1>0 DEF PromptTyped, Nows, Modes, GradeOf
<1>3. now.prompt.text \in ToldTexts /\ now.prompt.plan \in BOOLEAN
  BY <1>0, <1>1, PromptConstants DEF PromptTyped, ToldTexts
<1> HIDE DEF g
<1>4. /\ session' \in Ledgers
      /\ session'.fired = session.fired /\ session'.cite = session.cite /\ session'.onboard = session.onboard
      /\ session'.footer = session.footer /\ session'.frame = session.frame
      /\ session'.inject = (g = "HEAVY" /\ ~session.brief) /\ session'.brief = (session.brief \/ g = "HEAVY")
  <2>1. session \in Ledgers
    BY <1>0 DEF PromptTyped
  <2>2. session' \in Ledgers
    <3> DEFINE text == now.prompt.text
               plan == now.prompt.plan
               inject == g = "HEAVY" /\ ~session.brief
               brief == session.brief \/ g = "HEAVY"
    <3>1. session' = [session EXCEPT !.task = text, !.grade = g, !.plan = plan, !.inject = inject, !.brief = brief]
      BY <1>1
    <3>2. text \in ToldTexts /\ plan \in BOOLEAN /\ inject \in BOOLEAN
      BY <1>3
    <3>3. brief \in BOOLEAN
      BY <2>1 DEF Ledgers
    <3> HIDE DEF text, plan, inject, brief
    <3>4. [session EXCEPT !.task = text, !.grade = g, !.plan = plan, !.inject = inject, !.brief = brief] \in Ledgers
      BY <1>2, <2>1, <3>2, <3>3 DEF Ledgers
    <3> QED BY <3>1, <3>4
  <2>3. /\ session'.fired = session.fired /\ session'.cite = session.cite /\ session'.onboard = session.onboard
        /\ session'.footer = session.footer /\ session'.frame = session.frame
    BY <1>1, <2>1 DEF Ledgers
  <2>4. session'.inject = (g = "HEAVY" /\ ~session.brief) /\ session'.brief = (session.brief \/ g = "HEAVY")
    BY <1>1, <2>1 DEF Ledgers
  <2> QED BY <2>2, <2>3, <2>4
<1>5. PromptTyped'
  BY <1>0, <1>1, <1>4 DEF PromptTyped, PromptSteps
<1>6. ~Coming /\ (Coming' <=> session'.inject)
  BY <1>1 DEF Coming
<1>7. Marked' /\ Once'
  BY <1>0, <1>1, <1>4, <1>6 DEF Marked, Once, Out
<1>8. Seen' /\ Instructed'
  BY <1>0, <1>1, <1>4, <1>6 DEF Seen, Instructed, Out
<1> QED BY <1>4, <1>5, <1>6, <1>7, <1>8 DEF PromptInv

LEMMA TellsDoes ==
  ASSUME PromptTyped, NEW texts \in SUBSET (Texts \ {"frame"}), Tells(texts)
  PROVE  now' \in Nows /\ now'.out = now.out \cup texts /\ now'.prompt = now.prompt
BY DEF PromptTyped, Tells, Nows

LEMMA CiteKeeps ==
  ASSUME PromptInv, CiteFooter
  PROVE  PromptInv'
<1>0. PromptTyped /\ Marked /\ Once /\ Seen /\ Instructed /\ (Coming => session.brief)
  BY DEF PromptInv
<1> DEFINE texts == IF session.cite THEN {} ELSE {"cite"}
<1>1. /\ pc = "applied" /\ pc' = "cited" /\ session' = [session EXCEPT !.cite = TRUE] /\ Tells(texts)
      /\ UNCHANGED <<started, playbook, shown, cut, kills, refused>>
  BY DEF CiteFooter, Goes, hidden
<1>2. /\ session' \in Ledgers /\ session'.cite
      /\ session'.fired = session.fired /\ session'.onboard = session.onboard
      /\ session'.footer = session.footer /\ session'.frame = session.frame
      /\ session'.inject = session.inject /\ session'.brief = session.brief
  BY <1>0, <1>1 DEF PromptTyped, Ledgers
<1>3. now' \in Nows /\ now'.out = now.out \cup texts /\ now'.prompt = now.prompt
  BY <1>0, <1>1, TellsDoes, TextsApart
<1>4. PromptTyped'
  BY <1>0, <1>1, <1>2, <1>3 DEF PromptTyped, PromptSteps
<1>5. Coming' <=> Coming
  BY <1>1, <1>2 DEF Coming
<1>6. /\ \A x : x # "cite" => (x \in now'.out <=> x \in now.out) /\ (Out(x)' <=> Out(x))
      /\ Out("cite") \/ ~session.cite <=> Out("cite")'
  BY <1>1, <1>3 DEF Out
<1>7. session.cite => Out("cite") \/ kills # 0
  BY <1>0 DEF Seen, PromptTyped
<1>8. "cite" \in now'.out => shown["cite"] = 0
  BY <1>0, <1>3, TextsApart DEF Once, Marked, Out, PromptTyped
<1>9. Marked' /\ Once'
  BY <1>0, <1>1, <1>2, <1>5, <1>6, <1>8, TextsApart DEF Marked, Once
<1>10. session'.cite /\ kills = 0 => Out("cite")'
  BY <1>1, <1>3, <1>7 DEF Out
<1>11. Seen' /\ Instructed'
  BY <1>0, <1>1, <1>2, <1>5, <1>6, <1>10, TextsApart DEF Seen, Instructed, PromptTyped, Ledgers
<1> QED BY <1>0, <1>2, <1>4, <1>5, <1>9, <1>11 DEF PromptInv

LEMMA PlanKeeps ==
  ASSUME PromptInv, PlanLine
  PROVE  PromptInv'
<1>0. PromptTyped /\ Marked /\ Once /\ Seen /\ Instructed /\ (Coming => session.brief)
  BY DEF PromptInv
<1>1. pc = "cited" /\ pc' = "planned" /\ UNCHANGED <<started, playbook, shown, cut, kills, refused>>
  BY DEF PlanLine, Goes, hidden
<1>2. /\ session' \in Ledgers /\ session'.cite = session.cite
      /\ session'.fired = session.fired /\ session'.onboard = session.onboard
      /\ session'.footer = session.footer /\ session'.frame = session.frame
      /\ session'.inject = session.inject /\ session'.brief = session.brief
  BY <1>0 DEF PlanLine, PromptTyped, Ledgers
<1>3. now' \in Nows /\ now'.out \in {now.out, now.out \cup {"plan"}} /\ now'.prompt = now.prompt
  <2>1. CASE session.plan /\ session.planned # session.task
    BY <1>0, <2>1, TellsDoes, TextsApart DEF PlanLine
  <2>2. CASE ~(session.plan /\ session.planned # session.task)
    BY <1>0, <2>2 DEF PlanLine, PromptTyped
  <2> QED BY <2>1, <2>2
<1>4. PromptTyped'
  BY <1>0, <1>1, <1>2, <1>3 DEF PromptTyped, PromptSteps
<1>5. Coming' <=> Coming
  BY <1>1, <1>2 DEF Coming
<1>6. \A x : x # "plan" => (x \in now'.out <=> x \in now.out) /\ (Out(x)' <=> Out(x))
  BY <1>1, <1>3 DEF Out
<1>7. Marked' /\ Once'
  BY <1>0, <1>1, <1>2, <1>5, <1>6, TextsApart DEF Marked, Once
<1>8. Seen' /\ Instructed'
  BY <1>0, <1>1, <1>2, <1>5, <1>6, TextsApart DEF Seen, Instructed, PromptTyped, Ledgers
<1> QED BY <1>0, <1>2, <1>4, <1>5, <1>7, <1>8 DEF PromptInv

(* The board: frame or brief have told, or tell, what its text leaves out. *)
LEMMA ScaffoldKeeps ==
  ASSUME PromptInv, Scaffold
  PROVE  PromptInv'
<1>0. PromptTyped /\ Marked /\ Once /\ Seen /\ Instructed /\ (Coming => session.brief)
  BY DEF PromptInv
<1>1. pc = "planned" /\ pc' = "scaffolded" /\ UNCHANGED <<playbook, shown, cut, kills, refused>>
  BY DEF Scaffold, Goes, hidden
<1>2. CASE session.grade = "LIGHT" \/ started \/ session.onboard
  <2>1. UNCHANGED <<session, now>> /\ started' \in BOOLEAN
    BY <1>0, <1>2 DEF Scaffold, PromptTyped
  <2>2. PromptTyped'
    BY <1>0, <1>1, <2>1 DEF PromptTyped, PromptSteps
  <2>3. Coming' <=> Coming
    BY <1>1, <2>1 DEF Coming
  <2>4. Marked' /\ Once'
    BY <1>0, <1>1, <2>1, <2>3 DEF Marked, Once, Out
  <2>5. Seen' /\ Instructed'
    BY <1>0, <1>1, <2>1, <2>3 DEF Seen, Instructed, Out
  <2> QED BY <1>0, <2>1, <2>2, <2>3, <2>4, <2>5 DEF PromptInv
<1>3. CASE ~(session.grade = "LIGHT" \/ started \/ session.onboard)
  <2> DEFINE texts == {"onboard"} \cup IF session.inject \/ session.frame THEN {} ELSE {"restate"}
  <2>1. started' = TRUE /\ session' = [session EXCEPT !.onboard = TRUE] /\ Tells(texts)
    BY <1>3 DEF Scaffold
  <2>2. /\ session' \in Ledgers /\ session'.onboard
        /\ session'.fired = session.fired /\ session'.cite = session.cite
        /\ session'.footer = session.footer /\ session'.frame = session.frame
        /\ session'.inject = session.inject /\ session'.brief = session.brief
    BY <1>0, <2>1 DEF PromptTyped, Ledgers
  <2>3. now' \in Nows /\ now'.out = now.out \cup texts /\ now'.prompt = now.prompt
    BY <1>0, <2>1, TellsDoes, TextsApart
  <2>4. PromptTyped'
    BY <1>0, <1>1, <2>1, <2>2, <2>3 DEF PromptTyped, PromptSteps
  <2>5. Coming' <=> Coming
    BY <1>1, <2>2 DEF Coming
  <2>6. /\ \A x : x \notin {"onboard", "restate"} => (x \in now'.out <=> x \in now.out) /\ (Out(x)' <=> Out(x))
        /\ Out("onboard")' /\ (Out("restate") => Out("restate")')
        /\ session.inject \/ session.frame \/ Out("restate")'
    BY <1>1, <2>3 DEF Out
  <2>7. shown["onboard"] = 0
    BY <1>0, <1>3, TextsApart DEF Marked, Out, PromptTyped
  <2>8. Marked' /\ Once'
    BY <1>0, <1>1, <2>2, <2>5, <2>6, <2>7, TextsApart DEF Marked, Once
  <2>9. Seen'
    BY <1>0, <1>1, <2>2, <2>5, <2>6, TextsApart DEF Seen, PromptTyped, Ledgers
  <2>10. kills = 0 => Out("restate")' \/ session.inject
    BY <1>0, <1>1, <2>6 DEF Seen, Instructed, Out
  <2>11. Instructed'
    BY <1>0, <1>1, <2>2, <2>10 DEF Instructed
  <2> QED BY <1>0, <2>2, <2>4, <2>5, <2>8, <2>9, <2>11 DEF PromptInv
<1> QED BY <1>2, <1>3

LEMMA EffortKeeps ==
  ASSUME PromptInv, Effort
  PROVE  PromptInv'
<1>0. PromptTyped /\ Marked /\ Once /\ Seen /\ Instructed /\ (Coming => session.brief)
  BY DEF PromptInv
<1> DEFINE brief == IF session.inject THEN {"brief", "restate"} ELSE {}
           plays == IF now.prompt.effort /\ ~playbook THEN {"playbook"} ELSE {}
<1>1. /\ pc = "scaffolded" /\ pc' = "ready" /\ playbook' = (playbook \/ now.prompt.effort)
      /\ Tells(brief \cup plays) /\ UNCHANGED <<session, started, shown, cut, kills, refused>>
  BY DEF Effort, Goes, hidden
<1>2. now' \in Nows /\ now'.out = now.out \cup brief \cup plays /\ now'.prompt = now.prompt
  BY <1>0, <1>1, TellsDoes, TextsApart
<1>3. now.prompt.effort \in BOOLEAN /\ playbook \in BOOLEAN
  BY <1>0, <1>1, PromptConstants DEF PromptTyped
<1>4. PromptTyped'
  BY <1>0, <1>1, <1>2, <1>3 DEF PromptTyped, PromptSteps
<1>5. ~Coming' /\ (Coming <=> session.inject)
  BY <1>1 DEF Coming
<1>6. /\ \A x : x \notin {"brief", "restate", "playbook"}
              => (x \in now'.out <=> x \in now.out) /\ (Out(x)' <=> Out(x))
      /\ Out("restate") \/ session.inject => Out("restate")'
      /\ Out("brief")' <=> Out("brief") \/ session.inject
      /\ Out("playbook")' <=> Out("playbook") \/ (now.prompt.effort /\ ~playbook)
  BY <1>1, <1>2 DEF Out
<1>7. ("brief" \in now'.out => shown["brief"] = 0) /\ ("playbook" \in now'.out => shown["playbook"] = 0)
  BY <1>0, <1>1, <1>2, <1>3, <1>5, TextsApart DEF Once, Marked, Out, PromptTyped
<1>8. Marked' /\ Once'
  BY <1>0, <1>1, <1>5, <1>6, <1>7, TextsApart DEF Marked, Once
<1>9. Seen'
  BY <1>0, <1>1, <1>3, <1>5, <1>6, TextsApart DEF Seen, PromptTyped, Ledgers
<1>10. Instructed'
  BY <1>0, <1>1, <1>6 DEF Instructed
<1> QED BY <1>4, <1>5, <1>8, <1>9, <1>10 DEF PromptInv

(* What was about to be printed is.                                        *)
LEMMA EmitKeeps ==
  ASSUME PromptInv, Emit
  PROVE  PromptInv'
<1>0. PromptTyped /\ Marked /\ Once /\ Seen /\ Instructed
  BY DEF PromptInv
<1>1. /\ pc = "ready" /\ pc' = "idle" /\ Printed(now.out) /\ now' = NoNow
      /\ UNCHANGED <<session, started, playbook, cut, kills, refused>>
  BY DEF Emit, Goes
<1>2. /\ shown' \in [Texts -> Nat]
      /\ \A x \in Texts : shown'[x] = IF x \in now.out THEN shown[x] + 1 ELSE shown[x]
  BY <1>0, <1>1, PrintedDoes
<1>3. NoNow \in Nows /\ NoNow.out = {}
  BY DEF NoNow, Nows, Modes
<1>4. PromptTyped'
  BY <1>0, <1>1, <1>2, <1>3 DEF PromptTyped, PromptSteps
<1>5. ~Coming /\ ~Coming'
  BY <1>1 DEF Coming
<1>6. \A x \in Texts : (Out(x)' <=> Out(x)) /\ (Out(x)' <=> shown'[x] > 0)
  BY <1>0, <1>1, <1>2, <1>3 DEF Out, PromptTyped
<1>7. Marked'
  BY <1>0, <1>1, <1>5, <1>6, TextsApart DEF Marked
<1>8. Once'
  BY <1>0, <1>1, <1>2, <1>3, TextsApart DEF Once, PromptTyped
<1>9. Seen'
  <2>1. shown["frame"] > 0 => shown'["frame"] > 0
    BY <1>0, <1>2, TextsApart DEF PromptTyped
  <2> QED BY <1>0, <1>1, <1>5, <1>6, <2>1, TextsApart DEF Seen, PromptTyped, Ledgers
<1>10. Instructed'
  <2>1. shown["restate"] > 0 => shown'["restate"] > 0
    BY <1>0, <1>2, TextsApart DEF PromptTyped
  <2>2. shown'["frame"] = shown["frame"]
    BY <1>0, <1>2, TextsApart DEF PromptTyped, Nows
  <2> QED BY <1>0, <1>1, <1>6, <2>1, <2>2, TextsApart DEF Instructed
<1> QED BY <1>4, <1>5, <1>7, <1>8, <1>9, <1>10 DEF PromptInv

LEMMA PromptKillKeeps ==
  ASSUME PromptInv, PromptKilled
  PROVE  PromptInv'
<1>0. PromptTyped /\ Marked /\ Once /\ Instructed
  BY DEF PromptInv
<1>1. /\ kills' = kills + 1 /\ pc' = "idle" /\ now' = NoNow
      /\ UNCHANGED <<session, started, playbook, shown, cut, refused>>
  BY DEF PromptKilled
<1>2. NoNow \in Nows /\ NoNow.out = {}
  BY DEF NoNow, Nows, Modes
<1>3. kills' \in Nat /\ kills' # 0
  BY <1>0, <1>1 DEF PromptTyped
<1>4. PromptTyped'
  BY <1>0, <1>1, <1>2, <1>3 DEF PromptTyped, PromptSteps
<1>5. ~Coming'
  BY <1>1 DEF Coming
<1>6. Marked' /\ Once'
  BY <1>0, <1>1, <1>2, <1>5 DEF Marked, Once, Out
<1>7. Seen' /\ Instructed'
  BY <1>0, <1>1, <1>3 DEF Seen, Instructed
<1> QED BY <1>4, <1>5, <1>6, <1>7 DEF PromptInv

(* A refusal that leaves the unlock lines out finds them told.             *)
LEMMA RefusalKeeps ==
  ASSUME PromptInv, RefuseEvidence
  PROVE  PromptInv'
<1>0. PromptTyped /\ Marked /\ Once /\ Seen /\ Instructed
  BY DEF PromptInv
<1> DEFINE knows == session.onboard \/ session.footer = session.task
           texts == IF knows THEN {} ELSE {"restate"}
<1>1. /\ pc = "idle" /\ session.task # NoText /\ refused' = TRUE /\ Printed(texts)
      /\ session' = [session EXCEPT !.footer = IF session.onboard THEN @ ELSE session.task]
      /\ UNCHANGED <<started, playbook, pc, now, cut, kills>>
  BY DEF RefuseEvidence
<1>2. /\ shown' \in [Texts -> Nat] /\ (~knows => shown'["restate"] > 0)
      /\ \A x \in Texts : x # "restate" \/ knows => shown'[x] = shown[x]
  <2> HIDE DEF knows
  <2> QED BY <1>0, <1>1, PrintedDoes, TextsApart DEF PromptTyped
<1>3. /\ session' \in Ledgers /\ session'.cite = session.cite
      /\ session'.fired = session.fired /\ session'.onboard = session.onboard
      /\ session'.frame = session.frame
      /\ session'.inject = session.inject /\ session'.brief = session.brief
      /\ session'.footer # NoText => session.footer # NoText \/ ~session.onboard
  BY <1>0, <1>1 DEF PromptTyped, Ledgers
<1>4. PromptTyped'
  BY <1>0, <1>1, <1>2, <1>3 DEF PromptTyped, PromptSteps
<1>5. ~Coming /\ ~Coming'
  BY <1>1 DEF Coming
<1>6. \A x \in OnceTexts : shown'[x] = shown[x] /\ (Out(x)' <=> Out(x))
  BY <1>1, <1>2, TextsApart DEF Out
<1>7. Marked' /\ Once'
  BY <1>0, <1>1, <1>3, <1>5, <1>6, TextsApart DEF Marked, Once
<1>8. Seen'
  BY <1>0, <1>1, <1>2, <1>3, <1>5, <1>6, TextsApart DEF Seen, PromptTyped, Ledgers
<1>9. kills = 0 => shown'["restate"] > 0
  <2> SUFFICES ASSUME kills = 0 PROVE shown'["restate"] > 0
    OBVIOUS
  <2>1. "restate" \notin now.out
    BY <1>0, <1>1 DEF PromptTyped, NoNow
  <2>2. knows => shown["restate"] > 0
    BY <1>0, <1>1, <2>1 DEF Instructed, Out
  <2> HIDE DEF knows
  <2> QED BY <1>2, <2>2, TextsApart
<1>10. shown'["frame"] = shown["frame"] /\ (shown["restate"] > 0 => shown'["restate"] > 0)
  <2> HIDE DEF knows
  <2> QED BY <1>2, TextsApart
<1>11. Instructed'
  BY <1>0, <1>1, <1>9, <1>10 DEF Instructed, Out
<1> QED BY <1>4, <1>5, <1>7, <1>8, <1>11 DEF PromptInv

LEMMA PromptStepKeeps == PromptInv /\ [PromptNext]_promptVars => PromptInv'
<1> SUFFICES ASSUME PromptInv, [PromptNext]_promptVars PROVE PromptInv'
  OBVIOUS
<1>1. ASSUME NEW p \in Prompts, Route(p) PROVE PromptInv'
  BY <1>1, RouteKeeps
<1>2. ASSUME NEW answers \in BOOLEAN, NEW enhances \in BOOLEAN, Classify(answers, enhances) PROVE PromptInv'
  BY <1>2, ClassifyKeeps
<1>3. CASE FrameMarked \/ FramePrinted \/ NoFrame
  BY <1>3, FrameKeeps, FramePrintKeeps
<1>4. CASE Apply \/ CiteFooter \/ PlanLine \/ Scaffold \/ Effort \/ Emit
  BY <1>4, ApplyKeeps, CiteKeeps, PlanKeeps, ScaffoldKeeps, EffortKeeps, EmitKeeps
<1>5. CASE PromptKilled \/ RefuseEvidence
  BY <1>5, PromptKillKeeps, RefusalKeeps
<1>6. CASE UNCHANGED promptVars
  BY <1>6 DEF promptVars, PromptInv, PromptTyped, Coming, Marked, Once, Seen, Instructed, Out
<1> QED BY <1>1, <1>2, <1>3, <1>4, <1>5, <1>6 DEF PromptNext

LEMMA OutAtRest ==
  ASSUME PromptInv, pc = "idle"
  PROVE  ~Coming /\ \A x : Out(x) <=> shown[x] > 0
BY DEF PromptInv, PromptTyped, NoNow, Coming, Out

(***************************************************************************)
(* Each text that belongs once into a session is printed once; what is     *)
(* marked as told was printed, and who is refused for want of evidence has *)
(* been told what to do, unless a hook was killed: for any prompts, packs, *)
(* verdicts of the grade judge and order of refusals (gate_prompt, apply,  *)
(* session_start, block_context).                                          *)
(***************************************************************************)
THEOREM InstructedAlwaysOnce == PromptSpec => []InstructedOnce
<1>1. PromptInit => PromptInv
  BY PromptStarted
<1>2. PromptInv /\ [PromptNext]_promptVars => PromptInv'
  BY PromptStepKeeps
<1>3. PromptInv => InstructedOnce
  <2> SUFFICES ASSUME PromptInv PROVE InstructedOnce
    OBVIOUS
  <2>0. PromptTyped /\ Once /\ Seen /\ Instructed
    BY DEF PromptInv
  <2>1. ShownOnce
    BY <2>0 DEF ShownOnce, Once
  <2>2. MarkedIsShown
    BY <2>0, OutAtRest DEF MarkedIsShown, Seen
  <2>3. RefusedIsInstructed
    BY <2>0 DEF RefusedIsInstructed, Instructed
  <2> QED BY <2>1, <2>2, <2>3 DEF InstructedOnce
<1> QED BY <1>1, <1>2, <1>3, PTL DEF PromptSpec

----------------------------------------------------------------------------
(* PostTool: the hooks of a batch and their jobs.                          *)

ToolTexts == {"failure", "hint"}
Times == [at : Nat, epoch : {NoTurn} \cup (Nat \X Nat)]
DedupMarks == [epoch : {NoTurn} \cup Nat, body : SUBSET ToolTexts, hint : BOOLEAN]
Speech == [epoch : Nat, body : SUBSET ToolTexts]
Children == [pc : {"free", "judges", "applies"}, discover : BOOLEAN, found : Seq(Titles)]
ToolCallers ==
  [pc : {"idle", "log", "logged", "wants", "claims", "claimed", "tells", "prepared", "emits"},
   research : BOOLEAN, fails : BOOLEAN, epoch : {NoTurn} \cup (Nat \X Nat), ts : Nat, seen : DedupMarks,
   discover : BOOLEAN, parts : SUBSET ToolTexts]

ToolTyped ==
  /\ clock \in Nat /\ turn \in Nat /\ lines \in Nat
  /\ claim \in Times /\ grants \in Seq(Times)
  /\ marks \in DedupMarks /\ said \in Seq(Speech) /\ overlap \in BOOLEAN
  /\ board \in Seq(Titles)
  /\ hook \in [Hooks -> ToolCallers] /\ job \in [Jobs -> Children]

(* The board never holds an approach twice.                                *)
Distinct(s) == \A i, k \in DOMAIN s : i # k => s[i] # s[k]
BoardDistinct == Len(board) <= MaxFrontiers /\ Distinct(board)

(* The claim is the last one granted.                                      *)
Granted == OneClaim /\ (grants # <<>> => claim = grants[Len(grants)])

(* Who is about to tell has the lock and the marks; the marks are of what  *)
(* was told last.                                                          *)
Speaking ==
  /\ \A h \in Hooks : hook[h].pc = "emits" => emitLock = h /\ (~overlap => hook[h].seen = marks)
  /\ ~overlap /\ said # <<>> => marks.epoch = said[Len(said)].epoch /\ marks.body = said[Len(said)].body
  /\ ContextNotRepeated

ToolInv == ToolTyped /\ BoardDistinct /\ Granted /\ Speaking

LEMMA DistinctCount ==
  ASSUME NEW s \in Seq(Titles), Distinct(s)
  PROVE  Cardinality(ToSet(s)) = Len(s)
<1>1. s \in [1..Len(s) -> ToSet(s)] /\ ToSet(s) = {s[i] : i \in 1..Len(s)}
  BY DEF ToSet
<1>2. s \in Surjection(1..Len(s), ToSet(s))
  BY <1>1 DEF Surjection
<1>3. s \in Injection(1..Len(s), ToSet(s))
  BY <1>1 DEF Injection, Distinct, IsInjective
<1>4. IsFiniteSet(1..Len(s)) /\ Cardinality(1..Len(s)) = Len(s)
  <2> DEFINE n == Len(s)
  <2>1. n \in Nat
    OBVIOUS
  <2> HIDE DEF n
  <2>2. IsFiniteSet(1..n) /\ Cardinality(1..n) = IF 1 > n THEN 0 ELSE n - 1 + 1
    BY <2>1, FS_Interval
  <2>3. Cardinality(1..n) = n
    BY <2>1, <2>2
  <2> QED BY <2>2, <2>3 DEF n
<1> DEFINE S == 1..Len(s)
           T == ToSet(s)
<1> HIDE DEF S, T
<1>5. Cardinality(T) = Cardinality(S) <=> s \in Injection(S, T)
  BY <1>2, <1>4, FS_Surjection DEF S, T
<1> QED BY <1>3, <1>4, <1>5 DEF S, T

LEMMA DistinctJoin ==
  ASSUME NEW s \in Seq(Titles), NEW t \in Seq(Titles), Distinct(s), Distinct(t),
         \A i \in DOMAIN t : t[i] \notin ToSet(s)
  PROVE  s \o t \in Seq(Titles) /\ Len(s \o t) = Len(s) + Len(t) /\ Distinct(s \o t)
<1>1. s \o t \in Seq(Titles) /\ Len(s \o t) = Len(s) + Len(t)
  OBVIOUS
<1> DEFINE st == s \o t
<1>2. /\ \A i \in 1..Len(s) : st[i] = s[i]
      /\ \A i \in 1..Len(st) : i > Len(s) => i - Len(s) \in 1..Len(t) /\ st[i] = t[i - Len(s)]
  OBVIOUS
<1>3. \A i \in 1..Len(s), k \in 1..Len(t) : t[k] # s[i]
  BY DEF ToSet
<1> HIDE DEF st
<1>4. \A i, k \in 1..Len(st) : i # k => st[i] # st[k]
  <2> SUFFICES ASSUME NEW i \in 1..Len(st), NEW k \in 1..Len(st), i < k PROVE st[i] # st[k]
    BY <1>1 DEF st
  <2>0. i \in Nat /\ k \in Nat /\ i >= 1 /\ k >= 1 /\ Len(s) \in Nat /\ k <= Len(s) + Len(t)
    BY <1>1 DEF st
  <2>1. CASE k <= Len(s)
    BY <1>2, <2>0, <2>1 DEF Distinct
  <2>2. CASE i <= Len(s) /\ k > Len(s)
    <3>1. st[i] = s[i] /\ i \in 1..Len(s)
      BY <1>2, <2>0, <2>2
    <3>2. st[k] = t[k - Len(s)] /\ k - Len(s) \in 1..Len(t)
      BY <1>2, <2>0, <2>2
    <3> QED BY <1>3, <3>1, <3>2
  <2>3. CASE i > Len(s)
    <3>1. i - Len(s) \in 1..Len(t) /\ k - Len(s) \in 1..Len(t) /\ i - Len(s) # k - Len(s)
      BY <1>2, <2>0, <2>3
    <3>2. st[i] = t[i - Len(s)] /\ st[k] = t[k - Len(s)]
      <4>1. k > Len(s)
        BY <2>0, <2>3
      <4> QED BY <1>2, <2>3, <4>1
    <3>3. t[i - Len(s)] # t[k - Len(s)]
      BY <3>1 DEF Distinct
    <3> QED BY <3>2, <3>3
  <2> QED BY <2>1, <2>2, <2>3
<1> QED BY <1>1, <1>4 DEF Distinct, st

(* What is added is new, distinct and no more than there is room for.      *)
LEMMA AddedSound ==
  ASSUME NEW base \in Seq(Titles), Len(base) <= MaxFrontiers, NEW found \in Seq(Titles),
         NEW added \in Added(base, found)
  PROVE  /\ added \in Seq(Titles) /\ Len(base) + Len(added) <= MaxFrontiers /\ Distinct(added)
         /\ \A i \in DOMAIN added : added[i] \notin ToSet(base)
<1> DEFINE new == {i \in DOMAIN found : found[i] \notin ToSet(base) /\ \A k \in 1..(i - 1) : found[k] # found[i]}
           room == IF Len(base) < MaxFrontiers THEN MaxFrontiers - Len(base) ELSE 0
           n == IF Cardinality(new) < room THEN Cardinality(new) ELSE room
<1>1. PICK at \in [1..n -> new] :
        /\ added = [k \in 1..n |-> found[at[k]]]
        /\ \A k, m \in 1..n : k < m => at[k] < at[m]
  BY DEF Added
<1>2. /\ new \subseteq 1..Len(found)
      /\ \A i \in new : found[i] \in Titles /\ found[i] \notin ToSet(base)
      /\ \A i, k \in new : k < i => found[k] # found[i]
  OBVIOUS
<1>3. Cardinality(new) \in Nat
  <2> HIDE DEF new
  <2>1. IsFiniteSet(1..Len(found))
    BY FS_Interval
  <2> QED BY <1>2, <2>1, FS_Subset, FS_CardinalityType
<1>4. room \in Nat /\ Len(base) + room = MaxFrontiers
  BY ToolConstants
<1>5. n \in Nat /\ Len(base) + n <= MaxFrontiers
  <2> HIDE DEF new, room
  <2> QED BY <1>3, <1>4, ToolConstants
<1> HIDE DEF new, room, n
<1>6. \A k \in 1..n : at[k] \in new /\ added[k] = found[at[k]]
  BY <1>1
<1>7. added \in Seq(Titles) /\ Len(added) = n /\ DOMAIN added = 1..n
  <2>1. \A k \in 1..n : found[at[k]] \in Titles
    BY <1>2, <1>6
  <2> QED BY <1>1, <1>5, <2>1
<1>8. \A k, m \in 1..n : k < m => added[k] # added[m]
  BY <1>1, <1>2, <1>6
<1>9. Distinct(added)
  BY <1>5, <1>7, <1>8 DEF Distinct
<1> QED BY <1>2, <1>5, <1>6, <1>7, <1>9

LEMMA DistinctPushed ==
  ASSUME NEW s \in Seq(Titles), NEW t \in Titles, Distinct(s), t \notin ToSet(s)
  PROVE  Append(s, t) \in Seq(Titles) /\ Len(Append(s, t)) = Len(s) + 1 /\ Distinct(Append(s, t))
BY DEF Distinct, ToSet

LEMMA ToolStarted == ToolInit => ToolInv
<1> SUFFICES ASSUME ToolInit PROVE ToolInv
  OBVIOUS
<1>1. JobFree \in Children
  BY DEF JobFree, Children
<1>2. Unmarked \in DedupMarks
  BY DEF Unmarked, DedupMarks, ToolTexts
<1>3. HookIdle \in ToolCallers /\ HookIdle.pc = "idle"
  BY <1>2 DEF HookIdle, ToolCallers, ToolTexts
<1>4. ToolTyped
  <2>1. claim \in Times
    BY DEF ToolInit, Times
  <2>2. grants \in Seq(Times) /\ said \in Seq(Speech) /\ board \in Seq(Titles)
    BY DEF ToolInit
  <2>3. hook \in [Hooks -> ToolCallers]
    BY <1>3 DEF ToolInit
  <2>4. job \in [Jobs -> Children]
    BY <1>1 DEF ToolInit
  <2>5. /\ clock \in Nat /\ turn \in Nat /\ lines \in Nat
        /\ marks \in DedupMarks /\ overlap \in BOOLEAN
    BY <1>2 DEF ToolInit
  <2> QED BY <2>1, <2>2, <2>3, <2>4, <2>5 DEF ToolTyped
<1>5. BoardDistinct
  BY ToolConstants DEF ToolInit, BoardDistinct, Distinct
<1>6. Granted
  BY DEF ToolInit, Granted, OneClaim
<1>7. Speaking
  BY <1>3 DEF ToolInit, Speaking, ContextNotRepeated
<1> QED BY <1>4, <1>5, <1>6, <1>7 DEF ToolInv

(* What one hook does to itself.                                           *)
LEMMA HookMoves ==
  ASSUME ToolTyped, NEW h \in Hooks, NEW st \in ToolCallers, hook' = [hook EXCEPT ![h] = st]
  PROVE  hook' \in [Hooks -> ToolCallers] /\ hook'[h] = st /\ \A g \in Hooks \ {h} : hook'[g] = hook[g]
BY DEF ToolTyped

(* Steps of a hook on the way to its claim, or to what it tells.           *)
LEMMA QuietKeeps ==
  ASSUME ToolInv, NEW h \in Hooks, NEW st \in ToolCallers, hook' = [hook EXCEPT ![h] = st],
         st.pc # "emits", job' \in [Jobs -> Children],
         UNCHANGED <<world, claim, grants, board, spoken>>
  PROVE  ToolInv'
<1>1. ToolTyped /\ BoardDistinct /\ Granted /\ Speaking
  BY DEF ToolInv
<1>2. hook' \in [Hooks -> ToolCallers] /\ hook'[h] = st /\ \A g \in Hooks \ {h} : hook'[g] = hook[g]
  BY <1>1, HookMoves
<1>3. ToolTyped'
  BY <1>1, <1>2 DEF ToolTyped, world, spoken
<1>4. BoardDistinct' /\ Granted'
  BY <1>1 DEF BoardDistinct, Granted, OneClaim
<1>5. Speaking'
  BY <1>1, <1>2 DEF Speaking, ContextNotRepeated, spoken
<1> QED BY <1>3, <1>4, <1>5 DEF ToolInv

LEMMA LogKeeps ==
  ASSUME ToolInv, NEW h \in Hooks, NEW research \in BOOLEAN, NEW fails \in BOOLEAN,
         LogLoads(h, research, fails)
  PROVE  ToolInv'
<1> DEFINE st == [HookIdle EXCEPT !.pc = "log", !.research = research, !.fails = fails, !.seen = marks]
<1>1. hook' = [hook EXCEPT ![h] = st] /\ UNCHANGED <<world, claim, grants, board, job, spoken>>
  BY DEF LogLoads
<1>2. ToolTyped
  BY DEF ToolInv
<1>3. st \in ToolCallers /\ st.pc # "emits"
  BY <1>2 DEF HookIdle, ToolCallers, ToolTexts, ToolTyped
<1>4. job' \in [Jobs -> Children]
  BY <1>1, <1>2 DEF ToolTyped
<1> HIDE DEF st
<1> QED BY <1>1, <1>3, <1>4, QuietKeeps

LEMMA ToolPlanKeeps ==
  ASSUME ToolInv, NEW h \in Hooks, NEW evidence \in BOOLEAN, Plan(h, evidence)
  PROVE  ToolInv'
<1>1. ToolTyped
  BY DEF ToolInv
<1>2. PICK discover \in BOOLEAN, pc2 \in {"wants", "tells"} :
        hook' = [hook EXCEPT ![h].discover = discover, ![h].pc = pc2]
  BY <1>1 DEF Plan, ToolTyped, ToolCallers
<1>3. UNCHANGED <<world, claim, grants, board, job, spoken>>
  BY DEF Plan
<1> DEFINE st == [hook[h] EXCEPT !.discover = discover, !.pc = pc2]
<1>4. hook[h] \in ToolCallers
  BY <1>1 DEF ToolTyped
<1>5. st \in ToolCallers /\ st.pc # "emits"
  BY <1>4 DEF ToolCallers
<1>6. hook' = [hook EXCEPT ![h] = st]
  BY <1>1, <1>2 DEF ToolTyped
<1>7. job' \in [Jobs -> Children]
  BY <1>1, <1>3 DEF ToolTyped
<1> HIDE DEF st
<1> QED BY <1>3, <1>5, <1>6, <1>7, QuietKeeps

LEMMA ReadKeeps ==
  ASSUME ToolInv, NEW h \in Hooks, NEW readable \in BOOLEAN, ReadEpoch(h, readable)
  PROVE  ToolInv'
<1>1. ToolTyped
  BY DEF ToolInv
<1> DEFINE st == [hook[h] EXCEPT !.ts = clock, !.pc = IF readable THEN "claims" ELSE "claimed",
                                 !.epoch = IF readable THEN <<turn, lines>> ELSE NoTurn]
<1>2. hook' = [hook EXCEPT ![h] = st]
  BY <1>1 DEF ReadEpoch, ToolTyped
<1>3. UNCHANGED <<world, claim, grants, board, job, spoken>>
  BY DEF ReadEpoch
<1>4. hook[h] \in ToolCallers /\ clock \in Nat /\ <<turn, lines>> \in Nat \X Nat
  BY <1>1 DEF ToolTyped
<1>5. st \in ToolCallers /\ st.pc # "emits"
  BY <1>4 DEF ToolCallers
<1>6. job' \in [Jobs -> Children]
  BY <1>1, <1>3 DEF ToolTyped
<1> HIDE DEF st
<1> QED BY <1>2, <1>3, <1>5, <1>6, QuietKeeps

LEMMA ChildStarts ==
  ASSUME NEW discover \in BOOLEAN
  PROVE  [JobFree EXCEPT !.pc = "judges", !.discover = discover] \in Children
<1>1. JobFree \in Children
  BY DEF JobFree, Children
<1>2. \A child \in Children : [child EXCEPT !.pc = "judges", !.discover = discover] \in Children
  BY DEF Children
<1> QED BY <1>1, <1>2

LEMMA SpawnKeeps ==
  ASSUME ToolInv, NEW h \in Hooks, Spawn(h)
  PROVE  ToolInv'
<1>1. ToolTyped
  BY DEF ToolInv
<1> DEFINE st == [hook[h] EXCEPT !.pc = "tells"]
<1>2. hook' = [hook EXCEPT ![h] = st] /\ UNCHANGED <<world, claim, grants, board, spoken>>
  BY <1>1 DEF Spawn, At, ToolTyped
<1>3. hook[h] \in ToolCallers
  BY <1>1 DEF ToolTyped
<1>4. st \in ToolCallers /\ st.pc # "emits"
  BY <1>3 DEF ToolCallers
<1>5. job' \in [Jobs -> Children]
  <2>1. CASE UNCHANGED job
    BY <1>1, <2>1 DEF ToolTyped
  <2>2. CASE \E j \in Jobs :
               job' = [job EXCEPT ![j] = [JobFree EXCEPT !.pc = "judges", !.discover = hook[h].discover]]
    <3>1. PICK j \in Jobs :
            job' = [job EXCEPT ![j] = [JobFree EXCEPT !.pc = "judges", !.discover = hook[h].discover]]
      BY <2>2
    <3> DEFINE child == [JobFree EXCEPT !.pc = "judges", !.discover = hook[h].discover]
    <3>2. hook[h].discover \in BOOLEAN
      BY <1>3 DEF ToolCallers
    <3>4. child \in Children
      BY <3>2, ChildStarts
    <3> HIDE DEF child
    <3> QED BY <1>1, <3>1, <3>4 DEF ToolTyped, child
  <2> QED BY <2>1, <2>2 DEF Spawn
<1> HIDE DEF st
<1> QED BY <1>2, <1>4, <1>5, QuietKeeps

LEMMA PrepareKeeps ==
  ASSUME ToolInv, NEW h \in Hooks, NEW parts \in SUBSET ToolTexts, Prepare(h, parts)
  PROVE  ToolInv'
<1>1. ToolTyped
  BY DEF ToolInv
<1>2. Unmarked \in DedupMarks
  BY DEF Unmarked, DedupMarks, ToolTexts
<1>3. HookIdle \in ToolCallers /\ HookIdle.pc = "idle"
  BY <1>2 DEF HookIdle, ToolCallers, ToolTexts
<1>4. PICK body \in SUBSET ToolTexts :
        hook' = [hook EXCEPT ![h] = IF body = {} THEN HookIdle ELSE [HookIdle EXCEPT !.pc = "prepared", !.parts = body]]
  BY DEF Prepare
<1>5. [HookIdle EXCEPT !.pc = "prepared", !.parts = body] \in ToolCallers
      /\ [HookIdle EXCEPT !.pc = "prepared", !.parts = body].pc = "prepared"
  BY <1>2 DEF HookIdle, ToolCallers
<1> DEFINE st == IF body = {} THEN HookIdle ELSE [HookIdle EXCEPT !.pc = "prepared", !.parts = body]
<1>6. st \in ToolCallers /\ st.pc # "emits" /\ hook' = [hook EXCEPT ![h] = st]
  BY <1>3, <1>4, <1>5
<1>7. job' \in [Jobs -> Children] /\ UNCHANGED <<world, claim, grants, board, spoken>>
  BY <1>1 DEF Prepare, ToolTyped
<1> HIDE DEF st
<1> QED BY <1>6, <1>7, QuietKeeps

(* Of two grants of one epoch, the later one was refused while it was the  *)
(* claim of the earlier: a claim is never granted over its own.            *)
LEMMA ClaimKeeps ==
  ASSUME ToolInv, NEW h \in Hooks, Claim(h)
  PROVE  ToolInv'
<1>1. ToolTyped /\ BoardDistinct /\ Granted /\ Speaking
  BY DEF ToolInv
<1>2. hook[h] \in ToolCallers /\ UNCHANGED <<world, board, job, spoken>>
  BY <1>1 DEF ToolTyped, Claim
<1>3. CASE Claimed(h)
  <2> DEFINE st == [hook[h] EXCEPT !.pc = "tells"]
  <2>1. hook' = [hook EXCEPT ![h] = st] /\ UNCHANGED <<claim, grants>>
    BY <1>1, <1>3 DEF Claim, ToolTyped
  <2>2. st \in ToolCallers /\ st.pc # "emits"
    BY <1>2 DEF ToolCallers
  <2>3. job' \in [Jobs -> Children]
    BY <1>1, <1>2 DEF ToolTyped
  <2> HIDE DEF st
  <2> QED BY <1>2, <2>1, <2>2, <2>3, QuietKeeps
<1>4. CASE ~Claimed(h)
  <2> DEFINE st == [hook[h] EXCEPT !.pc = "claimed"]
             fresh == [at |-> hook[h].ts, epoch |-> hook[h].epoch]
  <2>1. hook' = [hook EXCEPT ![h] = st] /\ claim' = fresh /\ grants' = Append(grants, fresh)
    BY <1>1, <1>4 DEF Claim, ToolTyped
  <2>2. st \in ToolCallers /\ st.pc # "emits"
    BY <1>2 DEF ToolCallers
  <2>3. hook[h].ts \in Nat /\ hook[h].epoch \in {NoTurn} \cup (Nat \X Nat)
    BY <1>2 DEF ToolCallers
  <2>4. fresh \in Times /\ fresh.at = hook[h].ts /\ fresh.epoch = hook[h].epoch
    BY <2>3 DEF Times
  <2>5. ~(claim.epoch = fresh.epoch /\ Distance(claim.at, fresh.at) < Window)
    <3>1. claim.at \in Nat
      BY <1>1 DEF ToolTyped, Times
    <3>2. Distance(fresh.at, claim.at) = Distance(claim.at, fresh.at)
      BY <2>3, <2>4, <3>1 DEF Distance
    <3> QED BY <1>4, <2>4, <3>2 DEF Claimed
  <2> HIDE DEF st, fresh
  <2>6. hook' \in [Hooks -> ToolCallers] /\ hook'[h] = st /\ \A g \in Hooks \ {h} : hook'[g] = hook[g]
    BY <1>1, <2>1, <2>2, HookMoves
  <2>7. grants \in Seq(Times) /\ grants' \in Seq(Times) /\ Len(grants') = Len(grants) + 1
        /\ grants'[Len(grants')] = fresh /\ (\A i \in DOMAIN grants : grants'[i] = grants[i])
        /\ DOMAIN grants' = DOMAIN grants \cup {Len(grants')} /\ DOMAIN grants = 1..Len(grants)
    BY <1>1, <2>1, <2>4 DEF ToolTyped
  <2>8. ToolTyped'
    BY <1>1, <1>2, <2>1, <2>4, <2>6, <2>7 DEF ToolTyped, world, spoken
  <2>9. OneClaim'
    <3> SUFFICES ASSUME NEW i \in DOMAIN grants', NEW k \in DOMAIN grants', i < k,
                        grants'[i].epoch = grants'[k].epoch,
                        Distance(grants'[i].at, grants'[k].at) < Window
                 PROVE  \E j \in (i + 1)..(k - 1) :
                          grants'[j].epoch # grants'[k].epoch \/ Distance(grants'[j].at, grants'[k].at) >= Window
      BY DEF OneClaim
    <3>0. i \in Nat /\ k \in Nat /\ Len(grants) \in Nat /\ i >= 1 /\ k <= Len(grants) + 1
      BY <2>7
    <3>1. i \in DOMAIN grants
      BY <2>7, <3>0
    <3>2. CASE k \in DOMAIN grants
      <4>1. grants'[i] = grants[i] /\ grants'[k] = grants[k]
        BY <2>7, <3>1, <3>2
      <4>2. PICK j \in (i + 1)..(k - 1) :
              grants[j].epoch # grants[k].epoch \/ Distance(grants[j].at, grants[k].at) >= Window
        BY <1>1, <3>1, <3>2, <4>1 DEF Granted, OneClaim
      <4>3. grants'[j] = grants[j]
        BY <2>7, <3>0, <3>2, <4>2
      <4> QED BY <4>1, <4>2, <4>3
    <3>3. CASE k = Len(grants')
      <4> DEFINE j == Len(grants)
      <4>1. j \in DOMAIN grants /\ grants'[j] = claim
        BY <1>1, <2>7, <3>0, <3>1 DEF Granted
      <4>2. grants'[k] = fresh
        BY <2>7, <3>3
      <4>3. fresh.at \in Nat /\ claim.at \in Nat
        BY <1>1, <2>4 DEF ToolTyped, Times
      <4>4. Distance(claim.at, fresh.at) \in Nat
        BY <4>3 DEF Distance
      <4>5. claim.epoch # fresh.epoch \/ ~(Distance(claim.at, fresh.at) < Window)
        BY <2>5
      <4>6. i # j
        BY <2>5, <4>1, <4>2
      <4>7. j \in (i + 1)..(k - 1)
        BY <2>7, <3>0, <3>1, <3>3, <4>6
      <4>8. claim.epoch # fresh.epoch \/ Distance(claim.at, fresh.at) >= Window
        BY <4>4, <4>5, ToolConstants
      <4> QED BY <4>1, <4>2, <4>7, <4>8
    <3> QED BY <2>7, <3>2, <3>3
  <2>10. Granted'
    BY <2>1, <2>7, <2>9 DEF Granted
  <2>11. BoardDistinct'
    BY <1>1, <1>2 DEF BoardDistinct
  <2>12. Speaking'
    BY <1>1, <1>2, <2>2, <2>6 DEF Speaking, ContextNotRepeated, spoken
  <2> QED BY <2>8, <2>10, <2>11, <2>12 DEF ToolInv
<1> QED BY <1>3, <1>4

LEMMA LogSavesKeeps ==
  ASSUME ToolInv, NEW h \in Hooks, LogSaves(h)
  PROVE  ToolInv'
<1>1. ToolTyped /\ BoardDistinct /\ Granted /\ Speaking
  BY DEF ToolInv
<1> DEFINE st == [hook[h] EXCEPT !.pc = "logged"]
<1>2. /\ hook' = [hook EXCEPT ![h] = st] /\ hook[h] \in ToolCallers
      /\ UNCHANGED <<world, claim, board, emitLock, job, grants, said>>
  BY <1>1 DEF LogSaves, At, ToolTyped
<1>3. st \in ToolCallers /\ st.pc # "emits"
  BY <1>2 DEF ToolCallers
<1>4. marks' \in DedupMarks /\ overlap' \in BOOLEAN
  BY <1>1, <1>2 DEF LogSaves, ToolCallers, ToolTyped
<1>5. ~overlap' => ~overlap /\ marks' = marks
  BY DEF LogSaves
<1> HIDE DEF st
<1>6. hook' \in [Hooks -> ToolCallers] /\ hook'[h] = st /\ \A g \in Hooks \ {h} : hook'[g] = hook[g]
  BY <1>1, <1>2, <1>3, HookMoves
<1>7. ToolTyped'
  BY <1>1, <1>2, <1>4, <1>6 DEF ToolTyped, world
<1>8. BoardDistinct' /\ Granted'
  BY <1>1, <1>2 DEF BoardDistinct, Granted, OneClaim
<1>9. Speaking'
  <2>1. \A g \in Hooks : hook'[g].pc = "emits" => emitLock' = g /\ (~overlap' => hook'[g].seen = marks')
    BY <1>1, <1>2, <1>3, <1>5, <1>6 DEF Speaking
  <2>2. ~overlap' /\ said' # <<>> => marks'.epoch = said'[Len(said')].epoch /\ marks'.body = said'[Len(said')].body
    BY <1>1, <1>2, <1>5 DEF Speaking
  <2>3. ContextNotRepeated'
    BY <1>1, <1>2, <1>5 DEF Speaking, ContextNotRepeated
  <2> QED BY <2>1, <2>2, <2>3 DEF Speaking
<1> QED BY <1>7, <1>8, <1>9 DEF ToolInv

(* Who takes the lock sees the marks, and nobody else is about to tell.    *)
LEMMA EmitLoadsKeeps ==
  ASSUME ToolInv, NEW h \in Hooks, EmitLoads(h)
  PROVE  ToolInv'
<1>1. ToolTyped /\ BoardDistinct /\ Granted /\ Speaking
  BY DEF ToolInv
<1> DEFINE st == [hook[h] EXCEPT !.pc = "emits", !.seen = marks]
<1>2. /\ hook' = [hook EXCEPT ![h] = st] /\ hook[h] \in ToolCallers
      /\ emitLock = Unheld /\ emitLock' = h
      /\ UNCHANGED <<world, claim, board, job, grants, marks, said, overlap>>
  BY <1>1 DEF EmitLoads, ToolTyped
<1>3. st \in ToolCallers /\ st.seen = marks
  BY <1>1, <1>2 DEF ToolCallers, ToolTyped
<1> HIDE DEF st
<1>4. hook' \in [Hooks -> ToolCallers] /\ hook'[h] = st /\ \A g \in Hooks \ {h} : hook'[g] = hook[g]
  BY <1>1, <1>2, <1>3, HookMoves
<1>5. \A g \in Hooks : hook[g].pc # "emits"
  BY <1>1, <1>2, ToolConstants DEF Speaking, Unheld
<1>6. ToolTyped'
  BY <1>1, <1>2, <1>4 DEF ToolTyped, world
<1>7. BoardDistinct' /\ Granted'
  BY <1>1, <1>2 DEF BoardDistinct, Granted, OneClaim
<1>8. Speaking'
  BY <1>1, <1>2, <1>3, <1>4, <1>5 DEF Speaking, ContextNotRepeated
<1> QED BY <1>6, <1>7, <1>8 DEF ToolInv

LEMMA IdleCaller == HookIdle \in ToolCallers /\ HookIdle.pc = "idle"
<1>1. Unmarked \in DedupMarks
  BY DEF Unmarked, DedupMarks, ToolTexts
<1> QED BY <1>1 DEF HookIdle, ToolCallers, ToolTexts

LEMMA KillKeeps ==
  ASSUME ToolInv, NEW h \in Hooks, ToolKilled(h)
  PROVE  ToolInv'
<1>1. ToolTyped /\ BoardDistinct /\ Granted /\ Speaking
  BY DEF ToolInv
<1>2. /\ hook' = [hook EXCEPT ![h] = HookIdle]
      /\ emitLock' = (IF emitLock = h THEN Unheld ELSE emitLock)
      /\ UNCHANGED <<world, claim, board, job, grants, marks, said, overlap>>
  BY DEF ToolKilled
<1>3. hook' \in [Hooks -> ToolCallers] /\ hook'[h] = HookIdle /\ \A g \in Hooks \ {h} : hook'[g] = hook[g]
  BY <1>1, <1>2, IdleCaller, HookMoves
<1>4. ToolTyped'
  BY <1>1, <1>2, <1>3 DEF ToolTyped, world
<1>5. BoardDistinct' /\ Granted'
  BY <1>1, <1>2 DEF BoardDistinct, Granted, OneClaim
<1>6. \A g \in Hooks : hook'[g].pc = "emits" => emitLock' = g /\ (~overlap' => hook'[g].seen = marks')
  BY <1>1, <1>2, <1>3, IdleCaller DEF Speaking
<1>7. Speaking'
  BY <1>1, <1>2, <1>6 DEF Speaking, ContextNotRepeated
<1> QED BY <1>4, <1>5, <1>7 DEF ToolInv

(* What was told last is what the marks, seen under the lock, say.         *)
LEMMA EmitSavesKeeps ==
  ASSUME ToolInv, NEW h \in Hooks, EmitSaves(h)
  PROVE  ToolInv'
<1>1. ToolTyped /\ BoardDistinct /\ Granted /\ Speaking
  BY DEF ToolInv
<1> DEFINE body == hook[h].parts
           seen == hook[h].seen
           word == [epoch |-> turn, body |-> body]
           stamp == [epoch |-> turn, body |-> body, hint |-> seen.hint \/ "hint" \in body]
<1>2. /\ hook' = [hook EXCEPT ![h] = HookIdle] /\ hook[h].pc = "emits" /\ emitLock' = Unheld
      /\ UNCHANGED <<world, claim, board, job, grants, overlap>>
  BY DEF EmitSaves
<1>3. \/ seen.epoch = turn /\ seen.body = body /\ UNCHANGED <<marks, said>>
      \/ ~(seen.epoch = turn /\ seen.body = body) /\ marks' = stamp /\ said' = Append(said, word)
  BY DEF EmitSaves
<1>4. hook[h] \in ToolCallers /\ turn \in Nat
  BY <1>1 DEF ToolTyped
<1>5. body \in SUBSET ToolTexts /\ seen \in DedupMarks
  BY <1>4 DEF ToolCallers
<1>6. word \in Speech /\ stamp \in DedupMarks
  <2>1. word \in Speech
    BY <1>4, <1>5 DEF Speech
  <2> DEFINE hinted == seen.hint \/ "hint" \in body
  <2>2. hinted \in BOOLEAN
    BY Zenon
  <2> HIDE DEF hinted
  <2>3. [epoch |-> turn, body |-> body, hint |-> hinted] \in DedupMarks
    BY <1>4, <1>5, <2>2 DEF DedupMarks
  <2> QED BY <2>1, <2>3 DEF hinted
<1>7. word.epoch = turn /\ word.body = body /\ stamp.epoch = turn /\ stamp.body = body
  OBVIOUS
<1>8. ~overlap => seen = marks
  BY <1>1, <1>2 DEF Speaking
<1>9. \A g \in Hooks \ {h} : hook[g].pc # "emits"
  BY <1>1, <1>2 DEF Speaking
<1> HIDE DEF body, seen, word, stamp
<1>10. hook' \in [Hooks -> ToolCallers] /\ hook'[h] = HookIdle /\ \A g \in Hooks \ {h} : hook'[g] = hook[g]
  BY <1>1, <1>2, IdleCaller, HookMoves
<1>11. said \in Seq(Speech)
  BY <1>1 DEF ToolTyped
<1>12. ToolTyped'
  <2>1. CASE UNCHANGED <<marks, said>>
    BY <1>1, <1>2, <1>10, <2>1 DEF ToolTyped, world
  <2>2. CASE marks' = stamp /\ said' = Append(said, word)
    <3>1. marks' \in DedupMarks /\ said' \in Seq(Speech)
      BY <1>6, <1>11, <2>2
    <3> QED BY <1>1, <1>2, <1>10, <3>1 DEF ToolTyped, world
  <2> QED BY <1>3, <2>1, <2>2
<1>13. BoardDistinct' /\ Granted'
  BY <1>1, <1>2 DEF BoardDistinct, Granted, OneClaim
<1>14. \A g \in Hooks : hook'[g].pc # "emits"
  BY <1>9, <1>10, IdleCaller
<1>15. CASE UNCHANGED <<marks, said>>
  <2>1. Speaking'
    BY <1>1, <1>2, <1>14, <1>15 DEF Speaking, ContextNotRepeated
  <2> QED BY <1>12, <1>13, <2>1 DEF ToolInv
<1>16. CASE ~(seen.epoch = turn /\ seen.body = body) /\ marks' = stamp /\ said' = Append(said, word)
  <2>1. /\ Len(said') = Len(said) + 1 /\ said'[Len(said')] = word /\ Len(said) \in Nat
        /\ \A i \in 1..Len(said) : said'[i] = said[i]
    BY <1>6, <1>11, <1>16
  <2>2. ContextNotRepeated'
    <3> SUFFICES ASSUME ~overlap, NEW i \in 1..(Len(said') - 1) PROVE said'[i] # said'[i + 1]
      BY <1>2 DEF ContextNotRepeated
    <3>1. i \in 1..Len(said) /\ said'[i] = said[i]
      BY <2>1
    <3>2. CASE i < Len(said)
      <4>1. said'[i + 1] = said[i + 1] /\ i \in 1..(Len(said) - 1)
        BY <2>1, <3>1, <3>2
      <4> QED BY <1>1, <3>1, <4>1 DEF Speaking, ContextNotRepeated
    <3>3. CASE i = Len(said)
      <4>1. said # <<>> /\ said'[i + 1] = word
        BY <2>1, <3>1, <3>3
      <4>2. marks.epoch = said[i].epoch /\ marks.body = said[i].body
        BY <1>1, <3>3, <4>1 DEF Speaking
      <4>3. said[i] # word
        BY <1>7, <1>8, <1>16, <4>2
      <4> QED BY <3>1, <4>1, <4>3
    <3> QED BY <2>1, <3>1, <3>2, <3>3
  <2>3. marks'.epoch = said'[Len(said')].epoch /\ marks'.body = said'[Len(said')].body
    BY <1>7, <1>16, <2>1
  <2>4. Speaking'
    BY <1>14, <2>2, <2>3 DEF Speaking
  <2> QED BY <1>12, <1>13, <2>4 DEF ToolInv
<1> QED BY <1>3, <1>15, <1>16

(* Steps that touch no hook, no claim and nothing told.                    *)
LEMMA WorldKeeps ==
  ASSUME ToolInv, clock' \in Nat, turn' \in Nat, lines' \in Nat, job' \in [Jobs -> Children],
         board' \in Seq(Titles), BoardDistinct', UNCHANGED <<claim, hook, grants, spoken>>
  PROVE  ToolInv'
<1>1. ToolTyped /\ Granted /\ Speaking
  BY DEF ToolInv
<1>2. ToolTyped'
  BY <1>1 DEF ToolTyped, spoken
<1>3. Granted'
  BY <1>1 DEF Granted, OneClaim
<1>4. Speaking'
  BY <1>1 DEF Speaking, ContextNotRepeated, spoken
<1> QED BY <1>2, <1>3, <1>4 DEF ToolInv

LEMMA AnswerKeeps ==
  ASSUME ToolInv, NEW j \in Jobs, NEW found \in Offers, JobAnswers(j, found)
  PROVE  ToolInv'
<1>1. ToolTyped /\ BoardDistinct
  BY DEF ToolInv
<1> DEFINE st == [job[j] EXCEPT !.pc = "applies", !.found = found]
<1>2. job' = [job EXCEPT ![j] = st] /\ UNCHANGED <<world, claim, board, hook, grants, spoken>>
  BY <1>1 DEF JobAnswers, ToolTyped
<1>3. job[j] \in Children /\ found \in Seq(Titles)
  BY <1>1, ToolConstants DEF ToolTyped
<1>4. st \in Children
  BY <1>3 DEF Children
<1> HIDE DEF st
<1>5. job' \in [Jobs -> Children]
  BY <1>1, <1>2, <1>4 DEF ToolTyped
<1>6. clock' \in Nat /\ turn' \in Nat /\ lines' \in Nat /\ board' \in Seq(Titles) /\ BoardDistinct'
  BY <1>1, <1>2 DEF ToolTyped, BoardDistinct, world
<1> QED BY <1>2, <1>5, <1>6, WorldKeeps

(* A job applies to the board of now whatever the board was that it asked  *)
(* about.                                                                  *)
LEMMA JobApplyKeeps ==
  ASSUME ToolInv, NEW j \in Jobs, JobApplies(j)
  PROVE  ToolInv'
<1>1. ToolTyped /\ BoardDistinct
  BY DEF ToolInv
<1>2. PICK added \in Added(board, job[j].found) : board' = board \o added
  BY DEF JobApplies
<1>3. job' = [job EXCEPT ![j] = JobFree] /\ UNCHANGED <<world, claim, hook, grants, spoken>>
  BY DEF JobApplies
<1>4. job[j] \in Children /\ JobFree \in Children
  BY <1>1 DEF ToolTyped, JobFree, Children
<1>5. job[j].found \in Seq(Titles) /\ board \in Seq(Titles) /\ Len(board) <= MaxFrontiers
  BY <1>1, <1>4 DEF Children, ToolTyped, BoardDistinct
<1>6. /\ added \in Seq(Titles) /\ Len(board) + Len(added) <= MaxFrontiers /\ Distinct(added)
      /\ \A i \in DOMAIN added : added[i] \notin ToSet(board)
  BY <1>2, <1>5, AddedSound
<1>7. board' \in Seq(Titles) /\ Len(board') = Len(board) + Len(added) /\ Distinct(board')
  BY <1>1, <1>2, <1>5, <1>6, DistinctJoin DEF BoardDistinct
<1>8. BoardDistinct'
  BY <1>6, <1>7 DEF BoardDistinct, Distinct
<1>9. job' \in [Jobs -> Children]
  BY <1>1, <1>3, <1>4 DEF ToolTyped
<1>10. clock' \in Nat /\ turn' \in Nat /\ lines' \in Nat
  BY <1>1, <1>3 DEF ToolTyped, world
<1> QED BY <1>3, <1>7, <1>8, <1>9, <1>10, WorldKeeps

LEMMA DeathKeeps ==
  ASSUME ToolInv, NEW j \in Jobs, JobDies(j)
  PROVE  ToolInv'
<1>1. ToolTyped /\ BoardDistinct
  BY DEF ToolInv
<1>2. JobFree \in Children
  BY DEF JobFree, Children
<1>3. job' \in [Jobs -> Children]
  BY <1>1, <1>2 DEF ToolTyped, JobDies
<1>4. UNCHANGED <<world, claim, board, hook, grants, spoken>>
  BY DEF JobDies
<1>5. clock' \in Nat /\ turn' \in Nat /\ lines' \in Nat /\ board' \in Seq(Titles) /\ BoardDistinct'
  BY <1>1, <1>4 DEF ToolTyped, BoardDistinct, world
<1> QED BY <1>3, <1>4, <1>5, WorldKeeps

LEMMA DeclareKeeps ==
  ASSUME ToolInv, NEW t \in Titles, AgentDeclares(t)
  PROVE  ToolInv'
<1>1. ToolTyped /\ BoardDistinct
  BY DEF ToolInv
<1>2. board' = Append(board, t) /\ Len(board) < MaxFrontiers /\ t \notin ToSet(board)
      /\ UNCHANGED <<world, claim, hook, job, grants, spoken>>
  BY DEF AgentDeclares, others
<1>3. board \in Seq(Titles) /\ Distinct(board)
  BY <1>1 DEF ToolTyped, BoardDistinct
<1>4. board' \in Seq(Titles) /\ Len(board') = Len(board) + 1 /\ Distinct(board')
  BY <1>2, <1>3, DistinctPushed
<1>5. BoardDistinct'
  BY <1>2, <1>3, <1>4, ToolConstants DEF BoardDistinct, Distinct
<1>6. clock' \in Nat /\ turn' \in Nat /\ lines' \in Nat /\ job' \in [Jobs -> Children]
  BY <1>1, <1>2 DEF ToolTyped, world
<1> QED BY <1>2, <1>4, <1>5, <1>6, WorldKeeps

LEMMA TimeKeeps ==
  ASSUME ToolInv, TimePasses \/ TranscriptGrows \/ NextPrompt
  PROVE  ToolInv'
<1>1. ToolTyped /\ BoardDistinct
  BY DEF ToolInv
<1>2. UNCHANGED <<claim, board, hook, job, grants, spoken>>
  BY DEF TimePasses, TranscriptGrows, NextPrompt, others
<1>3. clock' \in Nat /\ turn' \in Nat /\ lines' \in Nat
  BY <1>1 DEF ToolTyped, TimePasses, TranscriptGrows, NextPrompt
<1>4. job' \in [Jobs -> Children] /\ board' \in Seq(Titles) /\ BoardDistinct'
  BY <1>1, <1>2 DEF ToolTyped, BoardDistinct
<1> QED BY <1>2, <1>3, <1>4, WorldKeeps

LEMMA ToolStepKeeps == ToolInv /\ [ToolNext]_toolVars => ToolInv'
<1> SUFFICES ASSUME ToolInv, [ToolNext]_toolVars PROVE ToolInv'
  OBVIOUS
<1>1. CASE UNCHANGED toolVars
  <2>1. ToolTyped /\ BoardDistinct
    BY DEF ToolInv
  <2> QED BY <1>1, <2>1, WorldKeeps DEF toolVars, spoken, ToolTyped, BoardDistinct
<1>2. CASE \E h \in Hooks, b, c \in BOOLEAN : LogLoads(h, b, c) \/ Plan(h, b) \/ ReadEpoch(h, b)
  BY <1>2, LogKeeps, ToolPlanKeeps, ReadKeeps
<1>3. CASE \E h \in Hooks : LogSaves(h) \/ Claim(h) \/ Spawn(h) \/ EmitLoads(h) \/ EmitSaves(h) \/ ToolKilled(h)
  BY <1>3, LogSavesKeeps, ClaimKeeps, SpawnKeeps, EmitLoadsKeeps, EmitSavesKeeps, KillKeeps
<1>4. CASE \E h \in Hooks : \E parts \in SUBSET ToolTexts : Prepare(h, parts)
  BY <1>4, PrepareKeeps
<1>5. CASE \E j \in Jobs : JobApplies(j) \/ JobDies(j) \/ \E found \in Offers : JobAnswers(j, found)
  BY <1>5, JobApplyKeeps, DeathKeeps, AnswerKeeps
<1>6. CASE TimePasses \/ TranscriptGrows \/ NextPrompt \/ \E t \in Titles : AgentDeclares(t)
  BY <1>6, TimeKeeps, DeclareKeeps
<1>7. CASE JudgeNext
  <2>1. {} \in SUBSET ToolTexts /\ TRUE \in BOOLEAN /\ FALSE \in BOOLEAN
    OBVIOUS
  <2> QED BY <1>2, <1>3, <1>4, <1>5, <1>6, <1>7, <2>1 DEF JudgeNext
<1>8. CASE TellNext
  <2>1. SUBSET {"failure", "hint"} = SUBSET ToolTexts /\ TRUE \in BOOLEAN /\ FALSE \in BOOLEAN
    BY DEF ToolTexts
  <2> QED BY <1>2, <1>3, <1>4, <1>6, <1>8, <2>1 DEF TellNext
<1> QED BY <1>1, <1>7, <1>8 DEF ToolNext

LEMMA ToolInvAlways == ToolSpec => []ToolInv
<1>1. ToolInit => ToolInv
  BY ToolStarted
<1>2. ToolInv /\ [ToolNext]_toolVars => ToolInv'
  BY ToolStepKeeps
<1> QED BY <1>1, <1>2, PTL DEF ToolSpec

(* Whatever hooks and jobs there are, and however many of them die: the    *)
(* claims of one batch are never granted twice within the window, and the  *)
(* same text is not told twice running while no unlocked save is lost.     *)
THEOREM BatchAlwaysOnce == ToolSpec => []BatchOnce
<1>1. ToolInv => BatchOnce
  BY DEF ToolInv, Granted, Speaking, BatchOnce
<1> QED BY <1>1, ToolInvAlways, PTL

(* Whatever the jobs found, on however old a board: never an approach      *)
(* twice, never more frontiers than the cap.                               *)
THEOREM FrontiersAlwaysSound == ToolSpec => []FrontiersSound
<1>1. ToolInv => FrontiersSound
  <2> SUFFICES ASSUME ToolInv PROVE FrontiersSound
    OBVIOUS
  <2>1. board \in Seq(Titles) /\ Distinct(board) /\ Len(board) <= MaxFrontiers
    BY DEF ToolInv, ToolTyped, BoardDistinct
  <2> QED BY <2>1, DistinctCount DEF FrontiersSound
<1> QED BY <1>1, ToolInvAlways, PTL

----------------------------------------------------------------------------
(* PreToolGate: what passes, for any calls, boards, scopes and budgets.    *)

(***************************************************************************)
(* Every set of naturals that has an element has a least one: of the       *)
(* intervals up to its elements one is minimal.  What holds of the first k *)
(* commands of a call is proved by the least k for which it fails.         *)
(***************************************************************************)
LEMMA Least ==
  ASSUME NEW T \in SUBSET Nat, T # {}
  PROVE  \E n \in T : \A m \in T : n <= m
<1> DEFINE Below == {1..n : n \in T}
           S == FiniteSubsetsOf(Nat)
           R == StrictSubsetOrdering(Nat)
<1>1. Below \subseteq S /\ Below # {}
  <2>1. \A n \in T : 1..n \subseteq Nat /\ IsFiniteSet(1..n)
    BY FS_Interval
  <2> QED BY <2>1 DEF FiniteSubsetsOf
<1>2. IsWellFoundedOn(R, S)
  BY FS_StrictSubsetOrderingWellFounded
<1>3. \E x \in Below : \A y \in Below : <<y, x>> \notin R
  <2> HIDE DEF Below, S, R
  <2> QED BY <1>1, <1>2, WFMin
<1>4. PICK n \in T : \A m \in T : <<1..m, 1..n>> \notin R
  BY <1>3
<1>5. ASSUME NEW m \in T, m < n PROVE FALSE
  <2>1. m \in Nat /\ n \in Nat
    OBVIOUS
  <2>2. 1..m \subseteq Nat /\ 1..n \subseteq Nat /\ 1..m \subseteq 1..n
    BY <1>5, <2>1
  <2>3. n \in 1..n /\ n \notin 1..m
    BY <1>5, <2>1
  <2>4. <<1..m, 1..n>> \in R
    BY <2>2, <2>3 DEF StrictSubsetOrdering
  <2> QED BY <1>4, <2>4
<1> QED BY <1>5

(***************************************************************************)
(* The trials of a call are what their equation says: it has a solution.   *)
(***************************************************************************)
TrialsUpTo(n, c, start, g) ==
  g = [k \in 0..n |-> IF k = 0 THEN {[ok |-> TRUE, row |-> start]}
                      ELSE UNION {Tried(c.cmds[k], o) : o \in g[k - 1]}]

LEMMA TrialsExist ==
  ASSUME NEW c, NEW start, NEW n \in Nat
  PROVE  \E g : TrialsUpTo(n, c, start, g)
<1> DEFINE T == {m \in Nat : ~ \E g : TrialsUpTo(m, c, start, g)}
<1> SUFFICES ASSUME T # {} PROVE FALSE
  OBVIOUS
<1>1. PICK m \in T : \A i \in T : m <= i
  <2> HIDE DEF T
  <2>1. T \in SUBSET Nat
    BY DEF T
  <2> QED BY <2>1, Least
<1>2. m # 0
  <2>1. TrialsUpTo(0, c, start, [k \in 0..0 |-> {[ok |-> TRUE, row |-> start]}])
    BY DEF TrialsUpTo
  <2> QED BY <1>1, <2>1
<1>3. m - 1 \in Nat /\ m - 1 \notin T
  BY <1>1, <1>2
<1>4. PICK g : TrialsUpTo(m - 1, c, start, g)
  BY <1>3
<1> DEFINE h == [k \in 0..m |-> IF k = m THEN UNION {Tried(c.cmds[m], o) : o \in g[m - 1]} ELSE g[k]]
<1>5. \A k \in 0..m : k # 0 => h[k - 1] = g[k - 1]
  BY <1>1
<1>6. \A k \in 0..m :
        h[k] = IF k = 0 THEN {[ok |-> TRUE, row |-> start]}
               ELSE UNION {Tried(c.cmds[k], o) : o \in h[k - 1]}
  <2> TAKE k \in 0..m
  <2>1. CASE k = m
    BY <2>1, <1>1, <1>2, <1>5
  <2>2. CASE k # m
    <3>1. k \in 0..(m - 1)
      BY <2>2, <1>1
    <3>2. h[k] = g[k]
      BY <2>2
    <3>3. g[k] = IF k = 0 THEN {[ok |-> TRUE, row |-> start]}
                 ELSE UNION {Tried(c.cmds[k], o) : o \in g[k - 1]}
      BY <3>1, <1>4 DEF TrialsUpTo
    <3> HIDE DEF h
    <3> QED BY <3>2, <3>3, <1>5
  <2> QED BY <2>1, <2>2
<1>7. TrialsUpTo(m, c, start, h)
  <2> HIDE DEF h
  <2>1. h = [k \in 0..m |-> h[k]]
    BY DEF h
  <2> QED BY <2>1, <1>6 DEF TrialsUpTo
<1> QED BY <1>1, <1>7

LEMMA TrialsEquation ==
  ASSUME NEW c \in Calls, NEW start
  PROVE  TrialsUpTo(Len(c.cmds), c, start, Trials(c, start))
<1>1. Len(c.cmds) \in Nat
  BY CallShapes
<1>2. \E g : TrialsUpTo(Len(c.cmds), c, start, g)
  BY <1>1, TrialsExist
<1> QED BY <1>2 DEF Trials, TrialsUpTo

(***************************************************************************)
(* A grant row only ever pays: every trial that asks the judge or uses a   *)
(* grant leaves fewer judge calls, or as many and fewer uses.              *)
(***************************************************************************)
Actions == {"none"} \cup UNION {{c.cmds[i].id : i \in DOMAIN c.cmds} : c \in Calls}
LiftRows == [lift : Actions, uses : Nat, calls : Nat]
Paid(r, s) == r.calls > s.calls \/ (r.calls = s.calls /\ r.uses < s.uses)

(* After the first k commands: a row that paid, or the row at the start; a *)
(* call that still goes has only researched, or the grant is of a command. *)
Tally(c, k, start, o) ==
  /\ o = [ok |-> o.ok, row |-> o.row] /\ o.ok \in BOOLEAN /\ o.row \in LiftRows
  /\ o.row = start \/ Paid(o.row, start)
  /\ (\A i \in 1..k : c.cmds[i].research) => o.ok /\ o.row = start
  /\ o.ok /\ o.row = start => \A i \in 1..k : c.cmds[i].research
  /\ o.ok /\ o.row # start => \E i \in 1..k : o.row.lift = c.cmds[i].id

LEMMA LiftsPay ==
  ASSUME NEW r \in LiftRows, NEW act \in Actions, NEW o \in Lifts(r, act)
  PROVE  /\ o = [ok |-> o.ok, row |-> o.row] /\ o.ok \in BOOLEAN /\ o.row \in LiftRows
         /\ (o.row = r /\ ~o.ok) \/ Paid(o.row, r)
         /\ o.ok => o.row.lift = act
<1>1. r = [lift |-> r.lift, uses |-> r.uses, calls |-> r.calls] /\ r.uses \in Nat /\ r.calls \in Nat
      /\ r.lift \in Actions
  BY DEF LiftRows
<1>2. CASE r.lift = act /\ r.uses > 0
  <2>1. o = [ok |-> TRUE, row |-> [r EXCEPT !.uses = r.uses - 1]]
    BY <1>2 DEF Lifts
  <2>2. o = [ok |-> TRUE, row |-> [lift |-> r.lift, uses |-> r.uses - 1, calls |-> r.calls]]
    BY <2>1, <1>1
  <2> QED BY <2>2, <1>1, <1>2 DEF LiftRows, Paid
<1>3. CASE o = [ok |-> FALSE, row |-> r]
  BY <1>3 DEF LiftRows
<1>4. CASE o = [ok |-> FALSE, row |-> [r EXCEPT !.calls = r.calls + 1]]
  <2>1. o = [ok |-> FALSE, row |-> [lift |-> r.lift, uses |-> r.uses, calls |-> r.calls + 1]]
    BY <1>4, <1>1
  <2> QED BY <2>1, <1>1 DEF LiftRows, Paid
<1>5. CASE o = [ok |-> TRUE, row |-> [lift |-> act, uses |-> IF LiftUses = 0 THEN 0 ELSE LiftUses - 1,
                                      calls |-> r.calls + 1]]
  BY <1>5, <1>1, LiftBudget DEF LiftRows, Paid
<1> QED BY <1>2, <1>3, <1>4, <1>5 DEF Lifts

LEMMA TrialTallies ==
  ASSUME NEW c \in Calls, NEW start \in LiftRows, NEW k \in 1..Len(c.cmds),
         NEW o, Tally(c, k - 1, start, o), NEW p \in Tried(c.cmds[k], o)
  PROVE  Tally(c, k, start, p)
<1> DEFINE cmd == c.cmds[k]
<1>1. c.cmds \in Seq(Commands) /\ Len(c.cmds) \in Nat
  BY CallShapes
<1>2. cmd \in Commands /\ k \in Nat /\ k - 1 \in Nat
  BY <1>1
<1>3. cmd.id \in Actions /\ cmd.research \in BOOLEAN /\ cmd.mutating \in BOOLEAN
  BY <1>1, <1>2 DEF Commands, Actions
<1>4. 1..k = (1..(k - 1)) \cup {k} /\ k \in 1..k
  BY <1>2
<1>5. CASE ~o.ok \/ cmd.research
  <2>1. p = o
    BY <1>5 DEF Tried
  <2>2. ~o.ok => \E i \in 1..(k - 1) : ~c.cmds[i].research
    BY DEF Tally
  <2> QED BY <2>1, <2>2, <1>4, <1>5 DEF Tally
<1>6. CASE o.ok /\ ~cmd.research /\ ~cmd.mutating
  <2>1. p = [o EXCEPT !.ok = FALSE]
    BY <1>6 DEF Tried
  <2>2. p.ok = FALSE /\ p.row = o.row /\ p = [ok |-> FALSE, row |-> o.row]
    BY <2>1 DEF Tally
  <2> QED BY <2>2, <1>4, <1>6 DEF Tally
<1>7. CASE o.ok /\ ~cmd.research /\ cmd.mutating
  <2>1. p \in Lifts(o.row, cmd.id) /\ o.row \in LiftRows
    BY <1>7 DEF Tried, Tally
  <2>2. /\ p = [ok |-> p.ok, row |-> p.row] /\ p.ok \in BOOLEAN /\ p.row \in LiftRows
        /\ (p.row = o.row /\ ~p.ok) \/ Paid(p.row, o.row)
        /\ p.ok => p.row.lift = cmd.id
    BY <2>1, <1>3, LiftsPay
  <2>3. p.row = start \/ Paid(p.row, start)
    BY <2>1, <2>2 DEF Tally, Paid, LiftRows
  <2>4. p.ok => p.row # start
    BY <2>1, <2>2 DEF Tally, Paid, LiftRows
  <2>5. ~ \A i \in 1..k : c.cmds[i].research
    BY <1>4, <1>7
  <2> HIDE DEF cmd
  <2> QED BY <2>2, <2>3, <2>4, <2>5, <1>4 DEF Tally, cmd
<1> QED BY <1>3, <1>5, <1>6, <1>7 DEF Tally

LEMMA WhitelistTallies ==
  ASSUME NEW c \in Calls, NEW start \in LiftRows
  PROVE  \A o \in Whitelisted(c, start) : Tally(c, Len(c.cmds), start, o)
<1> DEFINE n == Len(c.cmds)
           outs == Trials(c, start)
           T == {k \in 0..n : \E o \in outs[k] : ~Tally(c, k, start, o)}
<1>1. n \in Nat
  BY CallShapes
<1>2. \A k \in 0..n : outs[k] = IF k = 0 THEN {[ok |-> TRUE, row |-> start]}
                                ELSE UNION {Tried(c.cmds[k], o) : o \in outs[k - 1]}
  <2>1. TrialsUpTo(n, c, start, outs)
    BY TrialsEquation
  <2> HIDE DEF n, outs
  <2> QED BY <2>1 DEF TrialsUpTo
<1>3. ASSUME T # {} PROVE FALSE
  <2>1. PICK k \in T : \A m \in T : k <= m
    <3> HIDE DEF T
    <3>1. T \in SUBSET Nat
      BY <1>1 DEF T
    <3> QED BY <3>1, <1>3, Least
  <2>2. PICK p \in outs[k] : ~Tally(c, k, start, p)
    BY <2>1
  <2>3. k # 0
    <3>1. SUFFICES ASSUME k = 0 PROVE FALSE
      OBVIOUS
    <3>2. p = [ok |-> TRUE, row |-> start]
      BY <3>1, <2>2, <1>1, <1>2
    <3>3. 1..0 = {}
      OBVIOUS
    <3> QED BY <3>1, <3>2, <3>3, <2>2 DEF Tally
  <2>4. k \in 1..n /\ k - 1 \in 0..n /\ k - 1 \notin T
    BY <2>1, <2>3, <1>1
  <2>5. PICK o \in outs[k - 1] : p \in Tried(c.cmds[k], o)
    <3> HIDE DEF n, outs
    <3>1. k \in 0..n
      OBVIOUS
    <3>2. outs[k] = UNION {Tried(c.cmds[k], o) : o \in outs[k - 1]}
      BY <3>1, <2>3, <1>2
    <3> HIDE DEF T
    <3> QED BY <3>2, <2>2
  <2>6. Tally(c, k - 1, start, o)
    BY <2>4, <2>5
  <2> QED BY <2>2, <2>4, <2>5, <2>6, TrialTallies
<1> QED BY <1>1, <1>3 DEF Whitelisted

(***************************************************************************)
(* What the host makes of what was sent, when the breaker's refusal may    *)
(* already have been.                                                      *)
(***************************************************************************)
Sent(denied) == IF denied THEN Deny(Nothing) ELSE Nothing

LEMMA SentRead ==
  ASSUME NEW denied \in BOOLEAN
  PROVE  /\ ~Passed(Deny(Sent(denied))) /\ Deny(Sent(denied)).allows = 0
         /\ Deny(Sent(denied)).denies = IF denied THEN 2 ELSE 1
         /\ Passed(Allow(Sent(denied))) <=> ~(denied /\ gateHost = "claude")
         /\ Allow(Sent(denied)).denies + Allow(Sent(denied)).allows <= 1
         /\ denied => ~Passed(Sent(denied))
         /\ Sent(denied).denies + Sent(denied).allows <= 1
<1> DEFINE Sents == [denies : Nat, allows : Nat, rc : Nat]
<1>1. ASSUME NEW a \in Sents
      PROVE  /\ Deny(a) \in Sents /\ Deny(a).denies = a.denies + 1 /\ Deny(a).allows = a.allows
             /\ Deny(a).rc = IF gateHost = "claude" THEN 0 ELSE 2
             /\ Allow(a).denies = a.denies /\ Allow(a).rc = 0
             /\ Allow(a).allows = IF a.denies = 0 THEN a.allows + 1 ELSE a.allows
  BY DEF Deny, Allow
<1>2. Nothing \in Sents /\ Nothing.denies = 0 /\ Nothing.allows = 0
  BY DEF Nothing
<1>3. /\ Sent(denied) \in Sents /\ Sent(denied).denies = IF denied THEN 1 ELSE 0
      /\ Sent(denied).allows = 0
      /\ denied => Sent(denied).rc = IF gateHost = "claude" THEN 0 ELSE 2
  BY <1>1, <1>2 DEF Sent
<1> QED BY <1>1, <1>3 DEF Passed

(***************************************************************************)
(* A call is refused by the breaker, refused by a gate that may refuse it, *)
(* or approved by the gates that had to open for it.                       *)
(***************************************************************************)
Stopped(c, denied, o) == o.ans = Sent(denied) /\ denied /\ ~Research(c) /\ o.row = row
Refused(c, denied, o) ==
  /\ o.ans = Deny(Sent(denied)) /\ (denied => Research(c))
  /\ ~(Floor(c) /\ ~c.payload) /\ ~(Research(c) /\ Clean(c))
  /\ ~ /\ Unlocked /\ Clean(c)
       /\ ~(Grade = "HEAVY" /\ (c.kind = "write" \/ McpForced(c)) /\ HeavyRefuses(c))
       /\ ~(c.kind = "repl" /\ c.cmds = <<>> /\ ~c.reads)
Approved(c, denied, o) ==
  /\ o.ans = Allow(Sent(denied)) /\ (denied => Research(c)) /\ Clean(c)
  /\ Mutates(c) => \/ Unlocked
                   \/ o.row # row /\ \E i \in DOMAIN c.cmds : o.row.lift = c.cmds[i].id

LEMMA CallShape ==
  ASSUME NEW c \in Calls
  PROVE  /\ Len(c.cmds) \in Nat /\ DOMAIN c.cmds = 1..Len(c.cmds)
         /\ ~Shell(c) => c.cmds = <<>> /\ ~ShellHits(c) /\ ~SetsReserved(c)
         /\ c.kind # "write" /\ ~McpForced(c) => ~WriteHits(c)
         /\ c.kind = "shell" => c.cmds # <<>>
<1>1. /\ c.targets \in Seq(Places) /\ c.cmds \in Seq(Commands)
      /\ c.cmds # <<>> => Shell(c)
      /\ c.kind = "shell" => Len(c.cmds) = 1
      /\ c.targets # <<>> => c.kind = "write" \/ McpForced(c)
  BY CallShapes
<1>2. Len(c.cmds) \in Nat /\ DOMAIN c.cmds = 1..Len(c.cmds)
  BY <1>1
<1>3. c.cmds = <<>> => ~ShellHits(c) /\ ~SetsReserved(c)
  BY DEF ShellHits, SetsReserved
<1>4. c.targets = <<>> => ~WriteHits(c)
  BY DEF WriteHits
<1>5. c.kind = "shell" => c.cmds # <<>>
  <2>1. c.cmds = <<>> => DOMAIN c.cmds = {}
    OBVIOUS
  <2>2. ASSUME c.kind = "shell" PROVE 1 \in DOMAIN c.cmds
    <3>1. Len(c.cmds) = 1
      BY <1>1, <2>2
    <3> QED BY <3>1, <1>2
  <2> QED BY <2>1, <2>2
<1>6. ~Shell(c) => c.cmds = <<>> /\ ~ShellHits(c) /\ ~SetsReserved(c)
  BY <1>1, <1>3
<1>7. c.kind # "write" /\ ~McpForced(c) => ~WriteHits(c)
  BY <1>1, <1>4
<1> QED BY <1>2, <1>5, <1>6, <1>7

LEMMA WritesWeighed ==
  ASSUME NEW c \in Calls, NEW denied \in BOOLEAN, row \in LiftRows, denied => Research(c),
         c.kind = "write" \/ McpForced(c), NEW o \in WriteAnswers(c, Sent(denied))
  PROVE  o.row \in LiftRows /\ (Refused(c, denied, o) \/ Approved(c, denied, o))
<1>1. ~Shell(c) /\ ~Research(c) /\ ~(Floor(c) /\ ~c.payload)
  BY DEF Shell, McpForced, Research, Floor
<1>2. c.kind # "repl"
  BY DEF McpForced
<1>3. ~ShellHits(c) /\ ~SetsReserved(c)
  BY <1>1, CallShape
<1>4. CASE WriteHits(c) \/ SpecRefuses(c)
  <2>1. o.ans = Deny(Sent(denied)) /\ o.row = row
    BY <1>4 DEF WriteAnswers, Outcome
  <2> QED BY <2>1, <1>1, <1>2, <1>4 DEF Refused, Clean, SpecRefuses
<1>5. CASE ~(WriteHits(c) \/ SpecRefuses(c))
  <2>1. o.ans = Allow(Sent(denied)) /\ o.row = row
    BY <1>5 DEF WriteAnswers, Outcome
  <2> QED BY <2>1, <1>3, <1>5 DEF Approved, Clean, SpecRefuses
<1> QED BY <1>4, <1>5

LEMMA ShellWeighed ==
  ASSUME NEW c \in Calls, NEW denied \in BOOLEAN, row \in LiftRows, denied => Research(c),
         Shell(c), NEW o \in ShellAnswers(c, Sent(denied))
  PROVE  o.row \in LiftRows /\ (Refused(c, denied, o) \/ Approved(c, denied, o))
<1> DEFINE mute == c.kind = "repl" /\ c.cmds = <<>> /\ ~c.reads
<1>1. c.kind \in {"shell", "repl"} /\ ~McpForced(c) /\ ~Floor(c) /\ ~WriteHits(c)
  BY CallShape DEF Shell, McpForced, Floor
<1>2. Research(c) => ~mute
  BY <1>1 DEF Research
<1>3. CASE ShellHits(c) \/ SetsReserved(c) \/ mute
  <2>1. o.ans = Deny(Sent(denied)) /\ o.row = row
    BY <1>3 DEF ShellAnswers, Outcome
  <2> QED BY <2>1, <1>1, <1>2, <1>3 DEF Refused, Clean
<1>4. CASE Unlocked /\ ~(ShellHits(c) \/ SetsReserved(c) \/ mute)
  <2>1. o.ans = Allow(Sent(denied)) /\ o.row = row
    BY <1>4 DEF ShellAnswers, Outcome
  <2> QED BY <2>1, <1>1, <1>4 DEF Approved, Clean
<1>5. CASE ~Unlocked /\ ~(ShellHits(c) \/ SetsReserved(c) \/ mute)
  <2>1. PICK w \in Whitelisted(c, row) :
          o = Outcome(IF w.ok THEN Allow(Sent(denied)) ELSE Deny(Sent(denied)), w.row)
    BY <1>5 DEF ShellAnswers
  <2>2. Tally(c, Len(c.cmds), row, w)
    BY <2>1, WhitelistTallies
  <2>3. o.row = w.row /\ o.row \in LiftRows
    BY <2>1, <2>2 DEF Outcome, Tally
  <2>4. DOMAIN c.cmds = 1..Len(c.cmds) /\ (c.kind = "shell" => c.cmds # <<>>)
    BY CallShape
  <2>5. Research(c) <=> \A i \in 1..Len(c.cmds) : c.cmds[i].research
    BY <2>4, <1>1, <1>5 DEF Research, Shell
  <2>6. CASE w.ok
    <3>1. o.ans = Allow(Sent(denied))
      BY <2>1, <2>6 DEF Outcome
    <3>2. ~Research(c) => o.row # row /\ \E i \in DOMAIN c.cmds : o.row.lift = c.cmds[i].id
      BY <2>2, <2>3, <2>4, <2>5, <2>6 DEF Tally
    <3> QED BY <3>1, <3>2, <2>3, <1>1, <1>5 DEF Approved, Clean, Mutates
  <2>7. CASE ~w.ok
    <3>1. o.ans = Deny(Sent(denied))
      BY <2>1, <2>7 DEF Outcome
    <3>2. ~Research(c)
      BY <2>2, <2>5, <2>7 DEF Tally
    <3> QED BY <3>1, <3>2, <2>3, <1>1, <1>5 DEF Refused
  <2> QED BY <2>2, <2>6, <2>7 DEF Tally
<1> QED BY <1>3, <1>4, <1>5

LEMMA AnswersWeighed ==
  ASSUME NEW c \in Calls, NEW denied \in BOOLEAN, row \in LiftRows, denied => BreakerTool(c),
         NEW scope, NEW o \in Answers(c, scope, denied)
  PROVE  /\ o.row \in LiftRows
         /\ Stopped(c, denied, o) \/ Refused(c, denied, o) \/ Approved(c, denied, o)
<1>1. CASE denied /\ ~Research(c)
  <2>1. o = Outcome(Sent(denied), row)
    BY <1>1 DEF Answers, Sent
  <2> QED BY <2>1, <1>1 DEF Outcome, Stopped
<1>2. CASE ~(denied /\ ~Research(c)) /\ ScopeRefuses(c, scope)
  <2>1. o = Outcome(Deny(Sent(denied)), row)
    BY <1>2 DEF Answers, Sent
  <2>2. ~(Floor(c) /\ ~c.payload) /\ ~Research(c) /\ ~Unlocked
    BY <1>2 DEF ScopeRefuses, InScope
  <2> QED BY <2>1, <2>2, <1>2 DEF Outcome, Refused
<1>3. CASE ~(denied /\ ~Research(c)) /\ ~ScopeRefuses(c, scope)
  <2> DEFINE a == Sent(denied)
  <2>1. CASE c.kind = "write"
    <3>1. o \in WriteAnswers(c, a)
      BY <1>3, <2>1 DEF Answers, Sent, Shell
    <3> QED BY <3>1, <2>1, <1>3, WritesWeighed
  <2>2. CASE c.kind = "mcp" /\ McpForced(c)
    <3>1. o \in WriteAnswers(c, a)
      BY <1>3, <2>2 DEF Answers, Sent, Shell
    <3> QED BY <3>1, <2>2, <1>3, WritesWeighed
  <2>3. CASE Shell(c)
    <3>1. o \in ShellAnswers(c, a)
      BY <1>3, <2>3 DEF Answers, Sent, Shell
    <3> QED BY <3>1, <2>3, <1>3, ShellWeighed
  <2>4. CASE c.kind = "delegate"
    <3>1. o = Outcome(IF Unlocked THEN Allow(a) ELSE Deny(a), row)
      BY <1>3, <2>4 DEF Answers, Sent, Shell
    <3>2. ~Shell(c) /\ ~McpForced(c) /\ ~Floor(c) /\ ~Research(c)
      BY <2>4 DEF Shell, McpForced, Floor, Research
    <3>3. Clean(c)
      BY <3>2, <2>4, CallShape DEF Clean
    <3>4. CASE Unlocked
      <4>1. o.ans = Allow(a) /\ o.row = row
        BY <3>1, <3>4 DEF Outcome
      <4> QED BY <4>1, <3>3, <3>4, <1>3 DEF Approved
    <3>5. CASE ~Unlocked
      <4>1. o.ans = Deny(a) /\ o.row = row
        BY <3>1, <3>5 DEF Outcome
      <4> QED BY <4>1, <3>2, <3>5, <1>3 DEF Refused
    <3> QED BY <3>4, <3>5
  <2>5. CASE c.kind \notin {"write", "delegate"} /\ ~Shell(c) /\ ~McpForced(c)
    <3>1. o = Outcome(Allow(a), row)
      BY <1>3, <2>5 DEF Answers, Sent, Shell
    <3>2. Clean(c) /\ ~Mutates(c)
      BY <2>5, CallShape DEF Clean, Mutates
    <3>3. o.ans = Allow(a) /\ o.row = row
      BY <3>1 DEF Outcome
    <3> QED BY <3>2, <3>3, <1>3 DEF Approved
  <2> QED BY <2>1, <2>2, <2>3, <2>4, <2>5 DEF McpForced
<1> QED BY <1>1, <1>2, <1>3

(***************************************************************************)
(* Every step of the gate reports no call, or one with a weighed answer.   *)
(***************************************************************************)
Answered(c, denied, o) ==
  /\ c \in Calls /\ denied \in BOOLEAN /\ (denied => BreakerTool(c))
  /\ last' = [call |-> c, refused |-> denied, ans |-> o.ans, lifted |-> o.row # row]
  /\ row' = o.row
  /\ Stopped(c, denied, o) \/ Refused(c, denied, o) \/ Approved(c, denied, o)

LEMMA StepWeighed ==
  ASSUME row \in LiftRows, [GateNext]_gateVars
  PROVE  /\ row' \in LiftRows
         /\ \/ UNCHANGED <<last, row>>
            \/ /\ gateHost' = gateHost
               /\ \/ last' = None /\ row' = row
                  \/ \E c, denied, o : Answered(c, denied, o)
<1>1. ASSUME NEW c \in Calls, NEW armed \in BOOLEAN, NEW scope \in Scopes, Call(c, armed, scope)
      PROVE  /\ row' \in LiftRows /\ gateHost' = gateHost
             /\ \E denied, o : Answered(c, denied, o)
  <2>1. PICK denied \in {FALSE, armed /\ BreakerTool(c)} : \E o \in Answers(c, scope, denied) :
          /\ row' = o.row
          /\ last' = [call |-> c, refused |-> denied, ans |-> o.ans, lifted |-> o.row # row]
    BY <1>1 DEF Call
  <2>2. PICK o \in Answers(c, scope, denied) :
          /\ row' = o.row
          /\ last' = [call |-> c, refused |-> denied, ans |-> o.ans, lifted |-> o.row # row]
    BY <2>1
  <2>3. denied \in BOOLEAN /\ (denied => BreakerTool(c))
    BY <2>1 DEF BreakerTool, McpMutation, Shell
  <2>4. /\ o.row \in LiftRows
        /\ Stopped(c, denied, o) \/ Refused(c, denied, o) \/ Approved(c, denied, o)
    BY <2>2, <2>3, AnswersWeighed
  <2>5. Answered(c, denied, o)
    BY <2>2, <2>3, <2>4 DEF Answered
  <2> QED BY <2>2, <2>4, <2>5, <1>1 DEF Call
<1>2. CASE last' = None /\ UNCHANGED <<gateHost, row>>
  BY <1>2
<1>3. CASE UNCHANGED gateVars
  BY <1>3 DEF gateVars
<1> QED BY <1>1, <1>2, <1>3 DEF GateNext, PromptGraded, OperatorPins, BoardChanges, HostReads

LEMMA RowStands == GateSpec => [](row \in LiftRows)
<1>1. GateInit => row \in LiftRows
  <2>1. Row \in LiftRows
    BY DEF Row, LiftRows, Actions
  <2> QED BY <2>1 DEF GateInit
<1>2. row \in LiftRows /\ [GateNext]_gateVars => (row \in LiftRows)'
  BY StepWeighed
<1> QED BY <1>1, <1>2, PTL DEF GateSpec

LEMMA NoCallRead ==
  ~Mutates(NoCall) /\ Clean(NoCall) /\ Passed(Nothing) /\ Nothing.denies + Nothing.allows <= 1
<1>1. /\ NoCall.kind = "none" /\ NoCall.targets = <<>> /\ NoCall.cmds = <<>>
      /\ Nothing.denies = 0 /\ Nothing.allows = 0 /\ Nothing.rc = 0
  BY DEF NoCall, Nothing
<1>2. DOMAIN NoCall.targets = {} /\ DOMAIN NoCall.cmds = {}
  BY <1>1
<1> QED BY <1>1, <1>2 DEF Mutates, McpForced, Shell, Clean, WriteHits, ShellHits, SetsReserved, Passed

(***************************************************************************)
(* A call that may change the workspace passes only when the board earned  *)
(* it or the lift judge granted a command of it; the guards hold on every  *)
(* way; and a denial that was sent is followed by no approval.             *)
(***************************************************************************)
THEOREM MutationAlwaysEarned == GateSpec => MutationEarned
<1> DEFINE A == /\ Mutates(last'.call) /\ Passed(last'.ans) =>
                     \/ Earned
                     \/ last'.lifted /\ \E i \in DOMAIN last'.call.cmds : row'.lift = last'.call.cmds[i].id
                /\ GuardsAbsolute' /\ OneAnswer'
<1>1. ASSUME row \in LiftRows, [GateNext]_gateVars PROVE [A]_<<last, row>>
  <2>1. CASE UNCHANGED <<last, row>>
    BY <2>1
  <2>2. CASE gateHost' = gateHost /\ last' = None
    <3>1. last'.call = NoCall /\ last'.ans = Nothing
      BY <2>2 DEF None
    <3>2. ~Mutates(last'.call)
      BY <3>1, NoCallRead
    <3>3. GuardsAbsolute'
      BY <3>1, NoCallRead, <2>2 DEF GuardsAbsolute, Clean, WriteHits, ShellHits, SetsReserved
    <3>4. OneAnswer'
      BY <3>1, NoCallRead DEF OneAnswer
    <3> QED BY <3>2, <3>3, <3>4
  <2>3. ASSUME NEW c, NEW denied, NEW o, Answered(c, denied, o), gateHost' = gateHost PROVE A
    <3>1. /\ last'.call = c /\ last'.refused = denied /\ last'.ans = o.ans
          /\ last'.lifted = (o.row # row) /\ row' = o.row
          /\ denied \in BOOLEAN
      BY <2>3 DEF Answered
    <3>2. Passed(o.ans) => Approved(c, denied, o)
      BY <2>3, <3>1, SentRead DEF Answered, Stopped, Refused
    <3>3. Unlocked => Earned
      BY DEF Unlocked, Stands, Valid, Backed, Earned
    <3>4. Mutates(last'.call) /\ Passed(last'.ans) =>
            \/ Earned
            \/ last'.lifted /\ \E i \in DOMAIN last'.call.cmds : row'.lift = last'.call.cmds[i].id
      BY <3>1, <3>2, <3>3 DEF Approved
    <3>5. GuardsAbsolute'
      <4>1. Passed(last.ans)' <=> Passed(last'.ans)
        BY <2>3 DEF Passed
      <4>2. Clean(last.call)' <=> Clean(last'.call)
        BY DEF Clean, WriteHits, ShellHits, SetsReserved
      <4> QED BY <3>1, <3>2, <4>1, <4>2 DEF GuardsAbsolute, Approved
    <3>6. OneAnswer'
      <4>1. Research(last.call)' <=> Research(last'.call)
        BY DEF Research, Shell
      <4>2. \/ o.ans.denies + o.ans.allows <= 1
            \/ denied /\ Research(c) /\ o.ans.denies = 2 /\ o.ans.allows = 0
        BY <2>3, <3>1, SentRead DEF Answered, Stopped, Refused, Approved
      <4> QED BY <3>1, <4>1, <4>2 DEF OneAnswer
    <3> QED BY <3>4, <3>5, <3>6
  <2> QED BY <1>1, <2>1, <2>2, <2>3, StepWeighed
<1> QED BY <1>1, RowStands, PTL DEF GateSpec, MutationEarned

(***************************************************************************)
(* Where the evidence stands, what is on free ground passes; and reading   *)
(* and research pass whatever stands.                                      *)
(***************************************************************************)
THEOREM OpensAlwaysWhenEarned == GateSpec => OpensWhenEarned
<1> DEFINE A == LET c == last'.call
                IN /\ /\ Unlocked /\ Clean(c) /\ ~last'.refused
                      /\ ~(Grade = "HEAVY" /\ (c.kind = "write" \/ McpForced(c)) /\ HeavyRefuses(c))
                      /\ ~(c.kind = "repl" /\ c.cmds = <<>> /\ ~c.reads)
                      => Passed(last'.ans)
                   /\ ReadsFree'
<1>1. ASSUME row \in LiftRows, [GateNext]_gateVars PROVE [A]_<<last, row>>
  <2>1. CASE UNCHANGED <<last, row>>
    BY <2>1
  <2>2. CASE gateHost' = gateHost /\ last' = None
    <3>1. last'.ans = Nothing /\ Passed(last'.ans)
      BY <2>2, NoCallRead DEF None
    <3>2. Passed(last.ans)'
      BY <2>2, <3>1 DEF Passed
    <3> QED BY <3>1, <3>2 DEF ReadsFree
  <2>3. ASSUME NEW c, NEW denied, NEW o, Answered(c, denied, o), gateHost' = gateHost PROVE A
    <3>1. last'.call = c /\ last'.refused = denied /\ last'.ans = o.ans /\ denied \in BOOLEAN
      BY <2>3 DEF Answered
    <3>2. CASE Stopped(c, denied, o)
      <4>1. denied /\ ~Research(c) /\ ~Floor(c)
        BY <2>3, <3>2 DEF Answered, Stopped, BreakerTool, Floor, McpMutation, Shell
      <4>2. ~Floor(last.call)' /\ ~Research(last.call)'
        BY <3>1, <4>1 DEF Floor, Research, Shell
      <4> QED BY <3>1, <4>1, <4>2 DEF ReadsFree
    <3>3. CASE Refused(c, denied, o)
      <4>1. ~(Floor(last.call) /\ ~last.call.payload)' /\ ~(Research(last.call) /\ Clean(last.call))'
        BY <3>1, <3>3 DEF Refused, Floor, Research, Shell, Clean, WriteHits, ShellHits, SetsReserved
      <4> QED BY <3>1, <3>3, <4>1 DEF Refused, ReadsFree
    <3>4. CASE Approved(c, denied, o)
      <4>1. Passed(o.ans) <=> ~(denied /\ gateHost = "claude")
        BY <3>1, <3>4, SentRead DEF Approved
      <4>2. denied => ~Floor(c)
        BY <2>3 DEF Answered, BreakerTool, Floor, McpMutation, Shell
      <4>3. Passed(last.ans)' <=> ~(denied /\ gateHost = "claude")
        BY <2>3, <3>1, <4>1 DEF Passed
      <4>4. denied => ~Floor(last.call)'
        BY <3>1, <4>2 DEF Floor
      <4> QED BY <2>3, <3>1, <4>1, <4>3, <4>4 DEF ReadsFree
    <3> QED BY <2>3, <3>2, <3>3, <3>4 DEF Answered
  <2> QED BY <1>1, <2>1, <2>2, <2>3, StepWeighed
<1> QED BY <1>1, RowStands, PTL DEF GateSpec, OpensWhenEarned

=============================================================================
