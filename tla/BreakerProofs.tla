--------------------------- MODULE BreakerProofs ---------------------------
(***************************************************************************)
(* Theorems about Breaker for every value of its constants.                *)
(***************************************************************************)
EXTENDS Breaker, FiniteSetTheorems, TLAPS

\* What the proofs use of the bounds.
LEMMA Bounds ==
  /\ MaxBlocks \in Nat /\ MaxBlocks > 0 /\ MaxAdjudicated \in Nat
  /\ 0 \in Time /\ 0 \in 0..MaxPrompt
  /\ \A k \in Prompts : k \in 0..MaxPrompt /\ k # 0
BY BreakerConstants DEF BreakerConstants, Time, Prompts

Good(s) == s \in Row /\ Consistent(s)

(***************************************************************************)
(* Each update of a row yields a row the breaker understands.              *)
(***************************************************************************)
LEMMA DisarmGood ==
  ASSUME NEW s, Good(s)
  PROVE  Good(Disarm(s)) /\ ~Disarm(s).armed /\ ~Disarm(s).prov
BY Bounds DEF Good, Row, Consistent, Disarm

LEMMA ClearDirectorGood ==
  ASSUME NEW s, Good(s)
  PROVE  Good(ClearDirector(s))
BY Bounds DEF Good, Row, Consistent, ClearDirector

LEMMA ArmGood ==
  ASSUME NEW s, Good(s), ~s.armed, ~s.prov,
         NEW k \in Prompts, NEW now \in Time, NEW c \in Claims \cup {NoClaim},
         NEW v \in Time, c = NoClaim => v = s.verifyAt
  PROVE  Good(ClearDirector([Arm(s, k, now, c) EXCEPT !.verifyAt = v]))
BY Bounds DEF Good, Row, Consistent, Arm, ClearDirector

LEMMA ArmUnnamedGood ==
  ASSUME NEW s, Good(s), ~s.armed, ~s.prov, NEW k \in Prompts, NEW now \in Time
  PROVE  Good(ClearDirector(Arm(s, k, now, NoClaim)))
BY Bounds DEF Good, Row, Consistent, Arm, ClearDirector

LEMMA LiftGood ==
  ASSUME NEW s, Good(s), s.verifyAt = 0, s.claim # NoClaim
  PROVE  Good(LiftProvisional(s))
BY DEF Good, Row, Consistent, LiftProvisional

LEMMA ReinstateGood ==
  ASSUME NEW s, Good(s), s.prov
  PROVE  Good(Reinstate(s))
BY Bounds DEF Good, Row, Consistent, Reinstate

LEMMA LastOfBounded ==
  ASSUME NEW S, NEW list \in Seq(S), NEW n \in Nat
  PROVE  LastOf(list, n) \in Seq(S) /\ Len(LastOf(list, n)) <= n
BY DEF LastOf

LEMMA RecordGood ==
  ASSUME NEW s, Good(s)
  PROVE  Good(RecordAdjudicated(s))
<1> DEFINE list == IF s.claim \in ToSet(s.adj) THEN s.adj ELSE Append(s.adj, s.claim)
<1> DEFINE kept == LastOf(list, MaxAdjudicated)
<1>1. CASE s.claim = NoClaim
  BY <1>1 DEF RecordAdjudicated
<1>2. CASE s.claim # NoClaim
  <2>1. s.claim \in Claims /\ s.adj \in Seq(Claims)
    BY <1>2 DEF Good, Row
  <2>2. list \in Seq(Claims)
    BY <2>1
  <2>3. kept \in Seq(Claims) /\ Len(kept) <= MaxAdjudicated
    BY <2>2, LastOfBounded, Bounds
  <2>4. RecordAdjudicated(s) = [s EXCEPT !.adj = kept]
    BY <1>2 DEF RecordAdjudicated
  <2> HIDE DEF kept
  <2>5. Good([s EXCEPT !.adj = kept])
    BY <2>3 DEF Good, Row, Consistent
  <2> QED BY <2>4, <2>5
<1> QED BY <1>1, <1>2

LEMMA AdjudicateGood ==
  ASSUME NEW s, Good(s)
  PROVE  Good(Adjudicate(s)) /\ ~Adjudicate(s).armed /\ ~Adjudicate(s).prov
BY RecordGood, DisarmGood DEF Adjudicate

LEMMA StampGood ==
  ASSUME NEW s, Good(s), NEW now \in Time
  PROVE  Good([s EXCEPT !.callAt = now])
BY DEF Good, Row, Consistent

LEMMA DirectGood ==
  ASSUME NEW s, Good(s), NEW k \in Prompts, NEW now \in Time, NEW sc \in {0, k}
  PROVE  Good([Disarm(s) EXCEPT !.key = k, !.judgedAt = now, !.scope = sc])
<1>1. Good(Disarm(s)) /\ ~Disarm(s).armed /\ ~Disarm(s).prov
  BY DisarmGood
<1> DEFINE t == Disarm(s)
<1> HIDE DEF t
<1>2. Good([t EXCEPT !.key = k, !.judgedAt = now, !.scope = sc])
  BY <1>1, Bounds DEF Good, Row, Consistent, t
<1> QED BY <1>2 DEF t

LEMMA DropStaleGood ==
  ASSUME NEW s, Good(s), NEW k
  PROVE  Good(DropStale(s, k))
BY DisarmGood, ClearDirectorGood DEF DropStale

(***************************************************************************)
(* So does each evaluation.                                                *)
(***************************************************************************)
LEMMA ReleaseGood ==
  ASSUME NEW s, Good(s), s.verifyAt = 0, s.claim # NoClaim, NEW r \in Release(s)
  PROVE  Good(r)
BY AdjudicateGood, ClearDirectorGood, LiftGood DEF Release

LEMMA PollGood ==
  ASSUME NEW s, Good(s), NEW r \in Poll(s)
  PROVE  Good(r)
<1>1. CASE r = Adjudicate(s)
  BY <1>1, AdjudicateGood
<1>2. CASE r = [s EXCEPT !.verifyAt = 0]
  BY <1>2, Bounds DEF Good, Row, Consistent
<1>3. CASE r = s
  BY <1>3
<1> QED BY <1>1, <1>2, <1>3 DEF Poll

Replies == {"allow", "failopen", "block", "hold", "reinstate"}
GoodAnswer(a) == a \in [row : Row, is : Replies, judge : BOOLEAN] /\ Consistent(a.row)

LEMMA AnswerGood ==
  ASSUME NEW s, Good(s), NEW x \in Replies
  PROVE  GoodAnswer(Answer(x, s))
BY DEF GoodAnswer, Good, Answer

LEMMA GoodAnswerRow ==
  ASSUME NEW a, GoodAnswer(a)
  PROVE  Good(a.row)
BY DEF GoodAnswer, Good

LEMMA DecideGood ==
  ASSUME NEW s, Good(s), NEW c, NEW coalesce
  PROVE  GoodAnswer(Decide(s, c, coalesce))
<1>1. ASSUME s.armed, ~(s.count + 1 >= MaxBlocks)
      PROVE  Good([s EXCEPT !.count = @ + 1])
  BY <1>1, Bounds DEF Good, Row, Consistent
<1>2. CASE ~(IsMutation(c.tool) /\ s.armed)
  BY <1>2, AnswerGood DEF Decide, Replies
<1>3. CASE IsMutation(c.tool) /\ s.armed
  <2>1. CASE coalesce \/ Verifying(s, c.now)
    BY <1>3, <2>1, AnswerGood DEF Decide, Replies
  <2>2. CASE ~(coalesce \/ Verifying(s, c.now)) /\ s.count + 1 >= MaxBlocks
    BY <1>3, <2>2, AdjudicateGood, AnswerGood DEF Decide, Replies
  <2>3. CASE ~(coalesce \/ Verifying(s, c.now)) /\ ~(s.count + 1 >= MaxBlocks)
    BY <1>1, <1>3, <2>3, AnswerGood DEF Decide, Replies
  <2> QED BY <2>1, <2>2, <2>3
<1> QED BY <1>2, <1>3

LEMMA FailingGood ==
  ASSUME NEW s, Good(s), NEW a \in Failing(s)
  PROVE  GoodAnswer(a)
BY AnswerGood DEF Failing, Replies

LEMMA JudgedGood ==
  ASSUME NEW answers, \A b \in answers : GoodAnswer(b), NEW a \in Judged(answers)
  PROVE  GoodAnswer(a)
<1>1. PICK b \in answers : a = [b EXCEPT !.judge = TRUE]
  BY DEF Judged
<1> QED BY <1>1 DEF GoodAnswer

LEMMA MonitorGood ==
  ASSUME NEW s, Good(s), s.prov, NEW c, NEW a \in Monitor(s, c)
  PROVE  GoodAnswer(a)
BY AnswerGood, ReinstateGood, FailingGood DEF Monitor, Replies

LEMMA WhileProvisionalGood ==
  ASSUME NEW s, Good(s), s.prov, NEW c, c.now \in Time, NEW coalesce,
         NEW a \in WhileProvisional(s, c, coalesce)
  PROVE  GoodAnswer(a)
<1> DEFINE j == [s EXCEPT !.callAt = c.now]
           after(r) == IF r.prov THEN Monitor(r, c) ELSE {Answer("allow", r)}
           answers == Failing(j) \cup UNION {after(r) : r \in Release(j)}
<1>1. CASE coalesce
  BY <1>1, AnswerGood DEF WhileProvisional, Replies
<1>2. CASE ~coalesce
  <2>1. Good(j) /\ j.verifyAt = 0 /\ j.claim # NoClaim
    BY StampGood DEF Good, Row, Consistent
  <2>2. ASSUME NEW r \in Release(j), NEW b \in after(r)
        PROVE  GoodAnswer(b)
    <3>1. Good(r)
      BY <2>1, ReleaseGood
    <3>2. CASE r.prov
      BY <3>1, <3>2, <2>2, MonitorGood
    <3>3. CASE ~r.prov
      BY <3>1, <3>3, <2>2, AnswerGood DEF Replies
    <3> QED BY <3>2, <3>3
  <2>3. ASSUME NEW b \in answers
        PROVE  GoodAnswer(b)
    <3>1. CASE b \in Failing(j)
      BY <2>1, <3>1, FailingGood
    <3>2. CASE b \in UNION {after(r) : r \in Release(j)}
      <4> HIDE DEF after
      <4>1. PICK r \in Release(j) : b \in after(r)
        BY <3>2
      <4> QED BY <4>1, <2>2
    <3> QED BY <3>1, <3>2, <2>3
  <2>4. a \in Judged(answers)
    BY <1>2 DEF WhileProvisional
  <2> HIDE DEF answers
  <2> QED BY <2>3, <2>4, JudgedGood
<1> QED BY <1>1, <1>2

LEMMA FlagClaimGood ==
  ASSUME NEW s, Good(s), ~s.armed, ~s.prov, NEW k \in Prompts, NEW c, c.now \in Time,
         NEW r \in FlagClaim(s, k, c)
  PROVE  Good(r)
<1>1. CASE \E cl \in Claims, v \in {s.verifyAt, c.now} :
             r = ClearDirector([Arm(s, k, c.now, cl) EXCEPT !.verifyAt = v])
  <2>1. PICK cl \in Claims, v \in {s.verifyAt, c.now} :
               r = ClearDirector([Arm(s, k, c.now, cl) EXCEPT !.verifyAt = v])
    BY <1>1
  <2>2. v \in Time
    BY DEF Good, Row
  <2>3. cl # NoClaim
    BY BreakerNames DEF BreakerNames
  <2> QED BY <2>1, <2>2, <2>3, ArmGood
<1>2. CASE r = ClearDirector(Arm(s, k, c.now, NoClaim))
  BY <1>2, ArmUnnamedGood
<1>3. r \in {ClearDirector([Arm(s, k, c.now, cl) EXCEPT !.verifyAt = v]) :
               cl \in {x \in Claims : ~Suppressed(s, x)}, v \in {s.verifyAt, c.now}}
      \/ r = ClearDirector(Arm(s, k, c.now, NoClaim))
  BY DEF FlagClaim
<1> QED BY <1>1, <1>2, <1>3

LEMMA WhileDisarmedGood ==
  ASSUME NEW s, Good(s), ~s.armed, ~s.prov, NEW k \in Prompts, NEW c, c.now \in Time,
         NEW coalesce, NEW a \in WhileDisarmed(s, k, c, coalesce)
  PROVE  GoodAnswer(a)
<1> DEFINE j == [s EXCEPT !.callAt = c.now]
           rows == FlagClaim(j, k, c) \cup Direct(j, k, c)
           answers == Failing(j) \cup {Decide(r, c, FALSE) : r \in rows}
<1>1. CASE a = Answer("allow", s)
  BY <1>1, AnswerGood DEF Replies
<1>2. CASE a \in Judged(answers)
  <2>1. Good(j) /\ ~j.armed /\ ~j.prov
    BY StampGood DEF Good, Row
  <2> HIDE DEF j
  <2>2. ASSUME NEW r \in rows
        PROVE  Good(r)
    <3>1. CASE r \in FlagClaim(j, k, c)
      BY <3>1, <2>1, FlagClaimGood
    <3>2. CASE r \in Direct(j, k, c)
      <4>1. PICK sc \in {0, k} :
               r = [Disarm(j) EXCEPT !.key = k, !.judgedAt = c.now, !.scope = sc]
        BY <3>2 DEF Direct
      <4> QED BY <4>1, <2>1, DirectGood
    <3> QED BY <3>1, <3>2, <2>2
  <2> HIDE DEF rows
  <2>3. ASSUME NEW b \in answers
        PROVE  GoodAnswer(b)
    BY <2>1, <2>2, <2>3, FailingGood, DecideGood
  <2> HIDE DEF answers
  <2> QED BY <1>2, <2>3, JudgedGood
<1>3. a = Answer("allow", s) \/ a \in Judged(answers)
  BY DEF WhileDisarmed
<1> QED BY <1>1, <1>2, <1>3

LEMMA WhileArmedGood ==
  ASSUME NEW s, Good(s), s.armed, NEW c, c.now \in Time, NEW coalesce,
         NEW a \in WhileArmed(s, c, coalesce)
  PROVE  GoodAnswer(a)
<1> DEFINE j == [s EXCEPT !.callAt = c.now]
           answers == Failing(j) \cup {Decide(r, c, coalesce) : r \in Release(j)}
<1>1. CASE a \in {Decide(r, c, coalesce) : r \in Poll(s)}
  BY <1>1, PollGood, DecideGood
<1>2. CASE a = Decide(s, c, coalesce)
  BY <1>2, DecideGood
<1>3. CASE s.verifyAt = 0 /\ s.claim # NoClaim /\ a \in Judged(answers)
  <2>1. Good(j) /\ j.verifyAt = 0 /\ j.claim # NoClaim
    BY <1>3, StampGood DEF Good, Row
  <2> HIDE DEF j
  <2>2. ASSUME NEW b \in answers
        PROVE  GoodAnswer(b)
    BY <2>1, <2>2, FailingGood, ReleaseGood, DecideGood
  <2> HIDE DEF answers
  <2> QED BY <1>3, <2>2, JudgedGood
<1> QED BY <1>1, <1>2, <1>3 DEF WhileArmed

LEMMA PreToolGood ==
  ASSUME NEW s, Good(s), NEW k \in Prompts, NEW c, c.now \in Time,
         NEW a \in PreTool(s, k, c)
  PROVE  GoodAnswer(a)
<1> DEFINE co == ShouldCoalesce(s, k, c.now)
           t == DropStale(s, k)
<1>1. Good(t)
  BY DropStaleGood
<1> HIDE DEF t, co
<1>2. CASE t.prov /\ a \in WhileProvisional(t, c, co)
  BY <1>1, <1>2, WhileProvisionalGood
<1>3. CASE ~t.prov /\ t.armed /\ a \in WhileArmed(t, c, co)
  BY <1>1, <1>3, WhileArmedGood
<1>4. CASE ~t.prov /\ ~t.armed /\ a \in WhileDisarmed(t, k, c, co)
  BY <1>1, <1>4, WhileDisarmedGood
<1>5. t.prov \in BOOLEAN /\ t.armed \in BOOLEAN
  BY <1>1 DEF Good, Row
<1> QED BY <1>2, <1>3, <1>4, <1>5 DEF PreTool, t, co

LEMMA PostToolReleaseGood ==
  ASSUME NEW s, Good(s), NEW tool, NEW r \in PostToolRelease(s, tool)
  PROVE  Good(r)
<1> DEFINE polled == IF s.verifyAt = 0 THEN {s} ELSE Poll(s)
           final  == {x \in polled : s.verifyAt # 0 /\ (~x.armed \/ x.verifyAt # 0)}
           next(x) == IF tool /\ x.claim # NoClaim THEN Release(x) ELSE {x}
<1>1. ASSUME NEW x \in polled
      PROVE  Good(x)
  BY PollGood
<1>2. CASE r \in final
  BY <1>1, <1>2
<1>3. CASE r \in UNION {next(x) : x \in polled \ final}
  <2>1. PICK x \in polled \ final : r \in next(x)
    BY <1>3
  <2>2. Good(x) /\ x.verifyAt = 0
    BY <2>1, <1>1 DEF Good, Row
  <2> QED BY <2>1, <2>2, ReleaseGood
<1> QED BY <1>2, <1>3 DEF PostToolRelease

LEMMA LiftOutcomesGood ==
  ASSUME NEW s, Good(s), NEW a \in Actions \cup {NoAction}, NEW r \in LiftOutcomes(s, a)
  PROVE  Good(r)
<1> DEFINE called == [s EXCEPT !.liftCalls = @ + 1]
           spend(x) == [x EXCEPT !.uses = IF @ > 0 THEN @ - 1 ELSE 0]
<1>1. ASSUME NEW x, Good(x)
      PROVE  Good(spend(x))
  <2> DEFINE n == IF x.uses > 0 THEN x.uses - 1 ELSE 0
  <2>1. n \in Nat
    BY <1>1 DEF Good, Row
  <2> HIDE DEF n
  <2>2. Good([x EXCEPT !.uses = n])
    BY <1>1, <2>1 DEF Good, Row, Consistent
  <2> QED BY <2>2 DEF n
<1>2. Good(called)
  BY DEF Good, Row, Consistent
<1>3. Good([called EXCEPT !.lift = a, !.uses = LiftUses])
  BY <1>2, BreakerConstants DEF Good, Row, Consistent, BreakerConstants
<1>4. Good([called EXCEPT !.lift = a, !.uses = LiftUses]) => 
        Good(spend([called EXCEPT !.lift = a, !.uses = LiftUses]))
  BY <1>1
<1>5. r \in {spend(s), called, spend([called EXCEPT !.lift = a, !.uses = LiftUses])}
  BY DEF LiftOutcomes
<1> HIDE DEF called, spend
<1> QED BY <1>1, <1>2, <1>3, <1>5

(***************************************************************************)
(* The row invariant.  It speaks of the loaded rows too: a save writes an  *)
(* evaluation of a loaded row, whatever the stored row has become.         *)
(***************************************************************************)
RowInv ==
  /\ clock \in Time /\ prompt \in Prompts
  /\ Good(row)
  /\ mem \in [Procs -> Row] /\ \A p \in Procs : Good(mem[p])
  /\ call \in [Hooks -> Call]

LEMMA DefaultGood == Good(DefaultRow)
BY Bounds DEF Good, Row, Consistent, DefaultRow

LEMMA NoCallTyped == NoCall \in Call
BY Bounds DEF NoCall, Call, AllTools

LEMMA MemGood ==
  ASSUME RowInv, NEW p \in Procs, NEW s, Good(s), mem' = [mem EXCEPT ![p] = s]
  PROVE  mem' \in [Procs -> Row] /\ \A q \in Procs : Good(mem'[q])
BY DEF RowInv, Good

LEMMA CallCleared ==
  ASSUME RowInv, NEW h \in Hooks, call' = [call EXCEPT ![h] = NoCall]
  PROVE  call' \in [Hooks -> Call]
BY NoCallTyped DEF RowInv

LEMMA RowInvInit == Init => RowInv
BY DefaultGood, NoCallTyped, BreakerConstants
   DEF Init, RowInv, Good, Time, Prompts, BreakerConstants

\* A step that writes a good row preserves the invariant, if the rows it loads
\* and the calls it starts are typed.
LEMMA WritePreserves ==
  ASSUME RowInv, Good(row)', clock' \in Time, prompt' \in Prompts,
         mem' \in [Procs -> Row], \A q \in Procs : Good(mem'[q]), call' \in [Hooks -> Call]
  PROVE  RowInv'
<1>1. Time' = Time /\ Prompts' = Prompts /\ Row' = Row /\ Call' = Call
  BY DEF Time, Prompts, Row, Call
<1> QED BY <1>1 DEF RowInv, Good, Consistent

\* In particular, a save of a good row.
LEMMA SavePreserves ==
  ASSUME RowInv, NEW p \in Procs, NEW s, Good(s), Save(p, s),
         UNCHANGED <<clock, prompt>>, call' \in [Hooks -> Call]
  PROVE  RowInv'
<1>1. row' = s /\ mem' = [mem EXCEPT ![p] = DefaultRow]
  BY DEF Save
<1>2. mem' \in [Procs -> Row] /\ \A q \in Procs : Good(mem'[q])
  BY <1>1, MemGood, DefaultGood
<1>3. Good(row)'
  BY <1>1 DEF Good, Consistent, Row, Time
<1>4. clock' \in Time /\ prompt' \in Prompts
  BY DEF RowInv
<1> QED BY <1>2, <1>3, <1>4, WritePreserves

\* So does a step that writes no row, if its loads and calls are typed.
LEMMA IdlePreserves ==
  ASSUME RowInv, UNCHANGED row, clock' \in Time, prompt' \in Prompts,
         mem' \in [Procs -> Row], \A q \in Procs : Good(mem'[q]), call' \in [Hooks -> Call]
  PROVE  RowInv'
<1>1. Good(row)'
  BY DEF RowInv, Good, Consistent, Row, Time
<1> QED BY <1>1, WritePreserves

LEMMA RowInvNext ==
  ASSUME RowInv, [Next]_vars
  PROVE  RowInv'
<1> USE DEF Procs
<1>0. /\ clock \in Time /\ prompt \in Prompts /\ call \in [Hooks -> Call]
      /\ mem \in [Procs -> Row] /\ \A q \in Procs : Good(mem[q]) /\ Good(row)
  BY DEF RowInv
<1>1. CASE Tick
  <2>1. clock' \in Time
    BY <1>0, <1>1, BreakerConstants DEF Tick, Time, BreakerConstants
  <2> QED BY <1>0, <1>1, <2>1, IdlePreserves DEF Tick
<1>2. CASE NewPrompt
  <2>1. prompt' \in Prompts
    BY <1>0, <1>2, BreakerConstants DEF NewPrompt, Prompts, BreakerConstants
  <2> QED BY <1>0, <1>2, <2>1, IdlePreserves DEF NewPrompt
<1>3. ASSUME NEW p \in Procs, Load(p)
      PROVE  RowInv'
  BY <1>0, <1>3, MemGood, IdlePreserves DEF Load
<1>4. ASSUME NEW p \in Procs, Crash(p)
      PROVE  RowInv'
  <2>1. call' \in [Hooks -> Call]
    BY <1>0, <1>4, CallCleared DEF Crash
  <2> QED BY <1>0, <1>4, <2>1, MemGood, DefaultGood, IdlePreserves DEF Crash
<1>5. ASSUME NEW h \in Hooks, HookStart(h)
      PROVE  RowInv'
  <2>1. PICK t \in Tools : \E a \in (IF t = "mutate" THEN Actions ELSE {NoAction}) :
          call' = [call EXCEPT ![h] = [now |-> clock, tool |-> t, action |-> a]]
    BY <1>5 DEF HookStart
  <2>2. PICK a \in Actions \cup {NoAction} :
          call' = [call EXCEPT ![h] = [now |-> clock, tool |-> t, action |-> a]]
    BY <2>1
  <2>3. t \in AllTools
    BY BreakerConstants DEF BreakerConstants
  <2>4. [now |-> clock, tool |-> t, action |-> a] \in Call
    BY <1>0, <2>3 DEF Call
  <2>5. call' \in [Hooks -> Call]
    BY <1>0, <2>2, <2>4
  <2> QED BY <1>0, <1>5, <2>5, IdlePreserves DEF HookStart
<1>6. ASSUME NEW h \in Hooks, HookSave(h)
      PROVE  RowInv'
  <2>1. PICK a \in PreTool(mem[h], prompt, call[h]) : Save(h, a.row)
    BY <1>6 DEF HookSave
  <2>2. Good(mem[h]) /\ call[h].now \in Time
    BY <1>0 DEF Call
  <2>3. Good(a.row)
    BY <1>0, <2>1, <2>2, PreToolGood, GoodAnswerRow
  <2>4. call' \in [Hooks -> Call]
    BY <1>0, <1>6, CallCleared DEF HookSave
  <2>5. UNCHANGED <<clock, prompt>>
    BY <1>6 DEF HookSave
  <2> QED BY <2>1, <2>3, <2>4, <2>5, SavePreserves
<1>7. ASSUME NEW h \in Hooks, ScopeBlock(h) \/ ScopePass(h)
      PROVE  RowInv'
  BY <1>0, <1>7, CallCleared, IdlePreserves DEF ScopeBlock, ScopePass, Finish
<1>8. ASSUME NEW h \in Hooks, LiftLoad(h)
      PROVE  RowInv'
  BY <1>0, <1>8, MemGood, IdlePreserves DEF LiftLoad
<1>9. ASSUME NEW h \in Hooks, LiftSave(h)
      PROVE  RowInv'
  <2>1. PICK s \in LiftOutcomes(mem[h], call[h].action) : row' = s
    BY <1>9 DEF LiftSave
  <2>2. Good(s)
    BY <1>0, <2>1, LiftOutcomesGood DEF Call
  <2>3. mem' \in [Procs -> Row] /\ \A q \in Procs : Good(mem'[q])
    BY <1>9, MemGood, DefaultGood DEF LiftSave
  <2>4. call' \in [Hooks -> Call]
    BY <1>9, CallCleared DEF LiftSave, Finish
  <2>5. UNCHANGED <<clock, prompt>>
    BY <1>9 DEF LiftSave
  <2>6. Good(row)'
    BY <2>1, <2>2 DEF Good, Consistent, Row, Time
  <2> QED BY <1>0, <2>3, <2>4, <2>5, <2>6, WritePreserves
<1>10. ASSUME NEW h \in Hooks, LiftExhausted(h)
       PROVE  RowInv'
  BY <1>0, <1>10, MemGood, DefaultGood, CallCleared, IdlePreserves DEF LiftExhausted, Finish
<1>11. ASSUME NEW w \in Workers, WorkerStart(w)
       PROVE  RowInv'
  BY <1>0, <1>11, IdlePreserves DEF WorkerStart
<1>12. ASSUME NEW w \in Workers, WorkerSave(w)
       PROVE  RowInv'
  <2>1. PICK s \in PostToolRelease(mem[w], TRUE) : Save(w, s)
    BY <1>12 DEF WorkerSave
  <2>2. Good(s)
    BY <1>0, <2>1, PostToolReleaseGood
  <2> QED BY <1>0, <1>12, <2>1, <2>2, SavePreserves DEF WorkerSave
<1>13. ASSUME NEW w \in Workers, WorkerQuit(w)
       PROVE  RowInv'
  BY <1>0, <1>13, MemGood, DefaultGood, IdlePreserves DEF WorkerQuit
<1>14. ASSUME NEW z \in Stops, StopStart(z)
       PROVE  RowInv'
  BY <1>0, <1>14, IdlePreserves DEF StopStart
<1>15. ASSUME NEW z \in Stops, StopSave(z)
       PROVE  RowInv'
  <2>1. PICK s \in PostToolRelease(mem[z], FALSE) \cup Poll(mem[z]) : Save(z, s)
    BY <1>15 DEF StopSave
  <2>2. Good(s)
    BY <1>0, <2>1, PostToolReleaseGood, PollGood
  <2> QED BY <1>0, <1>15, <2>1, <2>2, SavePreserves DEF StopSave
<1>16. ASSUME NEW z \in Stops, StopSkip(z)
       PROVE  RowInv'
  BY <1>0, <1>16, MemGood, DefaultGood, IdlePreserves DEF StopSkip
<1>17. CASE UNCHANGED vars
  BY <1>0, <1>17, IdlePreserves DEF vars
<1> QED
  BY <1>1, <1>2, <1>3, <1>4, <1>5, <1>6, <1>7, <1>8, <1>9, <1>10, <1>11, <1>12,
     <1>13, <1>14, <1>15, <1>16, <1>17 DEF Next, Acquire, Expire

\* In every reachable state, whatever the number of hooks, workers and Stop
\* hooks, with lock waits that expire and saves that overwrite each other, the
\* stored row is consistent: an arm and a provisional lift exclude each other,
\* the block count stays below max_blocks(), the durable claim list is bounded.
THEOREM RowAlwaysConsistent == Spec => []RowConsistent
<1>1. Init => RowInv
  BY RowInvInit
<1>2. RowInv /\ [Next]_vars => RowInv'
  BY RowInvNext
<1>3. RowInv => RowConsistent
  BY DEF RowInv, Good, RowConsistent
<1> QED BY <1>1, <1>2, <1>3, PTL DEF Spec

(***************************************************************************)
(* Mutual exclusion.  Only one process can be between its load and its     *)
(* save, so what it loaded is still what is stored.  This needs the two    *)
(* facts the violation runs take away: no lock wait is exhausted, and no   *)
(* hook takes the unlocked gate-lift path.                                 *)
(***************************************************************************)
Locations == {"idle", "wait", "held", "scope", "gate", "lift", "waitVerify", "heldVerify"}
Inside(p) == pc[p] \in {"held", "heldVerify"}

LockInv ==
  /\ pc \in [Procs -> Locations] /\ mem \in [Procs -> Row]
  /\ row \in Row
  /\ \A p \in Procs : Inside(p) => lock = p /\ mem[p] = row
  /\ \A p \in Procs : pc[p] \notin {"gate", "lift"}

\* A process that leaves the section, and may write the row, does so alone.
LEMMA LeavePreserves ==
  ASSUME LockInv, NEW p \in Procs, Inside(p), NEW l \in Locations, NEW s \in Row,
         l \notin {"held", "heldVerify", "gate", "lift"}, row' \in Row,
         pc' = [pc EXCEPT ![p] = l], mem' = [mem EXCEPT ![p] = s]
  PROVE  LockInv'
<1>1. \A q \in Procs : Inside(q) => q = p
  BY DEF LockInv
<1>2. \A q \in Procs : ~Inside(q)'
  BY <1>1 DEF LockInv, Inside
<1>3. pc' \in [Procs -> Locations] /\ mem' \in [Procs -> Row]
  BY DEF LockInv
<1>4. \A q \in Procs : pc'[q] \notin {"gate", "lift"}
  BY DEF LockInv
<1> QED BY <1>2, <1>3, <1>4 DEF LockInv, Row, Time, Procs

\* A process outside the section moves without touching row, lock or loads.
LEMMA MovePreserves ==
  ASSUME LockInv, NEW p \in Procs, ~Inside(p), NEW l \in Locations,
         l \notin {"held", "heldVerify", "gate", "lift"},
         pc' = [pc EXCEPT ![p] = l], UNCHANGED <<row, lock, mem>>
  PROVE  LockInv'
<1>1. pc' \in [Procs -> Locations]
  BY DEF LockInv
<1>2. \A q \in Procs : Inside(q)' => q # p /\ Inside(q)
  BY DEF LockInv, Inside
<1> QED BY <1>1, <1>2 DEF LockInv, Row, Time, Procs

LEMMA LockInvNext ==
  ASSUME Expirers = {}, ~GateLifts, RowInv, LockInv, [Next]_vars
  PROVE  LockInv'
<1> USE DEF Procs
<1>0. DefaultRow \in Row /\ row' \in Row
  BY DefaultGood, RowInvNext DEF RowInv, Good, Row, Time
<1>1. CASE UNCHANGED <<row, lock, pc, mem>>
  BY <1>1 DEF LockInv, Inside, Row, Time
<1>2. ASSUME NEW p \in Procs, Acquire(p)
      PROVE  LockInv'
  <2>1. lock = Free /\ lock' = p /\ row' = row /\ mem' = [mem EXCEPT ![p] = row]
    BY <1>2 DEF Acquire, Load
  <2>2. PICK l \in {"held", "heldVerify"} : pc' = [pc EXCEPT ![p] = l]
    BY <1>2 DEF Acquire, Load, Held
  <2>3. pc' \in [Procs -> Locations]
    BY <2>2 DEF LockInv, Locations
  <2>4. row \in Row
    BY DEF LockInv
  <2>5. \A q \in Procs : ~Inside(q)
    BY <2>1, BreakerNames DEF LockInv, BreakerNames
  <2>6. \A q \in Procs : Inside(q)' => q = p
    BY <2>2, <2>5 DEF Inside, LockInv
  <2>7. mem' \in [Procs -> Row] /\ mem'[p] = row'
    BY <2>1, <2>4 DEF LockInv
  <2>8. \A q \in Procs : pc'[q] \notin {"gate", "lift"}
    BY <2>2 DEF LockInv
  <2> QED BY <2>1, <2>3, <2>6, <2>7, <2>8 DEF LockInv, Row, Time
<1>3. ASSUME NEW p \in Procs, Expire(p)
      PROVE  LockInv'
  BY <1>3 DEF Expire
<1>4. ASSUME NEW p \in Procs, Crash(p)
      PROVE  LockInv'
  <2>1. pc' = [pc EXCEPT ![p] = "idle"] /\ mem' = [mem EXCEPT ![p] = DefaultRow] /\ row' = row
    BY <1>4 DEF Crash
  <2>2. \A q \in Procs : Inside(q)' => q # p /\ Inside(q)
    BY <2>1 DEF Inside, LockInv
  <2>3. \A q \in Procs : Inside(q)' => lock' = q
    BY <1>4, <2>2 DEF LockInv, Crash, Unlock
  <2>4. pc' \in [Procs -> Locations] /\ mem' \in [Procs -> Row]
    BY <1>0, <2>1 DEF LockInv, Locations
  <2> QED BY <2>1, <2>2, <2>3, <2>4 DEF LockInv, Row, Time
<1>5. ASSUME NEW h \in Hooks, HookStart(h)
      PROVE  LockInv'
  BY <1>5, MovePreserves DEF HookStart, Inside, Locations
<1>6. ASSUME NEW h \in Hooks, HookSave(h)
      PROVE  LockInv'
  <2>1. PICK l \in {"idle", "scope"} : pc' = [pc EXCEPT ![h] = l]
    BY <1>6 DEF HookSave
  <2> QED BY <1>0, <1>6, <2>1, LeavePreserves DEF HookSave, Save, Inside, Locations
<1>7. ASSUME NEW h \in Hooks, ScopeBlock(h) \/ ScopePass(h)
      PROVE  LockInv'
  BY <1>7, MovePreserves DEF ScopeBlock, ScopePass, Finish, Inside, Locations
<1>8. ASSUME NEW h \in Hooks, LiftLoad(h) \/ LiftSave(h) \/ LiftExhausted(h)
      PROVE  LockInv'
  BY <1>8 DEF LockInv, LiftLoad, LiftSave, LiftExhausted
<1>9. ASSUME NEW w \in Workers, WorkerStart(w)
      PROVE  LockInv'
  BY <1>9, MovePreserves DEF WorkerStart, Inside, Locations
<1>10. ASSUME NEW w \in Workers, WorkerSave(w) \/ WorkerQuit(w)
       PROVE  LockInv'
  BY <1>0, <1>10, LeavePreserves DEF WorkerSave, WorkerQuit, Save, Inside, Locations
<1>11. ASSUME NEW z \in Stops, StopStart(z)
       PROVE  LockInv'
  BY <1>11, MovePreserves DEF StopStart, Inside, Locations
<1>12. ASSUME NEW z \in Stops, StopSave(z) \/ StopSkip(z)
       PROVE  LockInv'
  <2>1. PICK l \in {"waitVerify", "idle"} : pc' = [pc EXCEPT ![z] = l]
    BY <1>12 DEF StopSave, StopSkip, StopNext
  <2>2. mem' = [mem EXCEPT ![z] = DefaultRow]
    BY <1>12 DEF StopSave, StopSkip, Save
  <2>3. Inside(z)
    BY <1>12 DEF StopSave, StopSkip, Inside
  <2> QED BY <1>0, <2>1, <2>2, <2>3, LeavePreserves DEF Locations
<1>13. CASE Tick \/ NewPrompt
  BY <1>1, <1>13 DEF Tick, NewPrompt
<1>14. CASE UNCHANGED vars
  BY <1>1, <1>14 DEF vars
<1> QED
  BY <1>2, <1>3, <1>4, <1>5, <1>6, <1>7, <1>8, <1>9, <1>10, <1>11, <1>12, <1>13, <1>14
     DEF Next

\* With no exhausted lock wait and no gate lift, save_breaker's claim holds for
\* any number of processes: the load, the judge call and the save of one
\* process are serialized with those of every other.
THEOREM LockSerializes ==
  ASSUME Expirers = {}, ~GateLifts
  PROVE  Spec => []Serialized
<1>1. Init => LockInv
  BY DefaultGood DEF Init, LockInv, Inside, Locations, Good
<1>2. RowInv /\ LockInv /\ [Next]_vars => RowInv' /\ LockInv'
  BY RowInvNext, LockInvNext
<1>3. LockInv => Serialized
  BY DEF LockInv, Inside, Serialized
<1> QED BY <1>1, <1>2, <1>3, RowInvInit, PTL DEF Spec

(***************************************************************************)
(* What an evaluation does to the row, field by field.                     *)
(***************************************************************************)
\* The claim, and whose it is, are the same; only the stamps may differ.
Quiet(s, m) ==
  /\ m.armed = s.armed /\ m.prov = s.prov /\ m.claim = s.claim /\ m.count = s.count
  /\ m.key = s.key /\ m.adj = s.adj /\ m.scope = s.scope

\* The claim is adjudicated and the gate open.
Settled(s, m) ==
  /\ ~m.armed /\ ~m.prov /\ m.claim = NoClaim /\ m.count = 0
  /\ m.key = s.key /\ m.adj = RecordAdjudicated(s).adj /\ m.scope \in {0, s.scope}

\* An armed claim is lifted for verification.
Lifted(s, m) ==
  /\ s.armed /\ s.claim # NoClaim
  /\ ~m.armed /\ m.prov /\ m.claim = s.claim /\ m.count = 0
  /\ m.key = s.key /\ m.adj = s.adj /\ m.scope = s.scope

\* A claim is flagged in the prompt k.
Flagged(s, m, k) ==
  /\ ~s.armed /\ ~s.prov
  /\ m.armed /\ ~m.prov /\ m.count = 0 /\ m.key = k /\ m.adj = s.adj /\ m.scope = 0
  /\ m.claim # NoClaim => m.claim \in Claims /\ ~Suppressed(s, m.claim)

\* Nothing is flagged; the director may bind the prompt k to a scope.
Directed(s, m, k) ==
  /\ ~s.armed /\ ~s.prov
  /\ ~m.armed /\ ~m.prov /\ m.claim = NoClaim /\ m.count = 0
  /\ m.key = k /\ m.adj = s.adj /\ m.scope \in {0, k}

LEMMA LastOfKeepsLast ==
  ASSUME NEW S, NEW list \in Seq(S), NEW n \in Nat, n > 0, Len(list) > 0
  PROVE  list[Len(list)] \in ToSet(LastOf(list, n))
<1> DEFINE kept == LastOf(list, n)
<1>1. CASE Len(list) <= n
  BY <1>1 DEF LastOf, ToSet
<1>2. CASE Len(list) > n
  <2>1. kept = SubSeq(list, Len(list) - n + 1, Len(list))
    BY <1>2 DEF LastOf
  <2>2. Len(kept) = n /\ kept[n] = list[(Len(list) - n + 1) + n - 1] /\ DOMAIN kept = 1..n
    BY <2>1, <1>2
  <2> HIDE DEF kept
  <2>3. kept[n] = list[Len(list)] /\ n \in DOMAIN kept
    BY <2>2
  <2> QED BY <2>3 DEF ToSet, kept
<1> QED BY <1>1, <1>2

\* The adjudicated claim is in the durable list, which has room for one at least.
LEMMA RecordKeepsClaim ==
  ASSUME NEW s, Good(s)
  PROVE  /\ RecordAdjudicated(s) = [s EXCEPT !.adj = RecordAdjudicated(s).adj]
         /\ s.claim # NoClaim => s.claim \in ToSet(RecordAdjudicated(s).adj)
         /\ s.claim = NoClaim => RecordAdjudicated(s).adj = s.adj
<1> DEFINE list == IF s.claim \in ToSet(s.adj) THEN s.adj ELSE Append(s.adj, s.claim)
           kept == LastOf(list, MaxAdjudicated)
<1>1. CASE s.claim = NoClaim
  <2>1. [s EXCEPT !.adj = s.adj] = s
    BY DEF Good, Row
  <2> QED BY <1>1, <2>1 DEF RecordAdjudicated
<1>2. CASE s.claim # NoClaim
  <2>1. s.claim \in Claims /\ s.adj \in Seq(Claims) /\ Len(s.adj) <= MaxAdjudicated
    BY <1>2 DEF Good, Row, Consistent
  <2>2. RecordAdjudicated(s) = [s EXCEPT !.adj = kept]
    BY <1>2 DEF RecordAdjudicated
  <2>3. s.claim \in ToSet(kept)
    <3>1. CASE s.claim \in ToSet(s.adj)
      BY <2>1, <3>1 DEF LastOf
    <3>2. CASE s.claim \notin ToSet(s.adj)
      <4>1. list = Append(s.adj, s.claim) /\ list \in Seq(Claims) /\ Len(list) = Len(s.adj) + 1
            /\ list[Len(list)] = s.claim
        BY <2>1, <3>2
      <4> HIDE DEF list
      <4>2. Len(list) > 0 /\ MaxAdjudicated \in Nat /\ MaxAdjudicated > 0
        BY <2>1, <4>1, BreakerConstants DEF BreakerConstants
      <4> QED BY <4>1, <4>2, LastOfKeepsLast
    <3> QED BY <3>1, <3>2
  <2> HIDE DEF kept
  <2>4. [s EXCEPT !.adj = kept].adj = kept
    BY DEF Good, Row
  <2> QED BY <1>2, <2>2, <2>3, <2>4
<1> QED BY <1>1, <1>2

LEMMA AdjudicateSettles ==
  ASSUME NEW s, Good(s)
  PROVE  /\ Settled(s, Adjudicate(s)) /\ Adjudicate(s).callAt = s.callAt
         /\ Settled(s, ClearDirector(Adjudicate(s)))
         /\ ClearDirector(Adjudicate(s)).callAt = s.callAt
<1> DEFINE r == RecordAdjudicated(s)
<1>1. Good(r) /\ r = [s EXCEPT !.adj = r.adj]
  BY RecordGood, RecordKeepsClaim
<1>2. r.key = s.key /\ r.callAt = s.callAt /\ r.scope = s.scope
  BY <1>1 DEF Good, Row
<1> HIDE DEF r
<1>3. Adjudicate(s) = Disarm(r)
  BY DEF Adjudicate, r
<1> QED BY <1>1, <1>2, <1>3 DEF Good, Row, Settled, Disarm, ClearDirector, r

LEMMA QuietSettled ==
  ASSUME NEW s, NEW m, NEW n, Quiet(s, m), Settled(m, n), Good(s), Good(m)
  PROVE  Settled(s, n)
<1>1. RecordAdjudicated(m).adj = RecordAdjudicated(s).adj
  BY DEF Quiet, RecordAdjudicated, Good, Row
<1> QED BY <1>1 DEF Quiet, Settled

LEMMA ReleaseSteps ==
  ASSUME NEW s, Good(s), s.verifyAt = 0, s.claim # NoClaim, NEW r \in Release(s)
  PROVE  /\ Quiet(s, r) \/ Settled(s, r) \/ Lifted(s, r)
         /\ r.callAt = s.callAt
<1>1. CASE r \in {ClearDirector(Adjudicate(s)), s}
  BY <1>1, AdjudicateSettles DEF Quiet
<1>2. CASE r = LiftProvisional(s)
  BY <1>2 DEF Good, Row, Consistent, Quiet, Lifted, LiftProvisional
<1> QED BY <1>1, <1>2 DEF Release

LEMMA PollSteps ==
  ASSUME NEW s, Good(s), NEW r \in Poll(s)
  PROVE  (Quiet(s, r) \/ Settled(s, r)) /\ r.callAt = s.callAt
<1>1. CASE r = Adjudicate(s)
  BY <1>1, AdjudicateSettles
<1>2. CASE r \in {s, [s EXCEPT !.verifyAt = 0]}
  BY <1>2 DEF Good, Row, Quiet
<1> QED BY <1>1, <1>2 DEF Poll

LEMMA FlagSteps ==
  ASSUME NEW s, Good(s), ~s.armed, ~s.prov, NEW k \in Prompts, NEW c, c.now \in Time,
         NEW r \in FlagClaim(s, k, c)
  PROVE  Flagged(s, r, k) /\ r.callAt = s.callAt
<1>1. ASSUME NEW cl \in Claims, ~Suppressed(s, cl), NEW v,
             r = ClearDirector([Arm(s, k, c.now, cl) EXCEPT !.verifyAt = v])
      PROVE  Flagged(s, r, k) /\ r.callAt = s.callAt
  BY <1>1 DEF Good, Row, Flagged, Arm, ClearDirector
<1>2. CASE r = ClearDirector(Arm(s, k, c.now, NoClaim))
  BY <1>2 DEF Good, Row, Flagged, Arm, ClearDirector
<1>3. (\E cl \in {x \in Claims : ~Suppressed(s, x)}, v \in {s.verifyAt, c.now} :
         r = ClearDirector([Arm(s, k, c.now, cl) EXCEPT !.verifyAt = v]))
      \/ r = ClearDirector(Arm(s, k, c.now, NoClaim))
  BY DEF FlagClaim
<1> QED BY <1>1, <1>2, <1>3

LEMMA DirectSteps ==
  ASSUME NEW s, Good(s), ~s.armed, ~s.prov, NEW k \in Prompts, NEW c, NEW r \in Direct(s, k, c)
  PROVE  Directed(s, r, k) /\ r.callAt = s.callAt
<1>1. PICK sc \in {0, k} : r = [Disarm(s) EXCEPT !.key = k, !.judgedAt = c.now, !.scope = sc]
  BY DEF Direct
<1> QED BY <1>1 DEF Good, Row, Directed, Disarm

(***************************************************************************)
(* An evaluation is a change of the row, in the light of what the judge    *)
(* said, and then an answer to the call.                                   *)
(***************************************************************************)
Evaluated(s, m, k) ==
  Quiet(s, m) \/ Settled(s, m) \/ Lifted(s, m) \/ Flagged(s, m, k) \/ Directed(s, m, k)

\* What may be answered to the call c when the row is m.
Follows(m, c, a) ==
  CASE a.is = "allow"     -> a.row = m /\ (m.armed /\ IsMutation(c.tool) => JudgeErrors)
    [] a.is = "hold"      -> a.row = m /\ m.armed /\ IsMutation(c.tool)
    [] a.is = "failopen"  -> /\ m.armed /\ IsMutation(c.tool) /\ m.count + 1 >= MaxBlocks
                             /\ a.row = Adjudicate(m)
    [] a.is = "block"     -> /\ m.armed /\ IsMutation(c.tool) /\ m.count + 1 < MaxBlocks
                             /\ a.row = [m EXCEPT !.count = @ + 1]
    [] a.is = "reinstate" -> m.prov /\ IsMutation(c.tool) /\ a.row = Reinstate(m)
    [] OTHER -> FALSE

\* When the judge was asked, what a sibling of the batch goes by is written.
Stamped(s, m, k, c, coalesce, a) ==
  /\ a.judge => ~coalesce /\ m.callAt = c.now /\ (JudgeErrors \/ m.key = k)
  /\ ~a.judge => m.callAt = s.callAt /\ m.key = s.key

Outcome(s, k, c, coalesce, a) ==
  \E m : Good(m) /\ Evaluated(s, m, k) /\ Follows(m, c, a) /\ Stamped(s, m, k, c, coalesce, a)

LEMMA DecideFollows ==
  ASSUME NEW s, Good(s), NEW c, NEW coalesce
  PROVE  Follows(s, c, Decide(s, c, coalesce)) /\ ~Decide(s, c, coalesce).judge
<1>1. CASE ~(IsMutation(c.tool) /\ s.armed)
  BY <1>1 DEF Decide, Follows, Answer
<1>2. CASE IsMutation(c.tool) /\ s.armed /\ (coalesce \/ Verifying(s, c.now))
  BY <1>2 DEF Decide, Follows, Answer
<1>3. CASE /\ IsMutation(c.tool) /\ s.armed /\ ~(coalesce \/ Verifying(s, c.now))
           /\ s.count + 1 >= MaxBlocks
  BY <1>3 DEF Decide, Follows, Answer
<1>4. CASE /\ IsMutation(c.tool) /\ s.armed /\ ~(coalesce \/ Verifying(s, c.now))
           /\ ~(s.count + 1 >= MaxBlocks)
  <2>1. s.count + 1 < MaxBlocks
    BY <1>4, Bounds DEF Good, Row
  <2> QED BY <1>4, <2>1 DEF Decide, Follows, Answer
<1> QED BY <1>1, <1>2, <1>3, <1>4

LEMMA JudgedSame ==
  ASSUME NEW answers, \A b \in answers : GoodAnswer(b), NEW a \in Judged(answers)
  PROVE  a.judge /\ \E b \in answers : a.row = b.row /\ a.is = b.is
<1>1. PICK b \in answers : a = [b EXCEPT !.judge = TRUE]
  BY DEF Judged
<1> QED BY <1>1 DEF GoodAnswer

LEMMA FollowsSame ==
  ASSUME NEW m, NEW c, NEW b, Follows(m, c, b), NEW a, a.row = b.row, a.is = b.is
  PROVE  Follows(m, c, a)
BY DEF Follows

\* The claim was lifted: the judge may settle it, and else watches the call.
LEMMA ProvisionalOutcome ==
  ASSUME NEW s, Good(s), s.prov, NEW k, s.key = k, NEW c, c.now \in Time, NEW coalesce,
         NEW a \in WhileProvisional(s, c, coalesce)
  PROVE  Outcome(s, k, c, coalesce, a)
<1> DEFINE j == [s EXCEPT !.callAt = c.now]
           after(r) == IF r.prov THEN Monitor(r, c) ELSE {Answer("allow", r)}
           answers == Failing(j) \cup UNION {after(r) : r \in Release(j)}
<1>1. CASE coalesce
  <2>1. a = Answer("allow", s)
    BY <1>1 DEF WhileProvisional
  <2>2. Evaluated(s, s, k) /\ Follows(s, c, a) /\ Stamped(s, s, k, c, coalesce, a)
    BY <2>1 DEF Evaluated, Quiet, Follows, Stamped, Answer, Good, Row, Consistent
  <2> QED BY <2>2 DEF Outcome
<1>2. CASE ~coalesce
  <2>1. Good(j) /\ j.verifyAt = 0 /\ j.claim # NoClaim /\ Quiet(s, j) /\ j.callAt = c.now /\ j.key = k
    BY StampGood DEF Good, Row, Consistent, Quiet
  <2> HIDE DEF j
  <2>2. ASSUME NEW r, Good(r), r.callAt = c.now, Evaluated(s, r, k), r.key = k, NEW b,
               Follows(r, c, b), a.judge, a.row = b.row, a.is = b.is
        PROVE  Outcome(s, k, c, coalesce, a)
    BY <1>2, <2>2, FollowsSame DEF Outcome, Stamped
  <2>3. ASSUME NEW b \in Failing(j)
        PROVE  GoodAnswer(b) /\ Follows(j, c, b)
    BY <2>1, <2>3, FailingGood DEF Failing, Answer, Follows
  <2>4. ASSUME NEW r \in Release(j)
        PROVE  /\ Good(r) /\ r.callAt = c.now /\ Evaluated(s, r, k) /\ r.key = k
               /\ \A b \in after(r) : GoodAnswer(b) /\ Follows(r, c, b)
    <3>1. Good(r) /\ (Quiet(j, r) \/ Settled(j, r) \/ Lifted(j, r)) /\ r.callAt = c.now
      BY <2>1, ReleaseGood, ReleaseSteps
    <3>2. ~Lifted(j, r)
      BY <2>1 DEF Lifted, Quiet, Good, Row, Consistent
    <3>3. Evaluated(s, r, k) /\ r.key = k
      <4>1. CASE Quiet(j, r)
        BY <2>1, <4>1 DEF Quiet, Evaluated
      <4>2. CASE Settled(j, r)
        BY <2>1, <4>2, QuietSettled DEF Evaluated, Settled
      <4> QED BY <3>1, <3>2, <4>1, <4>2
    <3>4. ASSUME NEW b \in after(r)
          PROVE  GoodAnswer(b) /\ Follows(r, c, b)
      <4>1. CASE r.prov
        <5>1. b \in Monitor(r, c) /\ GoodAnswer(b)
          BY <3>1, <3>4, <4>1, MonitorGood
        <5>2. ~r.armed
          BY <3>1, <4>1 DEF Good, Row, Consistent
        <5>3. b \in {Answer("allow", r)} \/ b \in Failing(r)
              \/ (IsMutation(c.tool) /\ b = Answer("reinstate", Reinstate(r)))
          BY <5>1 DEF Monitor
        <5> QED BY <4>1, <5>1, <5>2, <5>3 DEF Failing, Answer, Follows
      <4>2. CASE ~r.prov
        <5>1. b = Answer("allow", r) /\ GoodAnswer(b)
          BY <3>1, <3>4, <4>2, AnswerGood DEF Replies
        <5>2. ~r.armed
          BY <2>1, <3>1, <3>2, <4>2 DEF Quiet, Settled, Good, Row, Consistent
        <5> QED BY <5>1, <5>2 DEF Answer, Follows
      <4> QED BY <4>1, <4>2
    <3> QED BY <3>1, <3>3, <3>4
  <2>5. a \in Judged(answers)
    BY <1>2 DEF WhileProvisional, j
  <2> HIDE DEF after
  <2>6. \A b \in answers : GoodAnswer(b)
    BY <2>3, <2>4
  <2> HIDE DEF answers
  <2>7. a.judge
    BY <2>5, <2>6, JudgedSame
  <2>8. PICK b \in answers : a.row = b.row /\ a.is = b.is
    BY <2>5, <2>6, JudgedSame
  <2> USE DEF answers
  <2>9. CASE b \in Failing(j)
    <3>1. Evaluated(s, j, k) /\ j.key = k /\ Good(j) /\ j.callAt = c.now
      BY <2>1 DEF Evaluated, Quiet
    <3> QED BY <2>2, <2>3, <2>7, <2>8, <2>9, <3>1
  <2>10. CASE b \in UNION {after(r) : r \in Release(j)}
    <3>1. PICK r \in Release(j) : b \in after(r)
      BY <2>10
    <3> QED BY <2>2, <2>4, <2>7, <2>8, <3>1
  <2> QED BY <2>8, <2>9, <2>10
<1> QED BY <1>1, <1>2

\* A judge's answer on the row m, made of one of the answers of Decide.
LEMMA DecidedOutcome ==
  ASSUME NEW s, NEW k, NEW c, NEW coalesce, NEW m, Good(m), Evaluated(s, m, k), NEW co,
         NEW a, a.row = Decide(m, c, co).row, a.is = Decide(m, c, co).is,
         Stamped(s, m, k, c, coalesce, a)
  PROVE  Outcome(s, k, c, coalesce, a)
BY DecideFollows, FollowsSame DEF Outcome

\* A claim is armed: a verification or the judge may settle it, and else the call
\* is counted, unless it coalesces.
LEMMA ArmedOutcome ==
  ASSUME NEW s, Good(s), s.armed, NEW k, s.key = k, NEW c, c.now \in Time, NEW coalesce,
         NEW a \in WhileArmed(s, c, coalesce)
  PROVE  Outcome(s, k, c, coalesce, a)
<1> DEFINE j == [s EXCEPT !.callAt = c.now]
           answers == Failing(j) \cup {Decide(r, c, coalesce) : r \in Release(j)}
<1>1. CASE a \in {Decide(r, c, coalesce) : r \in Poll(s)}
  <2>1. PICK r \in Poll(s) : a = Decide(r, c, coalesce)
    BY <1>1
  <2>2. Good(r) /\ Evaluated(s, r, k) /\ r.callAt = s.callAt /\ r.key = s.key
    <3>1. Good(r)
      BY PollGood
    <3>2. (Quiet(s, r) \/ Settled(s, r)) /\ r.callAt = s.callAt
      BY PollSteps
    <3>3. r.key = s.key
      BY <3>2 DEF Quiet, Settled
    <3> QED BY <3>1, <3>2, <3>3 DEF Evaluated
  <2>3. ~a.judge
    BY <2>1, <2>2, DecideFollows
  <2>4. Stamped(s, r, k, c, coalesce, a)
    BY <2>2, <2>3 DEF Stamped
  <2> QED BY <2>1, <2>2, <2>4, DecidedOutcome
<1>2. CASE a = Decide(s, c, coalesce)
  <2>1. Evaluated(s, s, k) /\ ~a.judge
    BY <1>2, DecideFollows DEF Evaluated, Quiet
  <2>2. Stamped(s, s, k, c, coalesce, a)
    BY <2>1 DEF Stamped
  <2> QED BY <1>2, <2>1, <2>2, DecidedOutcome
<1>3. CASE s.verifyAt = 0 /\ s.claim # NoClaim /\ ~coalesce /\ a \in Judged(answers)
  <2>1. Good(j) /\ j.verifyAt = 0 /\ j.claim # NoClaim /\ Quiet(s, j) /\ j.callAt = c.now /\ j.key = k
    BY <1>3, StampGood DEF Good, Row, Quiet
  <2> HIDE DEF j
  <2>2. ASSUME NEW r \in Release(j)
        PROVE  Good(r) /\ Evaluated(s, r, k) /\ r.callAt = c.now /\ r.key = k
    <3>1. Good(r) /\ (Quiet(j, r) \/ Settled(j, r) \/ Lifted(j, r)) /\ r.callAt = c.now
      BY <2>1, ReleaseGood, ReleaseSteps
    <3>2. CASE Quiet(j, r) \/ Lifted(j, r)
      BY <2>1, <3>1, <3>2 DEF Quiet, Lifted, Evaluated
    <3>3. CASE Settled(j, r)
      BY <2>1, <3>1, <3>3, QuietSettled DEF Evaluated, Settled
    <3> QED BY <3>1, <3>2, <3>3
  <2>3. \A b \in answers : GoodAnswer(b)
    BY <2>1, <2>2, FailingGood, DecideGood
  <2> HIDE DEF answers
  <2>4. a.judge
    BY <1>3, <2>3, JudgedSame
  <2>5. PICK b \in answers : a.row = b.row /\ a.is = b.is
    BY <1>3, <2>3, JudgedSame
  <2> USE DEF answers
  <2>6. CASE b \in Failing(j)
    <3>1. Evaluated(s, j, k) /\ Stamped(s, j, k, c, coalesce, a)
      BY <1>3, <2>1, <2>4 DEF Evaluated, Stamped
    <3>2. Follows(j, c, a)
      BY <2>5, <2>6 DEF Failing, Answer, Follows
    <3> QED BY <2>1, <3>1, <3>2 DEF Outcome
  <2>7. CASE b \in {Decide(r, c, coalesce) : r \in Release(j)}
    <3>1. PICK r \in Release(j) : b = Decide(r, c, coalesce)
      BY <2>7
    <3>2. Stamped(s, r, k, c, coalesce, a)
      BY <1>3, <2>2, <2>4 DEF Stamped
    <3> QED BY <2>2, <2>5, <3>1, <3>2, DecidedOutcome
  <2> QED BY <2>5, <2>6, <2>7
<1> QED BY <1>1, <1>2, <1>3 DEF WhileArmed

\* Nothing is flagged: the judge may flag a claim, or bind the prompt to a scope.
LEMMA DisarmedOutcome ==
  ASSUME NEW s, Good(s), ~s.armed, ~s.prov, NEW k \in Prompts, NEW c, c.now \in Time,
         NEW coalesce, NEW a \in WhileDisarmed(s, k, c, coalesce)
  PROVE  Outcome(s, k, c, coalesce, a)
<1> DEFINE j == [s EXCEPT !.callAt = c.now]
           rows == FlagClaim(j, k, c) \cup Direct(j, k, c)
           answers == Failing(j) \cup {Decide(r, c, FALSE) : r \in rows}
<1>1. CASE a = Answer("allow", s)
  <2>1. Evaluated(s, s, k) /\ Follows(s, c, a) /\ Stamped(s, s, k, c, coalesce, a)
    BY <1>1 DEF Evaluated, Quiet, Follows, Stamped, Answer
  <2> QED BY <2>1 DEF Outcome
<1>2. CASE ~coalesce /\ a \in Judged(answers)
  <2>1. Good(j) /\ Quiet(s, j) /\ j.callAt = c.now /\ ~j.armed /\ ~j.prov
    BY StampGood DEF Good, Row, Quiet
  <2> HIDE DEF j
  <2>2. ASSUME NEW r \in rows
        PROVE  Good(r) /\ Evaluated(s, r, k) /\ r.callAt = c.now /\ r.key = k
    <3>1. CASE r \in FlagClaim(j, k, c)
      <4>1. Good(r) /\ Flagged(j, r, k) /\ r.callAt = c.now
        BY <2>1, <3>1, FlagClaimGood, FlagSteps
      <4> QED BY <2>1, <4>1 DEF Quiet, Flagged, Suppressed, Evaluated
    <3>2. CASE r \in Direct(j, k, c)
      <4>1. PICK sc \in {0, k} :
               r = [Disarm(j) EXCEPT !.key = k, !.judgedAt = c.now, !.scope = sc]
        BY <3>2 DEF Direct
      <4>2. Good(r)
        BY <2>1, <4>1, DirectGood
      <4>3. Directed(j, r, k) /\ r.callAt = j.callAt
        BY <2>1, <3>2, DirectSteps
      <4>4. r.key = k /\ Directed(s, r, k)
        BY <2>1, <4>3 DEF Quiet, Directed
      <4> QED BY <2>1, <4>2, <4>3, <4>4 DEF Evaluated
    <3> QED BY <3>1, <3>2, <2>2
  <2> HIDE DEF rows
  <2>3. \A b \in answers : GoodAnswer(b)
    BY <2>1, <2>2, FailingGood, DecideGood
  <2> HIDE DEF answers
  <2>4. a.judge
    BY <1>2, <2>3, JudgedSame
  <2>5. PICK b \in answers : a.row = b.row /\ a.is = b.is
    BY <1>2, <2>3, JudgedSame
  <2> USE DEF answers
  <2>6. CASE b \in Failing(j)
    <3>1. Evaluated(s, j, k) /\ Stamped(s, j, k, c, coalesce, a)
      BY <1>2, <2>1, <2>4, <2>6 DEF Evaluated, Stamped, Failing
    <3>2. Follows(j, c, a)
      BY <2>5, <2>6 DEF Failing, Answer, Follows
    <3> QED BY <2>1, <3>1, <3>2 DEF Outcome
  <2>7. CASE b \in {Decide(r, c, FALSE) : r \in rows}
    <3>1. PICK r \in rows : b = Decide(r, c, FALSE)
      BY <2>7
    <3>2. Stamped(s, r, k, c, coalesce, a)
      BY <1>2, <2>2, <2>4 DEF Stamped
    <3> QED BY <2>2, <2>5, <3>1, <3>2, DecidedOutcome
  <2> QED BY <2>5, <2>6, <2>7
<1> QED BY <1>1, <1>2 DEF WhileDisarmed

\* What DropStale leaves is the row itself, or nothing flagged and no scope of
\* another prompt.
LEMMA DropStaleLeaves ==
  ASSUME NEW s, Good(s), NEW k \in Prompts
  PROVE  LET t == DropStale(s, k) IN
         /\ t.key = s.key /\ t.callAt = s.callAt /\ t.adj = s.adj /\ t.scope \in {0, k}
         /\ \/ t.armed = s.armed /\ t.prov = s.prov /\ t.claim = s.claim /\ t.count = s.count
            \/ (s.armed \/ s.prov) /\ s.key # k /\ ~t.armed /\ ~t.prov /\ t.claim = NoClaim
         /\ t.armed \/ t.prov => t = s /\ s.key = k
BY Bounds DEF Good, Row, Consistent, DropStale, Disarm, ClearDirector

LEMMA PreToolOutcome ==
  ASSUME NEW s, Good(s), NEW k \in Prompts, NEW c, c.now \in Time, NEW a \in PreTool(s, k, c)
  PROVE  Outcome(DropStale(s, k), k, c, ShouldCoalesce(s, k, c.now), a)
<1> DEFINE t == DropStale(s, k)
           co == ShouldCoalesce(s, k, c.now)
<1>1. Good(t) /\ (t.armed \/ t.prov => t.key = k)
  BY DropStaleGood, DropStaleLeaves
<1>2. t.prov \in BOOLEAN /\ t.armed \in BOOLEAN
  BY <1>1 DEF Good, Row
<1> HIDE DEF t, co
<1>3. CASE t.prov /\ a \in WhileProvisional(t, c, co)
  BY <1>1, <1>3, ProvisionalOutcome DEF t, co
<1>4. CASE ~t.prov /\ t.armed /\ a \in WhileArmed(t, c, co)
  BY <1>1, <1>4, ArmedOutcome DEF t, co
<1>5. CASE ~t.prov /\ ~t.armed /\ a \in WhileDisarmed(t, k, c, co)
  BY <1>1, <1>5, DisarmedOutcome DEF t, co
<1> QED BY <1>2, <1>3, <1>4, <1>5 DEF PreTool, t, co

\* A release outside of a call changes the row in the same ways.
LEMMA PostToolReleaseSteps ==
  ASSUME NEW s, Good(s), NEW tool, NEW r \in PostToolRelease(s, tool)
  PROVE  (Quiet(s, r) \/ Settled(s, r) \/ Lifted(s, r)) /\ r.callAt = s.callAt
<1> DEFINE polled == IF s.verifyAt = 0 THEN {s} ELSE Poll(s)
           final  == {x \in polled : s.verifyAt # 0 /\ (~x.armed \/ x.verifyAt # 0)}
           next(x) == IF tool /\ x.claim # NoClaim THEN Release(x) ELSE {x}
<1>1. ASSUME NEW x \in polled
      PROVE  Good(x) /\ (Quiet(s, x) \/ Settled(s, x)) /\ x.callAt = s.callAt
  BY PollGood, PollSteps DEF Quiet
<1>2. CASE r \in final
  BY <1>1, <1>2
<1>3. CASE r \in UNION {next(x) : x \in polled \ final}
  <2>1. PICK x \in polled \ final : r \in next(x)
    BY <1>3
  <2>2. Good(x) /\ x.verifyAt = 0 /\ (Quiet(s, x) \/ Settled(s, x)) /\ x.callAt = s.callAt
    BY <2>1, <1>1 DEF Good, Row
  <2>3. CASE r = x
    BY <2>2, <2>3
  <2>4. CASE x.claim # NoClaim /\ r \in Release(x)
    <3>1. Quiet(s, x)
      BY <2>2, <2>4 DEF Settled
    <3>2. (Quiet(x, r) \/ Settled(x, r) \/ Lifted(x, r)) /\ r.callAt = x.callAt
      BY <2>2, <2>4, ReleaseSteps
    <3>3. CASE Quiet(x, r) \/ Lifted(x, r)
      BY <2>2, <3>1, <3>2, <3>3 DEF Quiet, Lifted
    <3>4. CASE Settled(x, r)
      BY <2>2, <3>1, <3>2, <3>4, QuietSettled
    <3> QED BY <3>2, <3>3, <3>4
  <2> QED BY <2>1, <2>3, <2>4
<1> QED BY <1>2, <1>3 DEF PostToolRelease

(***************************************************************************)
(* The scope that the unlocked re-read of the row finds.                   *)
(***************************************************************************)
LEMMA PreToolScope ==
  ASSUME NEW s, Good(s), NEW k \in Prompts, NEW c, c.now \in Time, NEW a \in PreTool(s, k, c)
  PROVE  a.row.scope \in {0, k}
<1> DEFINE t == DropStale(s, k)
<1>1. t.scope \in {0, k}
  BY DropStaleLeaves
<1>2. PICK m : Good(m) /\ Evaluated(t, m, k) /\ Follows(m, c, a)
  BY PreToolOutcome DEF Outcome
<1> HIDE DEF t
<1>3. m.scope \in {0, k}
  BY <1>1, <1>2 DEF Evaluated, Quiet, Settled, Lifted, Flagged, Directed
<1>4. a.row = m \/ a.row = Adjudicate(m) \/ a.row = [m EXCEPT !.count = @ + 1] \/ a.row = Reinstate(m)
  BY <1>2 DEF Follows
<1>5. Adjudicate(m).scope \in {0, m.scope}
  BY <1>2, AdjudicateSettles DEF Settled
<1> QED BY <1>2, <1>3, <1>4, <1>5 DEF Reinstate, Good, Row

\* A worker or a Stop hook saves only what it made of a claim, and a claim
\* excludes a scope.
LEMMA PostToolReleaseScope ==
  ASSUME NEW s, Good(s), s.armed \/ s.prov, NEW tool, NEW r \in PostToolRelease(s, tool)
  PROVE  r.scope = 0
BY PostToolReleaseSteps DEF Good, Consistent, Quiet, Settled, Lifted

LEMMA PollScope ==
  ASSUME NEW s, Good(s), s.verifyAt # 0, NEW r \in Poll(s)
  PROVE  r.scope = 0
<1>1. s.scope = 0
  BY DEF Good, Row, Consistent
<1> QED BY <1>1, PollSteps DEF Quiet, Settled

LEMMA LiftOutcomesScope ==
  ASSUME NEW s, Good(s), NEW a, NEW r \in LiftOutcomes(s, a)
  PROVE  r.scope = s.scope
BY DEF LiftOutcomes, Covered, Good, Row

\* From its save to its end a hook finds no scope of another prompt, in the row or
\* in what it loaded for a lift.
ScopeInv ==
  /\ pc \in [Procs -> Locations]
  /\ \A h \in Hooks :
       /\ pc[h] \in {"scope", "gate", "lift"} => row.scope \in {0, prompt}
       /\ pc[h] = "lift" => mem[h].scope \in {0, prompt}

\* A step that brings no hook to its re-read, and leaves the scope or clears it.
LEMMA ScopeKept ==
  ASSUME ScopeInv, NEW p \in Procs, NEW l \in Locations, l \notin {"scope", "gate", "lift"},
         pc' = [pc EXCEPT ![p] = l], NEW s, mem' = [mem EXCEPT ![p] = s], mem \in [Procs -> Row],
         row'.scope \in {0, row.scope, prompt}, UNCHANGED prompt
  PROVE  ScopeInv'
BY DEF ScopeInv, Procs

LEMMA ScopeInvNext ==
  ASSUME RowInv, ScopeInv, [Next]_vars
  PROVE  ScopeInv'
<1> USE DEF Procs
<1>0. /\ prompt \in Prompts /\ call \in [Hooks -> Call] /\ mem \in [Procs -> Row]
      /\ \A q \in Procs : Good(mem[q])
  BY DEF RowInv
<1>1. CASE UNCHANGED <<prompt, row, pc, mem>>
  BY <1>1 DEF ScopeInv
<1>2. CASE NewPrompt
  BY <1>2 DEF NewPrompt, ScopeInv
<1>3. ASSUME NEW p \in Procs, Waiting(p), Load(p)
      PROVE  ScopeInv'
  <2>1. PICK l \in {"held", "heldVerify"} : pc' = [pc EXCEPT ![p] = l]
    BY <1>3 DEF Load, Held
  <2> QED BY <1>0, <1>3, <2>1, ScopeKept DEF Load, Locations
<1>4. ASSUME NEW p \in Procs, Crash(p)
      PROVE  ScopeInv'
  BY <1>0, <1>4, ScopeKept DEF Crash, Locations
<1>5. ASSUME NEW h \in Hooks, HookStart(h)
      PROVE  ScopeInv'
  BY <1>5 DEF HookStart, ScopeInv, Locations
<1>6. ASSUME NEW h \in Hooks, HookSave(h)
      PROVE  ScopeInv'
  <2>1. PICK a \in PreTool(mem[h], prompt, call[h]) : Save(h, a.row)
    BY <1>6 DEF HookSave
  <2>2. row'.scope \in {0, prompt} /\ mem' = [mem EXCEPT ![h] = DefaultRow]
    BY <1>0, <2>1, PreToolScope DEF Call, Save
  <2>3. PICK l \in {"idle", "scope"} : pc' = [pc EXCEPT ![h] = l]
    BY <1>6 DEF HookSave
  <2> QED BY <1>0, <1>6, <2>2, <2>3 DEF HookSave, ScopeInv, Locations
<1>7. ASSUME NEW h \in Hooks, ScopeBlock(h) \/ ScopePass(h)
      PROVE  ScopeInv'
  <2>1. PICK l \in {"idle", "gate"} : pc' = [pc EXCEPT ![h] = l]
    BY <1>7 DEF ScopeBlock, ScopePass, Finish
  <2> QED BY <1>7, <2>1 DEF ScopeBlock, ScopePass, ScopeInv, Locations
<1>8. ASSUME NEW h \in Hooks, LiftLoad(h)
      PROVE  ScopeInv'
  BY <1>0, <1>8 DEF LiftLoad, ScopeInv, Locations
<1>9. ASSUME NEW h \in Hooks, LiftSave(h)
      PROVE  ScopeInv'
  <2>1. row'.scope = mem[h].scope
    BY <1>0, <1>9, LiftOutcomesScope DEF LiftSave
  <2>2. row'.scope \in {0, prompt}
    BY <1>9, <2>1 DEF LiftSave, ScopeInv
  <2> QED BY <1>0, <1>9, <2>2, ScopeKept DEF LiftSave, Finish, Locations
<1>10. ASSUME NEW h \in Hooks, LiftExhausted(h)
       PROVE  ScopeInv'
  BY <1>0, <1>10, ScopeKept DEF LiftExhausted, Finish, Locations
<1>11. ASSUME NEW w \in Workers, WorkerSave(w)
       PROVE  ScopeInv'
  <2>1. PICK s \in PostToolRelease(mem[w], TRUE) : Save(w, s)
    BY <1>11 DEF WorkerSave
  <2>2. row'.scope = 0
    BY <1>0, <1>11, <2>1, PostToolReleaseScope DEF WorkerSave, Save
  <2> QED BY <1>0, <1>11, <2>1, <2>2, ScopeKept DEF WorkerSave, Save, Locations
<1>12. ASSUME NEW p \in Workers \cup Stops, WorkerStart(p) \/ WorkerQuit(p) \/ StopStart(p) \/ StopSkip(p)
       PROVE  ScopeInv'
  <2>1. PICK l \in {"idle", "wait", "waitVerify"} : pc' = [pc EXCEPT ![p] = l]
    BY <1>12 DEF WorkerStart, WorkerQuit, StopStart, StopSkip, StopNext
  <2>2. \A h \in Hooks : h # p
    BY BreakerNames DEF BreakerNames
  <2> QED BY <1>0, <1>12, <2>1, <2>2 DEF WorkerStart, WorkerQuit, StopStart, StopSkip, ScopeInv, Locations
<1>13. ASSUME NEW z \in Stops, StopSave(z)
       PROVE  ScopeInv'
  <2>1. PICK s \in (IF pc[z] = "held" THEN PostToolRelease(mem[z], FALSE) ELSE Poll(mem[z])) : Save(z, s)
    BY <1>13 DEF StopSave
  <2>2. IF pc[z] = "held" THEN mem[z].armed \/ mem[z].prov ELSE mem[z].verifyAt # 0
    BY <1>13 DEF StopSave, StopSkips
  <2>3. row'.scope = 0
    BY <1>0, <2>1, <2>2, PostToolReleaseScope, PollScope DEF Save
  <2>4. PICK l \in {"idle", "waitVerify"} : pc' = [pc EXCEPT ![z] = l]
    BY <1>13 DEF StopSave, StopNext
  <2> QED BY <1>0, <1>13, <2>1, <2>3, <2>4, ScopeKept DEF StopSave, Save, Locations
<1>14. CASE Tick \/ UNCHANGED vars
  BY <1>1, <1>14 DEF Tick, vars
<1> QED
  BY <1>2, <1>3, <1>4, <1>5, <1>6, <1>7, <1>8, <1>9, <1>10, <1>11, <1>12, <1>13, <1>14
     DEF Next, Acquire, Expire

\* Whatever is saved between a hook's unlock and its re-read of the row, and even
\* by processes that took no lock, the scope it is refused by is one that was
\* written for its own prompt.
THEOREM ScopeAlwaysOwnPrompt == Spec => []ScopeOwnPrompt
<1>1. Init => ScopeInv
  BY DEF Init, ScopeInv, Locations, Procs
<1>2. RowInv /\ ScopeInv /\ [Next]_vars => RowInv' /\ ScopeInv'
  BY RowInvNext, ScopeInvNext
<1>3. ScopeInv => ScopeOwnPrompt
  BY DEF ScopeInv, ScopeOwnPrompt
<1> QED BY <1>1, <1>2, <1>3, RowInvInit, PTL DEF Spec

(***************************************************************************)
(* What holds of serialized processes: each save is an evaluation of the   *)
(* stored row.                                                             *)
(***************************************************************************)
\* A worker or a Stop hook made r of the row.
ReleasesTo(r) ==
  \/ (row.armed \/ row.prov) /\ \E tool \in BOOLEAN : r \in PostToolRelease(row, tool)
  \/ row.verifyAt # 0 /\ r \in Poll(row)

Rests == UNCHANGED <<row, blocks, charged, resolved>>
Released ==
  /\ ReleasesTo(row')
  /\ charged' = IF ~row'.armed THEN 0 ELSE charged
  /\ resolved' = resolved \cup Recorded(row, row')
  /\ UNCHANGED <<clock, prompt, call, blocks, judged>>

LEMMA SavesRelease ==
  ASSUME LockInv, NEW p \in Workers \cup Stops, WorkerSave(p) \/ StopSave(p)
  PROVE  Released /\ \E l \in {"idle", "waitVerify"} : pc' = [pc EXCEPT ![p] = l]
<1> USE DEF Procs
<1>1. mem[p] = row
  BY DEF WorkerSave, StopSave, LockInv, Inside
<1>2. CASE WorkerSave(p)
  BY <1>1, <1>2 DEF WorkerSave, Save, Released, ReleasesTo, ReleaseCharge
<1>3. CASE StopSave(p)
  <2>1. PICK s \in (IF pc[p] = "held" THEN PostToolRelease(row, FALSE) ELSE Poll(row)) :
          Save(p, s) /\ ReleaseCharge(p, s)
    BY <1>1, <1>3 DEF StopSave
  <2>2. ReleasesTo(s)
    BY <1>1, <1>3, <2>1 DEF StopSave, StopSkips, ReleasesTo
  <2> QED BY <1>1, <1>3, <2>1, <2>2 DEF StopSave, StopNext, Save, Released, ReleaseCharge
<1> QED BY <1>2, <1>3

LEMMA SerialSteps ==
  ASSUME Expirers = {}, ~GateLifts, LockInv, [Next]_vars
  PROVE  \/ Rests /\ (UNCHANGED <<prompt, judged>> \/ NewPrompt)
         \/ \E h \in Hooks : HookSave(h) /\ mem[h] = row
         \/ Released /\ \E p \in Workers \cup Stops, l \in {"idle", "waitVerify"} :
                          pc' = [pc EXCEPT ![p] = l]
<1> USE DEF Procs
<1>1. CASE Tick \/ NewPrompt \/ UNCHANGED vars
  BY <1>1 DEF Tick, NewPrompt, vars, Rests, history
<1>2. ASSUME NEW p \in Procs, Acquire(p) \/ Expire(p) \/ Crash(p)
      PROVE  Rests /\ UNCHANGED <<prompt, judged>>
  BY <1>2 DEF Acquire, Expire, Crash, Load, Rests, history
<1>3. ASSUME NEW h \in Hooks, HookStart(h) \/ ScopeBlock(h) \/ ScopePass(h) \/ LiftLoad(h) \/ LiftExhausted(h)
      PROVE  Rests /\ UNCHANGED <<prompt, judged>>
  BY <1>3 DEF HookStart, ScopeBlock, ScopePass, LiftLoad, LiftExhausted, Rests, history
<1>4. ASSUME NEW h \in Hooks, HookSave(h)
      PROVE  mem[h] = row
  BY <1>4 DEF HookSave, LockInv, Inside
<1>5. ASSUME NEW h \in Hooks, LiftSave(h)
      PROVE  FALSE
  BY <1>5 DEF LiftSave, LockInv
<1>6. ASSUME NEW p \in Workers \cup Stops, WorkerStart(p) \/ WorkerQuit(p) \/ StopStart(p) \/ StopSkip(p)
      PROVE  Rests /\ UNCHANGED <<prompt, judged>>
  BY <1>6 DEF WorkerStart, WorkerQuit, StopStart, StopSkip, Rests, history
<1>7. ASSUME NEW p \in Workers \cup Stops, WorkerSave(p) \/ StopSave(p)
      PROVE  Released /\ \E l \in {"idle", "waitVerify"} : pc' = [pc EXCEPT ![p] = l]
  BY <1>7, SavesRelease
<1> QED BY <1>1, <1>2, <1>3, <1>4, <1>5, <1>6, <1>7 DEF Next

LEMMA ReleasesToSteps ==
  ASSUME RowInv, NEW r, ReleasesTo(r)
  PROVE  (Quiet(row, r) \/ Settled(row, r) \/ Lifted(row, r)) /\ r.callAt = row.callAt
BY PostToolReleaseSteps, PollSteps DEF ReleasesTo, RowInv

\* An armed claim of this prompt leaves the arm on two ways only.
LEMMA PreToolDisarms ==
  ASSUME NEW s, Good(s), s.armed, s.claim # NoClaim, s.key \in Prompts,
         NEW c, c.now \in Time, NEW a \in PreTool(s, s.key, c), ~a.row.armed
  PROVE  a.row.prov \/ s.claim \in ToSet(a.row.adj)
<1>1. DropStale(s, s.key) = s
  BY DEF DropStale, Good, Row, Consistent
<1>2. PICK m : Good(m) /\ Evaluated(s, m, s.key) /\ Follows(m, c, a)
  BY <1>1, PreToolOutcome DEF Outcome
<1>3. CASE Quiet(s, m)
  <2>1. a.row = Adjudicate(m)
    BY <1>2, <1>3 DEF Quiet, Follows, Good, Row, Consistent
  <2>2. a.row.adj = RecordAdjudicated(m).adj
    BY <1>2, <2>1, AdjudicateSettles DEF Settled
  <2> QED BY <1>2, <1>3, <2>2, RecordKeepsClaim DEF Quiet
<1>4. CASE Settled(s, m)
  <2>1. a.row = m
    BY <1>2, <1>4 DEF Settled, Follows
  <2> QED BY <1>4, <2>1, RecordKeepsClaim DEF Settled
<1>5. CASE Lifted(s, m)
  <2>1. a.row = m \/ a.row = Reinstate(m)
    BY <1>2, <1>5 DEF Lifted, Follows
  <2>2. Reinstate(m).armed
    BY <1>2 DEF Reinstate, Good, Row
  <2> QED BY <1>5, <2>1, <2>2 DEF Lifted
<1> QED BY <1>2, <1>3, <1>4, <1>5 DEF Evaluated, Flagged, Directed

LEMMA NoSilentDisarmStep ==
  ASSUME Expirers = {}, ~GateLifts, RowInv, LockInv, [Next]_vars,
         row.armed, ~row'.armed, row.key = prompt, row.claim # NoClaim
  PROVE  row'.prov \/ row.claim \in ToSet(row'.adj)
<1>0. Good(row) /\ prompt \in Prompts
  BY DEF RowInv
<1>1. ~Rests
  BY DEF Rests
<1>2. ASSUME NEW h \in Hooks, HookSave(h), mem[h] = row
      PROVE  row'.prov \/ row.claim \in ToSet(row'.adj)
  <2>1. PICK a \in PreTool(row, prompt, call[h]) : row' = a.row
    BY <1>2 DEF HookSave, Save
  <2>2. call[h].now \in Time
    BY DEF RowInv, Call
  <2> QED BY <1>0, <2>1, <2>2, PreToolDisarms
<1>3. ASSUME ReleasesTo(row')
      PROVE  row'.prov \/ row.claim \in ToSet(row'.adj)
  <2>1. Quiet(row, row') \/ Settled(row, row') \/ Lifted(row, row')
    BY <1>3, ReleasesToSteps
  <2> QED BY <1>0, <2>1, RecordKeepsClaim DEF Quiet, Settled, Lifted
<1> QED BY <1>1, <1>2, <1>3, SerialSteps DEF Released

\* With serialized processes no arm of the present prompt is lost: it is settled,
\* and its claim recorded, or it is lifted for verification.
THEOREM ArmNeverSilentlyLost ==
  ASSUME Expirers = {}, ~GateLifts
  PROVE  Spec => NoSilentDisarm
<1>1. Init => LockInv
  BY DefaultGood DEF Init, LockInv, Inside, Locations, Good
<1>2. RowInv /\ LockInv /\ [Next]_vars => RowInv' /\ LockInv'
  BY RowInvNext, LockInvNext
<1>3. RowInv /\ LockInv /\ [Next]_vars
        => [row.armed /\ ~row'.armed /\ row.key = prompt /\ row.claim # NoClaim
              => row'.prov \/ row.claim \in ToSet(row'.adj)]_vars
  BY NoSilentDisarmStep
<1> QED BY <1>1, <1>2, <1>3, RowInvInit, PTL DEF Spec, NoSilentDisarm

(***************************************************************************)
(* The block budget.  The history counts the refusals charged to the       *)
(* present arm, whichever hook was refused; serialized, it is the count in *)
(* the row.                                                                *)
(***************************************************************************)
BudgetInv ==
  /\ blocks \in Nat /\ charged \in Nat
  /\ row.armed => charged = row.count

\* The count of the row after an answer: what it was, or anew from an arm.
LEMMA PreToolCounts ==
  ASSUME NEW s, Good(s), NEW k \in Prompts, NEW c, c.now \in Time,
         NEW a \in PreTool(s, k, c), a.row.armed
  PROVE  LET base == IF DropStale(s, k).armed THEN s.count ELSE 0 IN
         /\ a.is = "reinstate" => a.row.count = 0 /\ IsMutation(c.tool)
         /\ a.is # "reinstate" =>
              /\ a.row.count = base + (IF a.is = "block" THEN 1 ELSE 0)
              /\ a.is = "block" => IsMutation(c.tool) /\ a.row.count < MaxBlocks
              /\ a.is \in {"allow", "hold", "block"}
              /\ a.is = "hold" => IsMutation(c.tool)
              /\ a.is = "allow" /\ IsMutation(c.tool) => JudgeErrors
<1> DEFINE t == DropStale(s, k)
           base == IF t.armed THEN s.count ELSE 0
<1>1. PICK m : Good(m) /\ Evaluated(t, m, k) /\ Follows(m, c, a)
  BY PreToolOutcome DEF Outcome
<1>2. t.armed => t = s
  BY DropStaleLeaves
<1>3. a.is # "failopen"
  BY <1>1, AdjudicateGood DEF Follows
<1> HIDE DEF t
<1>4. CASE a.is = "reinstate"
  BY <1>1, <1>4 DEF Follows, Reinstate, Good, Row
<1>5. CASE a.is # "reinstate"
  <2>1. /\ a.is \in {"allow", "hold", "block"} /\ m.armed
        /\ a.row.count = m.count + (IF a.is = "block" THEN 1 ELSE 0)
    BY <1>1, <1>3, <1>5 DEF Follows, Good, Row
  <2>2. m.count = base
    BY <1>1, <1>2, <2>1 DEF Evaluated, Quiet, Settled, Lifted, Flagged, Directed
  <2>3. a.is = "block" => a.row.count < MaxBlocks
    BY <1>1, <2>1 DEF Follows, Good, Row
  <2> HIDE DEF base
  <2>4. /\ a.is = "block" => IsMutation(c.tool)
        /\ a.is = "hold" => IsMutation(c.tool)
        /\ a.is = "allow" /\ IsMutation(c.tool) => JudgeErrors
    BY <1>1, <2>1 DEF Follows
  <2> QED BY <1>5, <2>1, <2>2, <2>3, <2>4 DEF base, t
<1> QED BY <1>4, <1>5 DEF base, t

LEMMA BudgetInvNext ==
  ASSUME Expirers = {}, ~GateLifts, RowInv, LockInv, BudgetInv, [Next]_vars
  PROVE  BudgetInv'
<1>0. Good(row) /\ prompt \in Prompts /\ row.count \in Nat
  BY DEF RowInv, Good, Row
<1>1. CASE Rests
  BY <1>1 DEF Rests, BudgetInv
<1>2. CASE Released
  <2>1. Quiet(row, row') \/ Settled(row, row') \/ Lifted(row, row')
    BY <1>2, ReleasesToSteps DEF Released
  <2> QED BY <1>2, <2>1 DEF Released, BudgetInv, Quiet, Settled, Lifted
<1>3. ASSUME NEW h \in Hooks, HookSave(h), mem[h] = row
      PROVE  BudgetInv'
  <2>1. PICK a \in PreTool(row, prompt, call[h]) : row' = a.row /\ CountBlocks(h, a)
    BY <1>3 DEF HookSave, Save
  <2>2. call[h].now \in Time
    BY DEF RowInv, Call
  <2>3. Good(a.row) /\ a.row.count \in Nat
    BY <1>0, <2>1, <2>2, PreToolGood, GoodAnswerRow DEF Good, Row
  <2>4. blocks' \in Nat /\ charged' \in Nat
    BY <1>3, <2>1, Bounds DEF CountBlocks, UpTo, BudgetInv
  <2>5. ASSUME a.row.armed
        PROVE  charged' = a.row.count
    <3> DEFINE known == DropStale(row, prompt).armed
               base == IF known THEN row.count ELSE 0
    <3>1. a.row.count < MaxBlocks
      BY <2>3, <2>5 DEF Good, Consistent
    <3>2. CASE a.is = "reinstate"
      BY <1>0, <1>3, <2>1, <2>2, <2>5, <3>2, PreToolCounts DEF CountBlocks
    <3>3. CASE a.is # "reinstate"
      <4>1. a.row.count = base + (IF a.is = "block" THEN 1 ELSE 0)
        BY <1>0, <2>1, <2>2, <2>5, <3>3, PreToolCounts
      <4>2. known => row.armed
        BY <1>0, DropStaleLeaves
      <4>3. charged' = UpTo(MaxBlocks, base + (IF a.is = "block" THEN 1 ELSE 0))
        BY <1>3, <2>1, <2>5, <3>3, <4>2 DEF CountBlocks, BudgetInv
      <4> HIDE DEF base
      <4> QED BY <2>3, <3>1, <4>1, <4>3, Bounds DEF UpTo
    <3> QED BY <3>2, <3>3
  <2> QED BY <2>1, <2>4, <2>5 DEF BudgetInv
<1> QED BY <1>1, <1>2, <1>3, SerialSteps

\* With serialized processes, fewer than max_blocks() refusals are charged to one
\* arm of a claim, in whichever hooks they happen.
THEOREM BudgetAlwaysKept ==
  ASSUME Expirers = {}, ~GateLifts
  PROVE  Spec => []BudgetKept
<1>1. Init => LockInv /\ BudgetInv
  BY DefaultGood DEF Init, LockInv, Inside, Locations, Good, BudgetInv, DefaultRow
<1>2. RowInv /\ LockInv /\ BudgetInv /\ [Next]_vars => RowInv' /\ LockInv' /\ BudgetInv'
  BY RowInvNext, LockInvNext, BudgetInvNext
<1>3. RowInv /\ BudgetInv => BudgetKept
  BY DEF RowInv, BudgetInv, BudgetKept, Good, Consistent
<1> QED BY <1>1, <1>2, <1>3, RowInvInit, PTL DEF Spec

\* Refusals in a row: the count never runs ahead of them, if a call that has been
\* allowed was allowed by the breaker.  A judge that fails lets its call through,
\* and a waiver lets research through that was counted.
EarnedInv ==
  /\ CountEarned
  /\ \A h \in Hooks : call[h].tool # "research"

LEMMA EarnedInvNext ==
  ASSUME Expirers = {}, ~GateLifts, ~JudgeErrors, "research" \notin Tools,
         RowInv, LockInv, BudgetInv, EarnedInv, [Next]_vars
  PROVE  EarnedInv'
<1>0. Good(row) /\ prompt \in Prompts /\ row.count \in Nat /\ call \in [Hooks -> Call] /\ blocks \in Nat
  BY DEF RowInv, Good, Row, BudgetInv
<1>1. \A h \in Hooks : call'[h].tool # "research"
  <2>1. ASSUME NEW h \in Hooks, call' = [call EXCEPT ![h] = NoCall]
        PROVE  \A g \in Hooks : call'[g].tool # "research"
    BY <1>0, <2>1 DEF NoCall, EarnedInv
  <2>2. ASSUME NEW h \in Hooks, HookStart(h)
        PROVE  \A g \in Hooks : call'[g].tool # "research"
    <3>1. PICK t \in Tools, a \in Actions \cup {NoAction} :
            call' = [call EXCEPT ![h] = [now |-> clock, tool |-> t, action |-> a]]
      BY <2>2 DEF HookStart
    <3> QED BY <1>0, <3>1 DEF EarnedInv
  <2>3. \/ UNCHANGED call
        \/ \E h \in Hooks : call' = [call EXCEPT ![h] = NoCall] \/ HookStart(h)
    BY DEF Next, vars, Tick, NewPrompt, Acquire, Expire, Crash, Load, HookSave, ScopeBlock, ScopePass,
           Finish, LiftLoad, LiftSave, LiftExhausted, WorkerStart, WorkerSave, WorkerQuit,
           StopStart, StopSave, StopSkip
  <2> QED BY <2>1, <2>2, <2>3 DEF EarnedInv
<1>2. CASE Rests
  BY <1>1, <1>2 DEF Rests, EarnedInv, CountEarned
<1>3. CASE Released
  <2>1. Quiet(row, row') \/ Settled(row, row') \/ Lifted(row, row')
    BY <1>3, ReleasesToSteps DEF Released
  <2> QED BY <1>1, <1>3, <2>1 DEF Released, EarnedInv, CountEarned, Quiet, Settled, Lifted
<1>4. ASSUME NEW h \in Hooks, HookSave(h), mem[h] = row
      PROVE  EarnedInv'
  <2>1. PICK a \in PreTool(row, prompt, call[h]) : row' = a.row /\ CountBlocks(h, a)
    BY <1>4 DEF HookSave, Save
  <2>2. call[h].now \in Time /\ call[h].tool # "research"
    BY DEF RowInv, Call, EarnedInv
  <2>3. Good(a.row) /\ a.row.count \in Nat
    BY <1>0, <2>1, <2>2, PreToolGood, GoodAnswerRow DEF Good, Row
  <2>4. ASSUME a.row.armed
        PROVE  a.row.count <= blocks'
    <3> DEFINE t == call[h].tool
               base == IF DropStale(row, prompt).armed THEN row.count ELSE 0
    <3>1. base <= blocks /\ base \in Nat
      BY <1>0, DropStaleLeaves DEF EarnedInv, CountEarned
    <3>2. a.row.count < MaxBlocks
      BY <2>3, <2>4 DEF Good, Consistent
    <3> HIDE DEF base
    <3>3. /\ a.is = "reinstate" => a.row.count = 0 /\ IsMutation(t)
          /\ a.is # "reinstate" =>
               /\ a.row.count = base + (IF a.is = "block" THEN 1 ELSE 0)
               /\ a.is \in {"allow", "hold", "block"}
               /\ a.is \in {"hold", "block"} => IsMutation(t)
               /\ a.is = "allow" => ~IsMutation(t)
      BY <1>0, <2>1, <2>2, <2>4, PreToolCounts DEF base
    <3>4. ~PassesBreaker(t)
      BY <2>2 DEF PassesBreaker
    <3>5. blocks' = IF ~IsMutation(t) THEN blocks
                    ELSE IF ~Refuses(a, t) THEN 0
                    ELSE IF a.is = "hold" THEN blocks ELSE UpTo(MaxBlocks, blocks + 1)
      BY <2>1 DEF CountBlocks
    <3>6. CASE a.is = "allow"
      BY <3>1, <3>3, <3>5, <3>6
    <3>7. CASE a.is = "hold"
      BY <3>1, <3>3, <3>4, <3>5, <3>7 DEF Refuses
    <3>8. CASE a.is = "block"
      BY <1>0, <3>1, <3>2, <3>3, <3>4, <3>5, <3>8, Bounds DEF Refuses, UpTo
    <3>9. CASE a.is = "reinstate"
      BY <1>0, <3>3, <3>4, <3>5, <3>9, Bounds DEF Refuses, UpTo
    <3> QED BY <3>3, <3>6, <3>7, <3>8, <3>9
  <2> QED BY <1>1, <2>1, <2>4 DEF EarnedInv, CountEarned
<1> QED BY <1>2, <1>3, <1>4, SerialSteps

\* With serialized processes, a judge that answers and no waived research, the
\* budget costs what it says: an arm is given up after that many refusals in a
\* row and no fewer, and no arm is charged more.
THEOREM BudgetAlwaysHonest ==
  ASSUME Expirers = {}, ~GateLifts, ~JudgeErrors, "research" \notin Tools
  PROVE  Spec => []BudgetHonest
<1>1. Init => LockInv /\ BudgetInv /\ EarnedInv
  BY DefaultGood DEF Init, LockInv, Inside, Locations, Good, BudgetInv, DefaultRow, EarnedInv,
                     CountEarned, NoCall
<1>2. RowInv /\ LockInv /\ BudgetInv /\ EarnedInv /\ [Next]_vars
        => RowInv' /\ LockInv' /\ BudgetInv' /\ EarnedInv'
  BY RowInvNext, LockInvNext, BudgetInvNext, EarnedInvNext
<1>3. RowInv /\ BudgetInv /\ EarnedInv => BudgetHonest
  BY DEF RowInv, BudgetInv, EarnedInv, BudgetHonest, BudgetKept, Good, Consistent
<1> QED BY <1>1, <1>2, <1>3, RowInvInit, PTL DEF Spec

(***************************************************************************)
(* One judge call per batch.  A row remembers the time stamp of the last   *)
(* judged call only; what makes this enough is that the calls in flight    *)
(* are of one batch, so that the last judged call is the latest, and every *)
(* call still waiting coalesces with it.                                   *)
(***************************************************************************)
JudgeInv ==
  /\ clock > 0
  /\ judged \in [Time -> 0..2]
  /\ \A h \in Hooks : pc[h] # "idle" => call[h].now > 0 /\ call[h].now <= clock
  /\ \A g, h \in Hooks : g # h /\ pc[g] # "idle" /\ pc[h] # "idle" =>
       Distance(call[g].now, call[h].now) < CoalesceWindow
  /\ CoalesceWindow > 0 =>
       \A u \in Time : judged[u] > 0 =>
         /\ judged[u] = 1 /\ row.key = prompt /\ row.callAt # 0
         /\ u <= row.callAt /\ row.callAt <= clock
         /\ \A h \in Hooks : pc[h] \in {"wait", "held"} =>
              row.callAt - call[h].now < CoalesceWindow
         /\ \A t \in Time : t # u /\ judged[t] > 0 => Distance(t, u) >= CoalesceWindow

LEMMA PreToolStamps ==
  ASSUME ~JudgeErrors, NEW s, Good(s), NEW k \in Prompts, NEW c, c.now \in Time,
         NEW a \in PreTool(s, k, c)
  PROVE  /\ a.judge => ~ShouldCoalesce(s, k, c.now) /\ a.row.callAt = c.now /\ a.row.key = k
         /\ ~a.judge => a.row.callAt = s.callAt /\ a.row.key = s.key
<1> DEFINE t == DropStale(s, k)
<1>1. t.key = s.key /\ t.callAt = s.callAt
  BY DropStaleLeaves
<1>2. PICK m : Good(m) /\ Follows(m, c, a) /\ Stamped(t, m, k, c, ShouldCoalesce(s, k, c.now), a)
  BY PreToolOutcome DEF Outcome
<1> HIDE DEF t
<1>3. a.row = m \/ a.row = Adjudicate(m) \/ a.row = [m EXCEPT !.count = @ + 1] \/ a.row = Reinstate(m)
  BY <1>2 DEF Follows
<1>4. Adjudicate(m).key = m.key /\ Adjudicate(m).callAt = m.callAt
  BY <1>2, AdjudicateSettles DEF Settled
<1>5. a.row.key = m.key /\ a.row.callAt = m.callAt
  BY <1>2, <1>3, <1>4 DEF Reinstate, Good, Row
<1> QED BY <1>1, <1>2, <1>5 DEF Stamped

\* A step that starts no call and judges none.
LEMMA JudgeKept ==
  ASSUME RowInv, JudgeInv, clock' \in Int, clock <= clock',
         UNCHANGED <<prompt, judged>>, row'.key = row.key, row'.callAt = row.callAt,
         \A h \in Hooks : pc'[h] = "idle" \/ (pc[h] # "idle" /\ call'[h] = call[h]),
         \A h \in Hooks : pc'[h] \in {"wait", "held"} => pc[h] \in {"wait", "held"}
  PROVE  JudgeInv'
<1>1. /\ clock \in Int /\ \A u \in Time : u \in Int
      /\ row.callAt \in Int /\ \A h \in Hooks : call[h].now \in Int
  BY BreakerConstants DEF RowInv, Good, Row, Call, Time, BreakerConstants
<1>2. /\ clock' > 0 /\ judged' \in [Time -> 0..2]
      /\ \A h \in Hooks : pc'[h] # "idle" => call'[h].now > 0 /\ call'[h].now <= clock'
  BY <1>1 DEF JudgeInv, Time
<1>3. \A g, h \in Hooks : g # h /\ pc'[g] # "idle" /\ pc'[h] # "idle" =>
       Distance(call'[g].now, call'[h].now) < CoalesceWindow
  BY DEF JudgeInv
<1>4. ASSUME CoalesceWindow > 0, NEW u \in Time, judged'[u] > 0
      PROVE  /\ judged'[u] = 1 /\ row'.key = prompt' /\ row'.callAt # 0
             /\ u <= row'.callAt /\ row'.callAt <= clock'
             /\ \A h \in Hooks : pc'[h] \in {"wait", "held"} =>
                  row'.callAt - call'[h].now < CoalesceWindow
             /\ \A t \in Time : t # u /\ judged'[t] > 0 => Distance(t, u) >= CoalesceWindow
  BY <1>1, <1>4 DEF JudgeInv
<1> QED BY <1>2, <1>3, <1>4 DEF JudgeInv, Distance, Time

LEMMA JudgeInvNext ==
  ASSUME Expirers = {}, ~GateLifts, ~Overlap, ~JudgeErrors, RowInv, LockInv, JudgeInv, [Next]_vars
  PROVE  JudgeInv'
<1> USE DEF Procs
<1>0. /\ clock \in Nat /\ prompt \in Prompts /\ call \in [Hooks -> Call] /\ pc \in [Procs -> Locations]
      /\ Good(row) /\ row.callAt \in Nat
      /\ \A h \in Hooks : call[h].now \in Nat /\ call[h].now \in Time
      /\ CoalesceWindow \in Nat
  BY BreakerConstants DEF RowInv, LockInv, Good, Row, Call, Time, BreakerConstants
<1>1. CASE Tick
  <2>1. clock' \in Int /\ clock <= clock'
    BY <1>0, <1>1 DEF Tick
  <2> QED BY <1>1, <2>1, JudgeKept DEF Tick, history
<1>2. CASE NewPrompt
  <2>1. judged' = [t \in Time |-> 0]
    BY <1>2 DEF NewPrompt
  <2> QED BY <1>0, <1>2, <2>1 DEF NewPrompt, JudgeInv, Time
<1>3. ASSUME NEW p \in Procs, Acquire(p)
      PROVE  JudgeInv'
  <2>1. \A h \in Hooks : pc'[h] # "idle" => pc[h] # "idle"
    BY <1>0, <1>3 DEF Acquire, Load, Waiting
  <2>2. \A h \in Hooks : pc'[h] \in {"wait", "held"} => pc[h] \in {"wait", "held"}
    BY <1>0, <1>3 DEF Acquire, Load, Waiting, Held
  <2> QED BY <1>0, <1>3, <2>1, <2>2, JudgeKept DEF Acquire, Load, history
<1>4. ASSUME NEW p \in Procs, Crash(p)
      PROVE  JudgeInv'
  <2>1. \A h \in Hooks : pc'[h] = "idle" \/ (pc'[h] = pc[h] /\ call'[h] = call[h])
    BY <1>0, <1>4 DEF Crash
  <2> QED BY <1>0, <1>4, <2>1, JudgeKept DEF Crash, history
<1>5. ASSUME NEW h \in Hooks, HookStart(h)
      PROVE  JudgeInv'
  <2>1. /\ pc[h] = "idle" /\ pc' = [pc EXCEPT ![h] = "wait"]
        /\ \A g \in Hooks : pc[g] # "idle" => clock - call[g].now < CoalesceWindow
        /\ UNCHANGED <<clock, prompt, row, judged>>
    BY <1>5 DEF HookStart, history
  <2>2. \A g \in Hooks : IF g = h THEN call'[g].now = clock ELSE call'[g] = call[g]
    BY <1>0, <1>5 DEF HookStart
  <2>3. \A g \in Hooks : pc'[g] = IF g = h THEN "wait" ELSE pc[g]
    BY <1>0, <2>1
  <2>4. clock > 0
    BY DEF JudgeInv
  <2>5. \A g \in Hooks : pc'[g] # "idle" => call'[g].now > 0 /\ call'[g].now <= clock'
    BY <1>0, <2>1, <2>2, <2>3, <2>4 DEF JudgeInv
  <2>6. ASSUME NEW f \in Hooks, NEW g \in Hooks, f # g, pc'[f] # "idle", pc'[g] # "idle"
        PROVE  Distance(call'[f].now, call'[g].now) < CoalesceWindow
    <3>1. CASE f # h /\ g # h
      BY <2>2, <2>3, <2>6, <3>1 DEF JudgeInv
    <3>2. ASSUME NEW e \in Hooks, e # h, pc[e] # "idle"
          PROVE  /\ Distance(clock, call[e].now) < CoalesceWindow
                 /\ Distance(call[e].now, clock) < CoalesceWindow
      BY <1>0, <2>1, <3>2 DEF JudgeInv, Distance
    <3> QED BY <2>2, <2>3, <2>6, <3>1, <3>2
  <2>7. ASSUME CoalesceWindow > 0, NEW u \in Time, judged'[u] > 0
        PROVE  /\ judged'[u] = 1 /\ row'.key = prompt' /\ row'.callAt # 0
               /\ u <= row'.callAt /\ row'.callAt <= clock'
               /\ \A g \in Hooks : pc'[g] \in {"wait", "held"} =>
                    row'.callAt - call'[g].now < CoalesceWindow
               /\ \A t \in Time : t # u /\ judged'[t] > 0 => Distance(t, u) >= CoalesceWindow
    <3>1. row.callAt <= clock
      BY <2>1, <2>7 DEF JudgeInv
    <3>2. row.callAt - clock < CoalesceWindow
      BY <1>0, <2>7, <3>1
    <3>3. \A g \in Hooks : pc'[g] \in {"wait", "held"} =>
            row.callAt - call'[g].now < CoalesceWindow
      BY <2>1, <2>2, <2>3, <2>7, <3>2 DEF JudgeInv
    <3> QED BY <2>1, <2>7, <3>3 DEF JudgeInv
  <2>8. judged' \in [Time -> 0..2] /\ clock' > 0
    BY <2>1, <2>4 DEF JudgeInv
  <2>9. UNCHANGED Time
    BY DEF Time
  <2> QED BY <2>5, <2>6, <2>7, <2>8, <2>9 DEF JudgeInv, Distance
<1>6. ASSUME NEW h \in Hooks, HookSave(h), mem[h] = row
      PROVE  JudgeInv'
  <2>1. PICK a \in PreTool(row, prompt, call[h]) :
          /\ row' = a.row
          /\ judged' = IF a.judge THEN [judged EXCEPT ![call[h].now] = UpTo(2, @ + 1)] ELSE judged
    BY <1>6 DEF HookSave, Save
  <2>2. /\ a.judge => ~ShouldCoalesce(row, prompt, call[h].now)
                     /\ a.row.callAt = call[h].now /\ a.row.key = prompt
        /\ ~a.judge => a.row.callAt = row.callAt /\ a.row.key = row.key
    BY <1>0, <2>1, PreToolStamps
  <2>3. /\ pc[h] = "held" /\ UNCHANGED <<clock, prompt>>
        /\ pc' = [pc EXCEPT ![h] = "idle"] \/ pc' = [pc EXCEPT ![h] = "scope"]
        /\ call' = IF pc'[h] = "idle" THEN [call EXCEPT ![h] = NoCall] ELSE call
    BY <1>6 DEF HookSave
  <2>4. /\ \A g \in Hooks : g # h => pc'[g] = pc[g] /\ call'[g] = call[g]
        /\ pc'[h] = "idle" \/ (pc'[h] = "scope" /\ call'[h] = call[h])
    BY <1>0, <2>3
  <2>5. \A g \in Hooks : /\ pc'[g] = "idle" \/ (pc[g] # "idle" /\ call'[g] = call[g])
                         /\ pc'[g] \in {"wait", "held"} => pc[g] \in {"wait", "held"} /\ g # h
    BY <2>3, <2>4
  <2>6. CASE ~a.judge
    BY <1>0, <2>1, <2>2, <2>3, <2>5, <2>6, JudgeKept
  <2>7. CASE a.judge
    <3> DEFINE now == call[h].now
    <3>1. now > 0 /\ now <= clock /\ clock > 0
      BY <2>3 DEF JudgeInv
    <3>2. row'.callAt = now /\ row'.key = prompt' /\ now \in Time /\ now \in Nat
      BY <1>0, <2>1, <2>2, <2>3, <2>7
    <3> HIDE DEF now
    <3>3. ASSUME CoalesceWindow > 0, NEW u \in Time, judged[u] > 0
          PROVE  now - u >= CoalesceWindow
      <4>1. row.key = prompt /\ row.callAt # 0 /\ u <= row.callAt /\ u \in Nat
            /\ row.callAt - now < CoalesceWindow
        BY <2>3, <3>3 DEF JudgeInv, Time, now
      <4>2. Distance(now, row.callAt) >= CoalesceWindow
        BY <1>0, <2>2, <2>7, <3>2, <4>1 DEF ShouldCoalesce, now, Distance
      <4> QED BY <1>0, <3>2, <4>1, <4>2 DEF Distance
    <3>4. judged' = [judged EXCEPT ![now] = UpTo(2, @ + 1)] /\ judged \in [Time -> 0..2]
      BY <2>1, <2>7 DEF JudgeInv, now
    <3>5. judged' \in [Time -> 0..2]
      BY <3>2, <3>4 DEF UpTo
    <3>6. ASSUME CoalesceWindow > 0, NEW u \in Time, judged'[u] > 0
          PROVE  /\ judged'[u] = 1 /\ u <= now
                 /\ u = now \/ (judged[u] = 1 /\ now - u >= CoalesceWindow)
      <4>1. judged[now] = 0
        BY <1>0, <3>2, <3>3, <3>4, <3>6
      <4>2. judged'[now] = 1
        BY <3>2, <3>4, <4>1 DEF UpTo
      <4>3. CASE u # now
        <5>1. judged[u] > 0 /\ judged'[u] = judged[u]
          BY <3>4, <3>6, <4>3
        <5> QED BY <1>0, <3>2, <3>3, <3>6, <4>3, <5>1 DEF JudgeInv, Time
      <4> QED BY <3>2, <4>2, <4>3
    <3>7. ASSUME CoalesceWindow > 0
          PROVE  \A g \in Hooks : pc'[g] \in {"wait", "held"} =>
                   row'.callAt - call'[g].now < CoalesceWindow
      <4>1. ASSUME NEW g \in Hooks, g # h, pc[g] # "idle"
            PROVE  now - call[g].now < CoalesceWindow
        <5>1. Distance(now, call[g].now) < CoalesceWindow
          BY <2>3, <4>1 DEF JudgeInv, now
        <5> QED BY <1>0, <3>2, <4>1, <5>1 DEF Distance
      <4> QED BY <2>4, <2>5, <3>2, <4>1
    <3>8. ASSUME CoalesceWindow > 0, NEW u \in Time, judged'[u] > 0
          PROVE  \A t \in Time : t # u /\ judged'[t] > 0 => Distance(t, u) >= CoalesceWindow
      <4>1. ASSUME NEW t \in Time, t # u, judged'[t] > 0
            PROVE  Distance(t, u) >= CoalesceWindow
        <5>1. t \in Nat /\ u \in Nat
          BY DEF Time
        <5>2. CASE u = now
          <6>1. now - t >= CoalesceWindow
            BY <3>6, <3>8, <4>1, <5>2
          <6> QED BY <1>0, <3>2, <3>8, <5>1, <5>2, <6>1 DEF Distance
        <5>3. CASE t = now
          <6>1. now - u >= CoalesceWindow
            BY <3>6, <3>8, <4>1, <5>3
          <6> QED BY <1>0, <3>2, <3>8, <5>1, <5>3, <6>1 DEF Distance
        <5>4. CASE u # now /\ t # now
          BY <3>6, <3>8, <4>1, <5>4 DEF JudgeInv
        <5> QED BY <5>2, <5>3, <5>4
      <4> QED BY <4>1
    <3>9. /\ \A g \in Hooks : pc'[g] # "idle" => call'[g].now > 0 /\ call'[g].now <= clock'
          /\ \A f, g \in Hooks : f # g /\ pc'[f] # "idle" /\ pc'[g] # "idle" =>
               Distance(call'[f].now, call'[g].now) < CoalesceWindow
      BY <2>3, <2>5 DEF JudgeInv
    <3>10. ASSUME CoalesceWindow > 0
           PROVE  \A u \in Time : judged'[u] > 0 =>
             /\ judged'[u] = 1 /\ row'.key = prompt' /\ row'.callAt # 0
             /\ u <= row'.callAt /\ row'.callAt <= clock'
             /\ \A g \in Hooks : pc'[g] \in {"wait", "held"} =>
                  row'.callAt - call'[g].now < CoalesceWindow
             /\ \A t \in Time : t # u /\ judged'[t] > 0 => Distance(t, u) >= CoalesceWindow
      BY <2>3, <3>1, <3>2, <3>6, <3>7, <3>8, <3>10 DEF now
    <3> HIDE DEF JudgeInv
    <3> QED BY <2>3, <3>1, <3>5, <3>9, <3>10 DEF JudgeInv, Distance, Time
  <2> QED BY <2>6, <2>7
<1>7. ASSUME NEW h \in Hooks, ScopeBlock(h) \/ ScopePass(h)
      PROVE  JudgeInv'
  <2>1. /\ pc[h] = "scope" /\ pc' = [pc EXCEPT ![h] = "idle"]
        /\ call' = [call EXCEPT ![h] = NoCall] /\ UNCHANGED <<clock, prompt, row, judged>>
    BY <1>7 DEF ScopeBlock, ScopePass, Finish, history
  <2>2. \A g \in Hooks : /\ pc'[g] = "idle" \/ (pc'[g] = pc[g] /\ call'[g] = call[g])
    BY <1>0, <2>1
  <2> QED BY <1>0, <2>1, <2>2, JudgeKept
<1>8. ASSUME NEW h \in Hooks, LiftLoad(h) \/ LiftSave(h) \/ LiftExhausted(h)
      PROVE  FALSE
  BY <1>8 DEF LiftLoad, LiftSave, LiftExhausted, LockInv
<1>9. ASSUME NEW p \in Workers \cup Stops, WorkerStart(p) \/ WorkerQuit(p) \/ StopStart(p) \/ StopSkip(p)
      PROVE  JudgeInv'
  <2>1. PICK l \in {"idle", "wait", "waitVerify"} : pc' = [pc EXCEPT ![p] = l]
    BY <1>9 DEF WorkerStart, WorkerQuit, StopStart, StopSkip, StopNext
  <2>2. \A g \in Hooks : pc'[g] = pc[g]
    BY <1>0, <2>1, BreakerNames DEF BreakerNames
  <2>3. UNCHANGED <<clock, prompt, row, call, judged>>
    BY <1>9 DEF WorkerStart, WorkerQuit, StopStart, StopSkip, history
  <2> QED BY <1>0, <2>2, <2>3, JudgeKept
<1>10. ASSUME Released, NEW p \in Workers \cup Stops, NEW l \in {"idle", "waitVerify"},
              pc' = [pc EXCEPT ![p] = l]
       PROVE  JudgeInv'
  <2>1. (Quiet(row, row') \/ Settled(row, row') \/ Lifted(row, row')) /\ row'.callAt = row.callAt
    BY <1>10, ReleasesToSteps DEF Released
  <2>2. \A g \in Hooks : pc'[g] = pc[g]
    BY <1>0, <1>10, BreakerNames DEF BreakerNames
  <2>3. row'.key = row.key /\ UNCHANGED <<clock, prompt, call, judged>>
    BY <1>10, <2>1 DEF Quiet, Settled, Lifted, Released
  <2> QED BY <1>0, <2>1, <2>2, <2>3, JudgeKept
<1>11. CASE UNCHANGED vars
  BY <1>0, <1>11, JudgeKept DEF vars
<1>12. ASSUME NEW p \in Workers \cup Stops, WorkerSave(p) \/ StopSave(p)
       PROVE  Released /\ \E l \in {"idle", "waitVerify"} : pc' = [pc EXCEPT ![p] = l]
  BY <1>12, SavesRelease
<1>13. ASSUME NEW h \in Hooks, HookSave(h)
       PROVE  mem[h] = row
  BY <1>13 DEF HookSave, LockInv, Inside
<1>14. ASSUME NEW p \in Procs
       PROVE  ~Expire(p)
  BY DEF Expire
<1> QED
  BY <1>1, <1>2, <1>3, <1>4, <1>5, <1>6, <1>7, <1>8, <1>9, <1>10, <1>11, <1>12, <1>13, <1>14
     DEF Next

\* Hooks of one batch ask the judge once.  It takes serialized processes, calls
\* whose batches do not overlap, and a judge that answers: a failed call leaves
\* its stamp under the key of another prompt.
THEOREM OneJudgeAlways ==
  ASSUME Expirers = {}, ~GateLifts, ~Overlap, ~JudgeErrors
  PROVE  Spec => []OneJudgePerBatch
<1>1. Init => LockInv /\ JudgeInv
  BY DefaultGood DEF Init, LockInv, Inside, Locations, Good, JudgeInv, Procs
<1>2. RowInv /\ LockInv /\ JudgeInv /\ [Next]_vars => RowInv' /\ LockInv' /\ JudgeInv'
  BY RowInvNext, LockInvNext, JudgeInvNext
<1>3. ASSUME JudgeInv
      PROVE  OneJudgePerBatch
  <2>1. ASSUME NEW t \in Time, NEW u \in Time,
               judged[t] + (IF t = u THEN 0 ELSE judged[u]) > 1
        PROVE  Distance(t, u) >= CoalesceWindow
    <3>1. /\ t \in Nat /\ u \in Nat /\ CoalesceWindow \in Nat
          /\ judged[t] \in 0..2 /\ judged[u] \in 0..2
      BY <1>3, BreakerConstants DEF Time, BreakerConstants, JudgeInv
    <3>2. CASE CoalesceWindow = 0
      BY <3>1, <3>2 DEF Distance
    <3>3. CASE CoalesceWindow > 0
      <4>1. (judged[t] > 0 => judged[t] = 1) /\ (judged[u] > 0 => judged[u] = 1)
        BY <1>3, <3>3 DEF JudgeInv
      <4>2. t # u /\ judged[t] > 0 /\ judged[u] > 0
        BY <2>1, <3>1, <4>1
      <4> QED BY <1>3, <3>3, <4>2 DEF JudgeInv
    <3> QED BY <3>1, <3>2, <3>3
  <2> QED BY <2>1 DEF OneJudgePerBatch
<1> QED BY <1>1, <1>2, <1>3, RowInvInit, PTL DEF Spec

(***************************************************************************)
(* Refinement of the claim gate.  With serialized processes each save      *)
(* evaluates the stored row, and one evaluation is one step of the gate.   *)
(* The gate remembers every resolved claim, the row the last MAX_EVENTS of *)
(* them: the refinement holds as long as no more claims than that exist.   *)
(***************************************************************************)
Distinct(list) == \A i, j \in 1..Len(list) : list[i] = list[j] => i = j

AdjInv == resolved = ToSet(row.adj) /\ Distinct(row.adj)

\* A list of distinct claims that lacks one has room for it.
LEMMA RoomForOne ==
  ASSUME IsFiniteSet(Claims), Cardinality(Claims) <= MaxAdjudicated,
         NEW list \in Seq(Claims), Distinct(list), NEW c \in Claims, c \notin ToSet(list)
  PROVE  Len(list) < MaxAdjudicated
<1> DEFINE others == Claims \ {c}
<1>1. IsFiniteSet(others) /\ Cardinality(others) = Cardinality(Claims) - 1
  BY FS_RemoveElement
<1>2. IsFiniteSet(1..Len(list)) /\ Cardinality(1..Len(list)) = Len(list)
  <2> DEFINE n == Len(list)
  <2>1. n \in Nat
    OBVIOUS
  <2> HIDE DEF n
  <2>2. IsFiniteSet(1..n) /\ Cardinality(1..n) = IF 1 > n THEN 0 ELSE n - 1 + 1
    BY <2>1, FS_Interval
  <2>3. Cardinality(1..n) = n
    BY <2>1, <2>2
  <2> QED BY <2>2, <2>3 DEF n
<1>3. list \in [1..Len(list) -> others]
  <2>1. list \in [1..Len(list) -> Claims] /\ DOMAIN list = 1..Len(list)
    OBVIOUS
  <2>2. \A i \in 1..Len(list) : list[i] \in others
    BY <2>1 DEF ToSet
  <2> HIDE DEF others
  <2> QED BY <2>1, <2>2
<1>4. Cardinality(Claims) \in Nat
  BY FS_CardinalityType
<1>5. ~(Cardinality(others) < Cardinality(1..Len(list)))
  <2> HIDE DEF others
  <2> QED BY <1>1, <1>2, <1>3, FS_PigeonHole DEF Distinct
<1> QED BY <1>1, <1>2, <1>4, <1>5, Bounds

LEMMA RecordedClaim ==
  ASSUME IsFiniteSet(Claims), Cardinality(Claims) <= MaxAdjudicated,
         NEW s, Good(s), Distinct(s.adj)
  PROVE  LET adj == RecordAdjudicated(s).adj IN
         Distinct(adj) /\ ToSet(adj) = ToSet(s.adj) \cup ({s.claim} \ {NoClaim})
<1>1. s.adj \in Seq(Claims) /\ Len(s.adj) <= MaxAdjudicated /\ s.claim \in Claims \cup {NoClaim}
  BY DEF Good, Row, Consistent
<1>2. CASE s.claim = NoClaim
  BY <1>2, RecordKeepsClaim
<1>3. CASE s.claim # NoClaim /\ s.claim \in ToSet(s.adj)
  <2>1. RecordAdjudicated(s) = [s EXCEPT !.adj = LastOf(s.adj, MaxAdjudicated)]
    BY <1>3 DEF RecordAdjudicated
  <2>2. LastOf(s.adj, MaxAdjudicated) = s.adj
    BY <1>1 DEF LastOf
  <2>3. RecordAdjudicated(s).adj = s.adj
    BY <2>1, <2>2 DEF Good, Row
  <2> QED BY <1>3, <2>3
<1>4. CASE s.claim # NoClaim /\ s.claim \notin ToSet(s.adj)
  <2> DEFINE list == Append(s.adj, s.claim)
  <2>1. Len(s.adj) < MaxAdjudicated
    BY <1>1, <1>4, RoomForOne
  <2>2. /\ list \in Seq(Claims) /\ Len(list) = Len(s.adj) + 1
        /\ \A i \in 1..Len(list) : list[i] = IF i <= Len(s.adj) THEN s.adj[i] ELSE s.claim
    <3>1. s.claim \in Claims
      BY <1>1, <1>4
    <3> QED BY <1>1, <3>1
  <2>3. RecordAdjudicated(s) = [s EXCEPT !.adj = LastOf(list, MaxAdjudicated)]
    BY <1>4 DEF RecordAdjudicated
  <2> HIDE DEF list
  <2>4. LastOf(list, MaxAdjudicated) = list
    <3>1. Len(s.adj) \in Nat
      BY <1>1
    <3>2. Len(list) <= MaxAdjudicated
      BY <2>1, <2>2, <3>1, Bounds
    <3> QED BY <3>2 DEF LastOf
  <2>5. RecordAdjudicated(s).adj = list
    BY <2>3, <2>4 DEF Good, Row
  <2>6. \A i \in 1..Len(s.adj) : s.adj[i] # s.claim
    BY <1>1, <1>4 DEF ToSet
  <2>7. Distinct(list)
    BY <1>1, <2>2, <2>6 DEF Distinct
  <2>8. ToSet(list) = ToSet(s.adj) \cup {s.claim}
    <3>1. DOMAIN list = 1..Len(list) /\ DOMAIN s.adj = 1..Len(s.adj) /\ Len(s.adj) \in Nat
      BY <1>1, <2>2
    <3>2. \A i \in 1..Len(s.adj) : i \in 1..Len(list) /\ list[i] = s.adj[i]
      BY <2>2, <3>1
    <3>3. Len(list) \in 1..Len(list) /\ list[Len(list)] = s.claim
      BY <2>2, <3>1
    <3>4. \A i \in 1..Len(list) : i \in 1..Len(s.adj) \/ list[i] = s.claim
      BY <2>2, <3>1
    <3> QED BY <3>1, <3>2, <3>3, <3>4 DEF ToSet
  <2> QED BY <1>4, <2>5, <2>7, <2>8
<1> QED BY <1>1, <1>2, <1>3, <1>4

\* A save that adjudicates the claim of s, and one that adds nothing.
LEMMA AdjRecorded ==
  ASSUME IsFiniteSet(Claims), Cardinality(Claims) <= MaxAdjudicated, AdjInv,
         NEW s, Good(s), s.adj = row.adj, row'.adj = RecordAdjudicated(s).adj,
         resolved' = resolved \cup Recorded(row, row')
  PROVE  AdjInv' /\ resolved' = resolved \cup ({s.claim} \ {NoClaim})
<1>1. Distinct(row'.adj) /\ ToSet(row'.adj) = ToSet(s.adj) \cup ({s.claim} \ {NoClaim})
  BY RecordedClaim DEF AdjInv
<1>2. resolved' = ToSet(row'.adj)
  BY <1>1 DEF Recorded, AdjInv
<1> QED BY <1>1, <1>2 DEF AdjInv, Distinct, ToSet

LEMMA AdjSame ==
  ASSUME AdjInv, row'.adj = row.adj, resolved' = resolved \cup Recorded(row, row')
  PROVE  AdjInv' /\ resolved' = resolved
BY DEF AdjInv, Recorded, Distinct, ToSet

(***************************************************************************)
(* The gate a row implements.                                              *)
(***************************************************************************)
Owner == IF GateOf(row) = "open" THEN 0 ELSE row.key

LEMMA GateReads ==
  ASSUME NEW s, Good(s)
  PROVE  /\ s.armed => GateOf(s) = "armed"
         /\ s.prov => GateOf(s) = "lifted"
         /\ ~s.armed /\ ~s.prov => GateOf(s) = "open" /\ s.claim = NoClaim
         /\ GateOf(s) = "armed" => s.armed
         /\ GateOf(s) = "lifted" => s.prov
         /\ GateOf(s) = "open" => ~s.armed /\ ~s.prov
BY DEF Good, Row, Consistent, GateOf

\* The row says the same to the gate: a stutter.
LEMMA GateRests ==
  ASSUME Good(row), Good(row'), UNCHANGED <<prompt, resolved>>,
         row'.armed = row.armed, row'.prov = row.prov, row'.claim = row.claim, row'.key = row.key
  PROVE  UNCHANGED Gate!gateVars
BY DEF Gate!gateVars, GateOf

LEMMA GateResolves ==
  ASSUME IsFiniteSet(Claims), Cardinality(Claims) <= MaxAdjudicated, AdjInv,
         Good(row), Good(row'), UNCHANGED prompt, Settled(row, row'),
         resolved' = resolved \cup Recorded(row, row')
  PROVE  AdjInv' /\ [Gate!GateNext]_(Gate!gateVars)
<1>1. AdjInv' /\ resolved' = resolved \cup ({row.claim} \ {NoClaim})
  BY AdjRecorded DEF Settled
<1>2. GateOf(row') = "open" /\ row'.claim = NoClaim
  BY GateReads DEF Settled
<1>3. CASE GateOf(row) = "open"
  <2>1. row.claim = NoClaim
    BY <1>3, GateReads
  <2> QED BY <1>1, <1>2, <1>3, <2>1 DEF Gate!gateVars
<1>4. CASE GateOf(row) # "open"
  BY <1>1, <1>2, <1>4 DEF Gate!GateNext, Gate!Resolve, Gate!OpenGate
<1> QED BY <1>1, <1>3, <1>4

LEMMA GateLiftsClaim ==
  ASSUME Good(row), Good(row'), UNCHANGED <<prompt, resolved>>, Lifted(row, row')
  PROVE  [Gate!GateNext]_(Gate!gateVars)
<1>1. GateOf(row) = "armed" /\ GateOf(row') = "lifted"
  BY GateReads DEF Lifted
<1> QED BY <1>1 DEF Lifted, Gate!GateNext, Gate!Lift

(***************************************************************************)
(* One evaluation in a hook is one step of the gate.  DropStale leaves the *)
(* row, or leaves a claim of an earlier prompt behind; the judge's word    *)
(* then resolves, lifts or flags; the answer may resolve (fail open) or    *)
(* return.  When a claim is flagged and failed open in one evaluation, the *)
(* gate dismisses it; a claim lifted and returned at once stays as it was. *)
(***************************************************************************)
\* The answer to a call for which nothing was flagged on arrival.
LEMMA OpenedAnswer ==
  ASSUME IsFiniteSet(Claims), Cardinality(Claims) <= MaxAdjudicated, AdjInv,
         Good(row), Good(row'), UNCHANGED prompt, resolved' = resolved \cup Recorded(row, row'),
         GateOf(row) = "open" \/ row.key # prompt,
         NEW t, Good(t), ~t.armed, ~t.prov, t.adj = row.adj,
         NEW m, Good(m), Evaluated(t, m, prompt), NEW c, NEW a, Follows(m, c, a), row' = a.row
  PROVE  AdjInv' /\ [Gate!GateNext]_(Gate!gateVars)
<1>1. t.claim = NoClaim /\ RecordAdjudicated(t).adj = t.adj
  BY GateReads, RecordKeepsClaim
<1>2. CASE ~m.armed
  <2>1. ~m.prov /\ m.adj = row.adj
    BY <1>1, <1>2 DEF Evaluated, Quiet, Settled, Lifted, Flagged, Directed
  <2>2. row' = m
    BY <1>2, <2>1 DEF Follows
  <2>3. AdjInv' /\ resolved' = resolved
    BY <2>1, <2>2, AdjSame
  <2>4. GateOf(row') = "open" /\ row'.claim = NoClaim
    BY <1>2, <2>1, <2>2, GateReads
  <2>5. CASE GateOf(row) = "open"
    <3>1. row.claim = NoClaim
      BY <2>5, GateReads
    <3> QED BY <2>3, <2>4, <2>5, <3>1 DEF Gate!gateVars
  <2>6. CASE GateOf(row) # "open"
    BY <2>3, <2>4, <2>6 DEF Gate!GateNext, Gate!Leave, Gate!OpenGate
  <2> QED BY <2>3, <2>5, <2>6
<1>3. CASE m.armed
  <2>1. Flagged(t, m, prompt)
    BY <1>3 DEF Evaluated, Quiet, Settled, Lifted, Flagged, Directed
  <2>2. m.claim \in Claims \cup {NoClaim} /\ m.adj = row.adj /\ m.key = prompt
    BY <2>1 DEF Flagged
  <2>3. Gate!Flaggable(m.claim)
    BY <2>1 DEF Gate!Flaggable, Flagged, Suppressed, AdjInv
  <2>4. GateOf(row) = "open" \/ Owner # prompt
    BY DEF Owner
  <2>5. CASE a.is = "failopen"
    <3>1. row' = Adjudicate(m)
      BY <2>5 DEF Follows
    <3>2. row'.adj = RecordAdjudicated(m).adj /\ ~row'.armed /\ ~row'.prov
      BY <3>1, AdjudicateSettles DEF Settled
    <3>3. AdjInv' /\ resolved' = resolved \cup ({m.claim} \ {NoClaim})
      BY <2>2, <3>2, AdjRecorded
    <3>4. GateOf(row') = "open" /\ row'.claim = NoClaim
      BY <3>2, GateReads
    <3>5. Gate!Dismiss(m.claim)
      BY <2>3, <2>4, <3>3, <3>4 DEF Gate!Dismiss, Gate!OpenGate, Owner
    <3> QED BY <2>2, <3>3, <3>5 DEF Gate!GateNext
  <2>6. CASE a.is # "failopen"
    <3>1. row' = m \/ row' = [m EXCEPT !.count = @ + 1]
      BY <2>1, <2>6 DEF Follows, Flagged
    <3>2. row'.armed /\ row'.claim = m.claim /\ row'.key = prompt /\ row'.adj = row.adj
      BY <1>3, <2>2, <3>1 DEF Good, Row
    <3>3. AdjInv' /\ resolved' = resolved
      BY <3>2, AdjSame
    <3>4. GateOf(row') = "armed"
      BY <3>2, GateReads
    <3>5. Gate!Flag(m.claim)
      BY <2>3, <2>4, <3>2, <3>3, <3>4 DEF Gate!Flag, Owner
    <3> QED BY <2>2, <3>3, <3>5 DEF Gate!GateNext
  <2> QED BY <2>5, <2>6
<1> QED BY <1>2, <1>3

\* The answer to a call that finds a claim of its prompt.
LEMMA ClaimedAnswer ==
  ASSUME IsFiniteSet(Claims), Cardinality(Claims) <= MaxAdjudicated, AdjInv,
         Good(row), Good(row'), UNCHANGED prompt, resolved' = resolved \cup Recorded(row, row'),
         row.armed \/ row.prov,
         NEW m, Good(m), Evaluated(row, m, prompt), NEW c, NEW a, Follows(m, c, a), row' = a.row
  PROVE  AdjInv' /\ [Gate!GateNext]_(Gate!gateVars)
<1>1. CASE Settled(row, m)
  <2>1. row' = m
    BY <1>1 DEF Settled, Follows
  <2> QED BY <1>1, <2>1, GateResolves
<1>2. CASE Lifted(row, m) /\ row' = m
  <2>1. AdjInv' /\ resolved' = resolved
    BY <1>2, AdjSame DEF Lifted
  <2> QED BY <1>2, <2>1, GateLiftsClaim
<1>3. CASE Lifted(row, m) /\ row' = Reinstate(m)
  <2>1. row.armed /\ ~row.prov /\ row.armed \in BOOLEAN /\ row.prov \in BOOLEAN
    BY <1>3 DEF Lifted, Good, Row, Consistent
  <2>2. row'.armed = TRUE /\ row'.prov = FALSE /\ row'.claim = m.claim /\ row'.key = m.key
        /\ row'.adj = m.adj
    BY <1>3 DEF Reinstate, Good, Row
  <2>3. row'.armed = row.armed /\ row'.prov = row.prov
    BY <2>1, <2>2
  <2>4. row'.claim = row.claim /\ row'.key = row.key /\ row'.adj = row.adj
    BY <1>3, <2>2 DEF Lifted
  <2> QED BY <2>3, <2>4, AdjSame, GateRests
<1>4. CASE Quiet(row, m) /\ a.is \in {"allow", "hold", "block"}
  <2>1. row' = m \/ row' = [m EXCEPT !.count = @ + 1]
    BY <1>4 DEF Follows
  <2>2. /\ row'.armed = row.armed /\ row'.prov = row.prov /\ row'.claim = row.claim
        /\ row'.key = row.key /\ row'.adj = row.adj
    <3>1. /\ m.armed = row.armed /\ m.prov = row.prov /\ m.claim = row.claim
          /\ m.key = row.key /\ m.adj = row.adj
      BY <1>4 DEF Quiet
    <3>2. CASE row' = m
      BY <3>1, <3>2
    <3>3. CASE row' = [m EXCEPT !.count = @ + 1]
      <4>1. /\ row'.armed = m.armed /\ row'.prov = m.prov /\ row'.claim = m.claim
            /\ row'.key = m.key /\ row'.adj = m.adj
        BY <3>3 DEF Good, Row
      <4> QED BY <3>1, <4>1
    <3> QED BY <2>1, <3>2, <3>3
  <2> QED BY <2>2, AdjSame, GateRests
<1>5. CASE Quiet(row, m) /\ a.is = "failopen"
  <2>1. Settled(row, row')
    BY <1>5, AdjudicateSettles, QuietSettled DEF Follows
  <2> QED BY <2>1, GateResolves
<1>6. CASE Quiet(row, m) /\ a.is = "reinstate"
  <2>1. /\ row.prov /\ row'.armed /\ row'.claim = row.claim /\ row'.key = row.key
        /\ row'.adj = row.adj
    <3>1. m.prov /\ row' = Reinstate(m)
      BY <1>6 DEF Follows
    <3>2. m.prov = row.prov /\ m.claim = row.claim /\ m.key = row.key /\ m.adj = row.adj
      BY <1>6 DEF Quiet
    <3>3. row'.armed /\ row'.claim = m.claim /\ row'.key = m.key /\ row'.adj = m.adj
      BY <3>1 DEF Reinstate, Good, Row
    <3> QED BY <3>1, <3>2, <3>3
  <2>2. AdjInv' /\ resolved' = resolved
    BY <2>1, AdjSame
  <2>3. GateOf(row) = "lifted" /\ GateOf(row') = "armed"
    BY <2>1, GateReads
  <2>4. Gate!Return
    BY <2>1, <2>2, <2>3 DEF Gate!Return
  <2> QED BY <2>2, <2>4 DEF Gate!GateNext
<1>7. Quiet(row, m) \/ Settled(row, m) \/ Lifted(row, m)
  BY DEF Evaluated, Flagged, Directed
<1>8. a.is \in {"allow", "hold", "block", "failopen", "reinstate"}
  BY DEF Follows
<1>9. Lifted(row, m) => row' = m \/ row' = Reinstate(m)
  BY DEF Lifted, Follows
<1> QED BY <1>1, <1>2, <1>3, <1>4, <1>5, <1>6, <1>7, <1>8, <1>9

LEMMA GateStep ==
  ASSUME IsFiniteSet(Claims), Cardinality(Claims) <= MaxAdjudicated,
         Expirers = {}, ~GateLifts, RowInv, LockInv, AdjInv, [Next]_vars
  PROVE  AdjInv' /\ [Gate!GateNext]_(Gate!gateVars)
<1>0. Good(row) /\ prompt \in Prompts /\ Good(row')
  <2>1. RowInv'
    BY RowInvNext
  <2> QED BY <2>1 DEF RowInv, Good, Row, Consistent, Time
<1>1. CASE Rests /\ UNCHANGED prompt
  BY <1>1 DEF Rests, AdjInv, Gate!gateVars
<1>2. CASE Rests /\ NewPrompt
  <2>1. Gate!Submit
    BY <1>2 DEF Rests, NewPrompt, Gate!Submit
  <2> QED BY <1>2, <2>1 DEF Rests, AdjInv, Gate!GateNext
<1>3. CASE Released
  <2>1. Quiet(row, row') \/ Settled(row, row') \/ Lifted(row, row')
    BY <1>3, ReleasesToSteps DEF Released
  <2>2. CASE Quiet(row, row')
    BY <1>0, <1>3, <2>2, AdjSame, GateRests DEF Quiet, Released
  <2>3. CASE Settled(row, row')
    BY <1>0, <1>3, <2>3, GateResolves DEF Released
  <2>4. CASE Lifted(row, row')
    <3>1. AdjInv' /\ resolved' = resolved
      BY <1>3, <2>4, AdjSame DEF Lifted, Released
    <3> QED BY <1>0, <1>3, <2>4, <3>1, GateLiftsClaim DEF Released
  <2> QED BY <2>1, <2>2, <2>3, <2>4
<1>4. ASSUME NEW h \in Hooks, HookSave(h), mem[h] = row
      PROVE  AdjInv' /\ [Gate!GateNext]_(Gate!gateVars)
  <2> DEFINE t == DropStale(row, prompt)
  <2>1. PICK a \in PreTool(row, prompt, call[h]) :
          row' = a.row /\ resolved' = resolved \cup Recorded(row, row')
    BY <1>4 DEF HookSave, Save
  <2>2. call[h].now \in Time /\ UNCHANGED prompt
    BY <1>4 DEF RowInv, Call, HookSave
  <2>3. PICK m : Good(m) /\ Evaluated(t, m, prompt) /\ Follows(m, call[h], a)
    BY <1>0, <2>1, <2>2, PreToolOutcome DEF Outcome
  <2>4. Good(t) /\ t.adj = row.adj /\ (t.armed \/ t.prov => t = row)
    BY <1>0, DropStaleGood, DropStaleLeaves
  <2>5. t.armed \/ t.prov \/ GateOf(row) = "open" \/ row.key # prompt
    BY <1>0, DropStaleLeaves, GateReads
  <2> HIDE DEF t
  <2>6. CASE t.armed \/ t.prov
    BY <1>0, <2>1, <2>2, <2>3, <2>4, <2>6, ClaimedAnswer
  <2>7. CASE ~t.armed /\ ~t.prov
    BY <1>0, <2>1, <2>2, <2>3, <2>4, <2>5, <2>7, OpenedAnswer
  <2> QED BY <2>6, <2>7
<1> QED BY <1>1, <1>2, <1>3, <1>4, SerialSteps

\* The rows, locks and processes implement the abstract gate: what a session
\* experiences is a claim that is flagged, lifted, returned, resolved or left
\* behind, in one step each, and never flagged again once resolved.
THEOREM BreakerImplementsGate ==
  ASSUME Expirers = {}, ~GateLifts, IsFiniteSet(Claims), Cardinality(Claims) <= MaxAdjudicated
  PROVE  Spec => ImplementsGate
<1>1. Init => LockInv /\ AdjInv
  BY DefaultGood DEF Init, LockInv, Inside, Locations, Good, AdjInv, DefaultRow, Distinct, ToSet
<1>2. Init => Gate!GateInit
  BY DEF Init, DefaultRow, Gate!GateInit, GateOf
<1>3. RowInv /\ LockInv /\ AdjInv /\ [Next]_vars => RowInv' /\ LockInv' /\ AdjInv'
  BY RowInvNext, LockInvNext, GateStep
<1>4. RowInv /\ LockInv /\ AdjInv /\ [Next]_vars => [Gate!GateNext]_(Gate!gateVars)
  BY GateStep
<1> QED BY <1>1, <1>2, <1>3, <1>4, RowInvInit, PTL DEF Spec, ImplementsGate, Gate!GateSpec
=============================================================================
