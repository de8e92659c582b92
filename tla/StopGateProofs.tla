--------------------------- MODULE StopGateProofs ---------------------------
(***************************************************************************)
(* Theorems about StopGate, for every board, every choice of caps and      *)
(* thresholds and any number of rival writers.                             *)
(***************************************************************************)
EXTENDS StopGate, FiniteSetTheorems, TLAPS

(***************************************************************************)
(* Lemmas about the updates of a ledger.                                   *)
(***************************************************************************)
\* A set of incomplete tasks has a size the counters can hold.
LEMMA Sizes ==
  /\ Cardinality(Tasks) \in Nat
  /\ NoBest \in Nat \ {0}
  /\ \A S \in SUBSET Tasks :
       /\ Cardinality(S) \in 0..(NoBest - 1)
       /\ S # {} => Cardinality(S) \in 1..(NoBest - 1)
<1>1. IsFiniteSet(Tasks)
  BY StopGateConstants
<1>2. Cardinality(Tasks) \in Nat
  BY <1>1, FS_CardinalityType
<1>3. ASSUME NEW S \in SUBSET Tasks
      PROVE  /\ Cardinality(S) \in 0..Cardinality(Tasks)
             /\ S # {} => Cardinality(S) \in 1..Cardinality(Tasks)
  <2>1. IsFiniteSet(S) /\ Cardinality(S) <= Cardinality(Tasks)
    BY <1>1, FS_Subset
  <2>2. Cardinality(S) \in Nat /\ (Cardinality(S) = 0 <=> S = {})
    BY <2>1, FS_CardinalityType, FS_EmptySet
  <2>3. QED
    BY <1>2, <2>1, <2>2
<1>4. QED
  BY <1>2, <1>3 DEF NoBest

\* The initial ledger is one of them, and its counters belong together.
LEMMA FreshCoherent == Fresh \in Ledger /\ Coherent(Fresh)
<1>1. MaxStopBlocks \in Nat /\ LiftMax \in Nat
  BY StopGateConstants
<1>2. QED
  BY <1>1, Sizes DEF Fresh, Ledger, Coherent

\* So do those of a ledger whose completion counters restart,
LEMMA ResetCoherent ==
  ASSUME NEW l \in Ledger, Coherent(l)
  PROVE  Reset(l) \in Ledger /\ Coherent(Reset(l))
<1>0. 0 \in 0..(NoBest - 1) /\ NoBest \in 1..NoBest
  BY Sizes
<1>1. Reset(l) \in Ledger
  BY <1>0 DEF Reset, Ledger
<1>2. Coherent(Reset(l))
  BY Sizes DEF Reset, Ledger, Coherent
<1>3. QED
  BY <1>1, <1>2

\* ... that takes down the incomplete tasks of a Stop,
LEMMA SignedCoherent ==
  ASSUME NEW l \in Ledger, Coherent(l), open \in SUBSET Tasks
  PROVE  Signed(l) \in Ledger /\ Coherent(Signed(l))
BY DEF Signed, Ledger, Coherent

\* ... or that the loop judge was asked about,
LEMMA AskedCoherent ==
  ASSUME NEW l \in Ledger, Coherent(l), l.episode # {}
  PROVE  Asked(l) \in Ledger /\ Coherent(Asked(l))
BY DEF Asked, Ledger, Coherent

\* ... or that counts a block of n incomplete tasks.
LEMMA NotedCoherent ==
  ASSUME NEW l \in Ledger, Coherent(l), NEW n \in 1..(NoBest - 1)
  PROVE  Noted(l, n) \in Ledger /\ Coherent(Noted(l, n))
<1>1. Noted(l, n) \in Ledger
  <2> DEFINE stall == IF n < l.prev THEN 0 ELSE l.stall + 1
             best == IF n < l.best THEN n ELSE l.best
             blocks == IF n < l.best THEN 1 ELSE l.blocks + 1
  <2>1. stall \in Nat /\ n \in 0..(NoBest - 1) /\ best \in 1..NoBest /\ blocks \in Nat
    BY Sizes DEF Ledger
  <2>2. Noted(l, n) = [l EXCEPT !.stall = stall, !.prev = n, !.best = best, !.blocks = blocks]
    BY DEF Noted, Ledger
  <2>3. QED
    BY <2>1, <2>2 DEF Ledger
<1>2. Coherent(Noted(l, n))
  BY Sizes DEF Noted, Ledger, Coherent
<1>3. QED
  BY <1>1, <1>2

(***************************************************************************)
(* The ledgers.                                                            *)
(***************************************************************************)
\* A Stop that counts a block has something incomplete.
OpenMeans == at \in {"loop", "count"} => open # {}

LedgerInv == LedgerTypes /\ LedgerCoherent /\ OpenMeans

\* One lemma for the places a Stop can be in, one for the rest.
LEMMA GateStep ==
  ASSUME LedgerInv,
         \/ StopPlan \/ StopMissing \/ StopLight \/ StopFinds \/ StopComplete \/ StopIncomplete
         \/ CountBlock \/ CountRelease
  PROVE  LedgerInv'
<1> USE DEF LedgerInv, OpenMeans, LedgerTypes, LedgerCoherent
<1>1. CASE StopPlan
  BY <1>1 DEF StopPlan, Quiet, Passes
<1>2. CASE StopMissing
  BY <1>2 DEF StopMissing, Quiet, Block
<1>3. CASE StopLight
  BY <1>3 DEF StopLight, Quiet, GoTo
<1>4. CASE StopFinds
  BY <1>4 DEF StopFinds, Quiet, GoTo
<1>5. CASE StopComplete
  <2>1. led' \in Ledger /\ Coherent(led')
    BY <1>5, ResetCoherent DEF StopComplete
  <2>2. QED
    BY <1>5, <2>1 DEF StopComplete, GoTo, Block
<1>6. CASE StopIncomplete
  <2>1. open' \in SUBSET Tasks /\ open' # {}
    BY <1>6 DEF StopIncomplete
  <2>2. QED
    BY <1>6, <2>1 DEF StopIncomplete, Quiet, GoTo
<1>7. CASE CountBlock \/ CountRelease
  <2>1. Cardinality(open) \in 1..(NoBest - 1)
    BY <1>7, Sizes DEF CountBlock, CountRelease
  <2>2. led' \in Ledger /\ Coherent(led')
    BY <1>7, <2>1, NotedCoherent DEF CountBlock, CountRelease
  <2>3. QED
    BY <1>7, <2>2 DEF CountBlock, CountRelease, Block, Passes
<1>8. QED
  BY <1>1, <1>2, <1>3, <1>4, <1>5, <1>6, <1>7

LEMMA LoopStep ==
  ASSUME LedgerInv,
         LoopConsume \/ LoopQuiet \/ LoopDeclines \/ LoopLifts \/ LoopRetracts
  PROVE  LedgerInv'
<1> USE DEF LedgerInv, OpenMeans, LedgerTypes, LedgerCoherent
<1> DEFINE l == Signed(led)
<1>1. l \in Ledger /\ Coherent(l) /\ l.episode = open /\ l.left = led.left
  BY SignedCoherent DEF Signed, Ledger
<1>2. at = "loop" /\ open # {} /\ open \in SUBSET Tasks
  BY DEF LoopConsume, LoopQuiet, LoopDeclines, LoopLifts, LoopRetracts, LoopAsks
<1>3. Asked(l) \in Ledger /\ Coherent(Asked(l)) /\ Asked(l).judged # {}
  <2>1. Asked(l) \in Ledger /\ Coherent(Asked(l))
    BY <1>1, <1>2, AskedCoherent
  <2>2. Asked(l).judged = open
    BY <1>1 DEF Asked, Ledger
  <2>3. QED
    BY <1>2, <2>1, <2>2
<1> HIDE DEF l
<1>4. CASE LoopConsume
  <2>1. led.left > 0 /\ led' = [l EXCEPT !.left = @ - 1] /\ led.left \in 0..LiftMax
    BY <1>4 DEF LoopConsume, l, Ledger
  <2>2. l.left - 1 \in 0..LiftMax
    BY <1>1, <2>1, StopGateConstants
  <2>3. led' \in Ledger
    BY <1>1, <2>1, <2>2 DEF Ledger
  <2>4. Coherent(led')
    BY <1>1, <2>1 DEF Ledger, Coherent
  <2>5. QED
    BY <1>4, <2>3, <2>4 DEF LoopConsume, Passes
<1>5. CASE LoopQuiet
  BY <1>1, <1>2, <1>5 DEF LoopQuiet, GoTo, l
<1>6. CASE LoopDeclines
  BY <1>2, <1>3, <1>6 DEF LoopDeclines, GoTo, l
<1>7. CASE LoopLifts
  <2>1. PICK n \in 1..LiftMax : led' = [Asked(l) EXCEPT !.left = n]
    BY <1>7 DEF LoopLifts, l
  <2>2. n \in 0..LiftMax
    BY StopGateConstants
  <2>3. led' \in Ledger
    BY <1>3, <2>1, <2>2 DEF Ledger
  <2>4. Coherent(led')
    BY <1>3, <2>1 DEF Ledger, Coherent
  <2>5. QED
    BY <1>2, <1>7, <2>3, <2>4 DEF LoopLifts, GoTo
<1>8. CASE LoopRetracts
  <2>1. led' \in Ledger /\ Coherent(led')
    BY <1>3, <1>8, ResetCoherent DEF LoopRetracts, l
  <2>2. open' \in SUBSET Tasks
    BY <1>2, <1>8 DEF LoopRetracts
  <2>3. QED
    BY <1>8, <2>1, <2>2 DEF LoopRetracts, GoTo
<1>9. QED
  BY <1>4, <1>5, <1>6, <1>7, <1>8

LEMMA SoftStep ==
  ASSUME LedgerInv,
         \/ HandoffSkips \/ HandoffCapped \/ HandoffClears \/ HandoffBlocks
         \/ SoftFindings \/ SoftObserves \/ SoftPasses \/ HookDies
         \/ NewPrompt \/ MinutePasses \/ Reboot
         \/ \E r \in Rivals : RivalLoads(r) \/ RivalSaves(r)
  PROVE  LedgerInv'
<1> USE DEF LedgerInv, OpenMeans, LedgerTypes, LedgerCoherent
<1>1. CASE HandoffSkips \/ HandoffCapped \/ SoftFindings \/ SoftPasses \/ HookDies
  BY <1>1 DEF HandoffSkips, HandoffCapped, SoftFindings, SoftPasses, HookDies, GoTo, Passes, Block
<1>2. CASE HandoffClears \/ HandoffBlocks
  <2>1. led' \in Ledger /\ Coherent(led')
    BY <1>2 DEF HandoffClears, HandoffBlocks, Ledger, Coherent
  <2>2. QED
    BY <1>2, <2>1 DEF HandoffClears, HandoffBlocks, GoTo, Block
<1>3. CASE SoftObserves
  <2>1. led.obs + 1 \in 0..MaxStopBlocks
    BY <1>3, StopGateConstants DEF SoftObserves, Ledger
  <2>2. led' \in Ledger /\ Coherent(led')
    BY <1>3, <2>1 DEF SoftObserves, Ledger, Coherent
  <2>3. QED
    BY <1>3, <2>2 DEF SoftObserves, Block
<1>4. CASE NewPrompt
  <2>1. 0 \in 0..MaxStopBlocks
    BY StopGateConstants
  <2>2. led' \in Ledger /\ Coherent(led')
    BY <1>4, <2>1 DEF NewPrompt, Ledger, Coherent
  <2>3. QED
    BY <1>4, <2>2 DEF NewPrompt
<1>5. CASE MinutePasses \/ Reboot
  <2>1. led' \in Ledger /\ Coherent(led')
    BY <1>5 DEF MinutePasses, Reboot, Ledger, Coherent
  <2>2. QED
    BY <1>5, <2>1 DEF MinutePasses, Reboot, Quiet
<1>6. ASSUME NEW r \in Rivals, RivalLoads(r)
      PROVE  LedgerInv'
  BY <1>6 DEF RivalLoads
<1>7. ASSUME NEW r \in Rivals, RivalSaves(r)
      PROVE  LedgerInv'
  <2>1. led' \in Ledger /\ Coherent(led')
    BY <1>7 DEF RivalSaves
  <2>2. mem' \in [Rivals -> Ledger \cup {None}]
    BY <1>7 DEF RivalSaves
  <2>3. \A q \in Rivals : mem'[q] = None \/ Coherent(mem'[q])
    BY <1>7 DEF RivalSaves
  <2>4. QED
    BY <1>7, <2>1, <2>2, <2>3 DEF RivalSaves
<1>8. QED
  BY <1>1, <1>2, <1>3, <1>4, <1>5, <1>6, <1>7

\* The counters of the stored ledger and of every loaded one belong together, however
\* Stops, prompts and rival writers interleave: a save restores a ledger of the past whole.
THEOREM LedgersAlwaysCoherent == StopSpec => [](LedgerTypes /\ LedgerCoherent)
<1>1. StopInit => LedgerInv
  BY FreshCoherent DEF StopInit, LedgerInv, LedgerTypes, LedgerCoherent, OpenMeans
<1>2. LedgerInv /\ [StopNext]_stopVars => LedgerInv'
  <2>1. ASSUME LedgerInv, StopNext
        PROVE  LedgerInv'
    BY <2>1, GateStep, LoopStep, SoftStep DEF StopNext
  <2>2. ASSUME LedgerInv, UNCHANGED stopVars
        PROVE  LedgerInv'
    BY <2>2 DEF LedgerInv, LedgerTypes, LedgerCoherent, OpenMeans, stopVars
  <2>3. QED
    BY <2>1, <2>2
<1>3. LedgerInv => LedgerTypes /\ LedgerCoherent
  BY DEF LedgerInv
<1>4. QED
  BY <1>1, <1>2, <1>3, PTL DEF StopSpec

(***************************************************************************)
(* The history.                                                            *)
(***************************************************************************)
\* t blocks are charged to a best count and a raw count: every count above the best
\* has had its k blocks at most, and the best one has had the raw count's.
Charged(t, best, blocks, k) ==
  IF best = NoBest
  THEN t = 0
  ELSE /\ t <= (NoBest - 1 - best) * k + blocks
       /\ t <= (NoBest - best) * k

LEMMA ChargedZero ==
  ASSUME NEW best \in 1..NoBest, NEW blocks \in Nat, NEW k \in Nat
  PROVE  Charged(0, best, blocks, k)
<1>1. CASE best = NoBest
  BY <1>1 DEF Charged
<1>2. CASE best # NoBest
  <2>1. NoBest - 1 - best \in Nat /\ NoBest - best \in Nat
    BY <1>2, Sizes
  <2>2. (NoBest - 1 - best) * k \in Nat /\ (NoBest - best) * k \in Nat
    BY <2>1
  <2>3. QED
    BY <1>2, <2>2 DEF Charged
<1>3. QED
  BY <1>1, <1>2

\* A larger factor makes a larger product.
LEMMA Products ==
  ASSUME NEW a \in Nat, NEW b \in Nat, NEW k \in Nat, a <= b
  PROVE  a * k \in Nat /\ a * k <= b * k
<1>1. b - a \in Nat
  OBVIOUS
<1>2. (b - a) * k \in Nat /\ a * k \in Nat
  BY <1>1
<1>3. b * k = a * k + (b - a) * k
  OBVIOUS
<1>4. QED
  BY <1>2, <1>3

\* Another block, counted and below the cap, is charged too.
LEMMA ChargedNoted ==
  ASSUME NEW l \in Ledger, NEW n \in 1..(NoBest - 1), NEW k \in Nat, NEW t \in Nat,
         Charged(t, l.best, l.blocks, k), Noted(l, n).blocks <= k
  PROVE  Charged(t + 1, Noted(l, n).best, Noted(l, n).blocks, k)
<1> DEFINE a == NoBest - 1 - l.best
           b == NoBest - 1 - n
<1>0. l.best \in 1..NoBest /\ l.blocks \in Nat /\ n # NoBest /\ b \in Nat
  BY Sizes DEF Ledger
<1>1. CASE n < l.best
  <2>1. Noted(l, n).best = n /\ Noted(l, n).blocks = 1
    BY <1>1 DEF Noted, Ledger
  <2>2. b * k \in Nat /\ (NoBest - n) * k = b * k + k
    BY <1>0, Sizes
  <2>3. t <= b * k
    <3>1. CASE l.best = NoBest
      BY <2>2, <3>1 DEF Charged
    <3>2. CASE l.best # NoBest
      <4>1. t <= (NoBest - l.best) * k
        BY <3>2 DEF Charged
      <4>2. NoBest - l.best \in Nat /\ NoBest - l.best <= b
        BY <1>0, <1>1, Sizes
      <4>3. (NoBest - l.best) * k \in Nat /\ (NoBest - l.best) * k <= b * k
        BY <1>0, <4>2, Products
      <4>4. QED
        BY <2>2, <4>1, <4>3
    <3>3. QED
      BY <3>1, <3>2
  <2>4. t + 1 <= b * k + 1 /\ t + 1 <= b * k + k
    BY <2>1, <2>2, <2>3
  <2>5. QED
    BY <1>0, <2>1, <2>2, <2>4 DEF Charged
<1>2. CASE ~(n < l.best)
  <2>1. Noted(l, n).best = l.best /\ Noted(l, n).blocks = l.blocks + 1
    BY <1>2 DEF Noted, Ledger
  <2>2. l.best # NoBest /\ a \in Nat
    BY <1>0, <1>2, Sizes
  <2>3. a * k \in Nat /\ (NoBest - l.best) * k = a * k + k
    BY <1>0, <2>2, Sizes
  <2>4. t <= a * k + l.blocks
    BY <2>2 DEF Charged
  <2>5. t + 1 <= a * k + (l.blocks + 1) /\ t + 1 <= a * k + k
    BY <1>0, <2>1, <2>3, <2>4
  <2>6. QED
    BY <2>1, <2>2, <2>3, <2>5 DEF Charged
<1>3. QED
  BY <1>1, <1>2

LEMMA ChargedBounded ==
  ASSUME NEW best \in 1..NoBest, NEW blocks \in Nat, NEW k \in Nat, NEW t \in Nat,
         Charged(t, best, blocks, k)
  PROVE  t <= Cardinality(Tasks) * k
<1>1. NoBest - 1 = Cardinality(Tasks) /\ Cardinality(Tasks) \in Nat
  BY Sizes DEF NoBest
<1>2. CASE best = NoBest
  <2>1. Cardinality(Tasks) * k \in Nat
    BY <1>1
  <2>2. QED
    BY <1>2, <2>1 DEF Charged
<1>3. CASE best # NoBest
  <2>1. NoBest - best \in Nat /\ NoBest - best <= Cardinality(Tasks)
    BY <1>1, <1>3, Sizes
  <2>2. (NoBest - best) * k \in Nat /\ (NoBest - best) * k <= Cardinality(Tasks) * k
    BY <1>1, <2>1, Products
  <2>3. t <= (NoBest - best) * k
    BY <1>3 DEF Charged
  <2>4. Cardinality(Tasks) * k \in Nat
    BY <1>1
  <2>5. QED
    BY <2>2, <2>3, <2>4
<1>4. QED
  BY <1>2, <1>3

HistTypes ==
  hist \in [trapped : Nat, nagged : Nat, nudged : Nat, granted : Int,
            unasked : Nat, comparable : BOOLEAN]

\* The Stops a lift still has were granted, and every block is on its counter.
HistInv ==
  /\ HistTypes
  /\ led.left <= hist.granted
  /\ hist.nudged <= led.obs
  /\ hist.nagged <= led.handoff
  /\ caps.handoff > 0 => hist.nagged <= caps.handoff
  /\ caps.stop > 0 => Charged(hist.trapped, led.best, led.blocks, caps.stop - 1)

\* What a Stop keeps of the counters when its step is about another one.
Keeps(l, m) == m.best = l.best /\ m.blocks = l.blocks /\ m.handoff = l.handoff /\ m.obs = l.obs

LEMMA CapTypes ==
  ASSUME LedgerTypes
  PROVE  /\ caps.stop \in Nat /\ caps.stalled \in Nat /\ caps.handoff \in Nat
         /\ led.best \in 1..NoBest /\ led.blocks \in Nat /\ led.left \in Nat
         /\ led.handoff \in Nat /\ led.obs \in Nat
         /\ caps.stop > 0 => caps.stop - 1 \in Nat
<1>1. caps \in Caps
  BY StopGateConstants DEF LedgerTypes
<1>2. LiftMax \in Nat /\ MaxStopBlocks \in Nat
  BY StopGateConstants
<1>3. QED
  BY <1>1, <1>2 DEF LedgerTypes, Ledger, Caps

\* A Stop that is let through is charged with nothing from then on.
LEMMA LetInv ==
  ASSUME LedgerTypes, HistInv, NEW h, Let(h), UNCHANGED caps,
         led'.best \in 1..NoBest, led'.blocks \in Nat,
         led'.handoff = led.handoff, led'.obs = led.obs,
         h.granted \in Int, h.nudged = hist.nudged, led'.left <= h.granted,
         h \in [trapped : Nat, nagged : Nat, nudged : Nat, granted : Int,
                unasked : Nat, comparable : BOOLEAN]
  PROVE  HistInv'
<1>1. /\ hist'.trapped = 0 /\ hist'.nagged = 0 /\ hist'.nudged = hist.nudged
      /\ hist'.granted = h.granted /\ HistTypes'
  BY DEF Let, HistTypes
<1>2. caps.stop > 0 => Charged(0, led'.best, led'.blocks, caps.stop - 1)
  BY CapTypes, ChargedZero
<1>3. caps' = caps /\ caps.handoff \in Nat /\ led.handoff \in Nat
  BY CapTypes
<1>4. /\ led'.left <= hist'.granted /\ hist'.nudged <= led'.obs
      /\ hist'.nagged <= led'.handoff /\ (caps'.handoff > 0 => hist'.nagged <= caps'.handoff)
  BY <1>1, <1>3 DEF HistInv
<1>5. caps'.stop > 0 => Charged(hist'.trapped, led'.best, led'.blocks, caps'.stop - 1)
  BY <1>1, <1>2, <1>3
<1>6. QED
  BY <1>1, <1>4, <1>5 DEF HistInv, Charged

\* Counting a block leaves the other counters of the history alone.
LEMMA CountedKeeps ==
  ASSUME HistTypes, NEW l
  PROVE  /\ Counted(l) \in [trapped : Nat, nagged : Nat, nudged : Nat, granted : Int,
                            unasked : Nat, comparable : BOOLEAN]
         /\ Counted(l).trapped = hist.trapped /\ Counted(l).nagged = hist.nagged
         /\ Counted(l).nudged = hist.nudged /\ Counted(l).granted = hist.granted
<1> DEFINE u == IF hist.unasked < RefireStep THEN hist.unasked + 1 ELSE hist.unasked
           c == hist.comparable /\ l.blocks > led.blocks
<1>1. u \in Nat
  BY DEF HistTypes
<1>2. c \in BOOLEAN
  OBVIOUS
<1>3. Counted(l) = [hist EXCEPT !.unasked = u, !.comparable = c]
  BY DEF Counted, HistTypes
<1> HIDE DEF u, c
<1>4. QED
  BY <1>1, <1>2, <1>3 DEF HistTypes

LEMMA GateHist ==
  ASSUME LedgerInv, LedgerInv', HistInv,
         \/ StopPlan \/ StopMissing \/ StopLight \/ StopFinds \/ StopComplete \/ StopIncomplete
         \/ CountBlock \/ CountRelease
  PROVE  HistInv'
<1> USE DEF LedgerInv
<1>0. led'.best \in 1..NoBest /\ led'.blocks \in Nat
  BY DEF LedgerTypes, Ledger
<1>1. CASE StopPlan
  BY <1>1, LetInv, CapTypes DEF StopPlan, Passes, HistInv, HistTypes
<1>2. CASE StopMissing \/ StopLight \/ StopFinds \/ StopIncomplete
  BY <1>2 DEF StopMissing, StopLight, StopFinds, StopIncomplete, Quiet, GoTo, Block,
              HistInv, HistTypes, Charged
<1>3. CASE StopComplete
  <2>1. led' = Reset(led) /\ caps' = caps
    BY <1>3 DEF StopComplete, GoTo, Block
  <2>2. /\ led'.best = NoBest /\ led'.left = led.left
        /\ led'.handoff = led.handoff /\ led'.obs = led.obs
    BY <2>1 DEF Reset, LedgerTypes, Ledger
  <2>3. /\ hist'.trapped = 0 /\ hist'.nagged = hist.nagged /\ hist'.nudged = hist.nudged
        /\ hist'.granted = hist.granted /\ HistTypes'
    BY <1>3 DEF StopComplete, HistInv, HistTypes
  <2>4. QED
    BY <2>1, <2>2, <2>3 DEF HistInv, Charged
<1> DEFINE n == Cardinality(open)
           m == Noted(led, n)
<1>4. ASSUME CountBlock \/ CountRelease
      PROVE  /\ n \in 1..(NoBest - 1) /\ led \in Ledger /\ led' = m /\ caps' = caps
             /\ m.left = led.left /\ m.handoff = led.handoff /\ m.obs = led.obs
  <2>1. n \in 1..(NoBest - 1) /\ led \in Ledger
    BY <1>4, Sizes DEF LedgerTypes, OpenMeans, CountBlock, CountRelease
  <2>2. led' = m /\ caps' = caps
    BY <1>4 DEF CountBlock, CountRelease, Block, Passes
  <2>3. QED
    BY <2>1, <2>2 DEF Noted, Ledger
<1>5. CASE CountBlock
  <2>1. /\ hist'.nagged = hist.nagged /\ hist'.nudged = hist.nudged
        /\ hist'.granted = hist.granted /\ HistTypes'
        /\ hist'.trapped = IF caps.stop > 0 THEN hist.trapped + 1 ELSE hist.trapped
    <3>1. HistTypes
      BY DEF HistInv
    <3> DEFINE c == Counted(led')
               t == IF caps.stop > 0 THEN c.trapped + 1 ELSE c.trapped
    <3>2. hist' = [c EXCEPT !.trapped = t]
      BY <1>5 DEF CountBlock
    <3>3. /\ c \in [trapped : Nat, nagged : Nat, nudged : Nat, granted : Int,
                    unasked : Nat, comparable : BOOLEAN]
          /\ c.trapped = hist.trapped /\ c.nagged = hist.nagged
          /\ c.nudged = hist.nudged /\ c.granted = hist.granted
      BY <3>1, CountedKeeps
    <3> HIDE DEF c
    <3>4. t \in Nat
      BY <3>3
    <3>5. QED
      BY <3>2, <3>3, <3>4 DEF HistTypes
  <2>2. ASSUME caps.stop > 0
        PROVE  Charged(hist.trapped + 1, led'.best, led'.blocks, caps.stop - 1)
    <3>1. caps.stop - 1 \in Nat /\ caps.stop \in Nat /\ led'.blocks \in Nat
      BY <1>0, <2>2, CapTypes
    <3>2. m.blocks <= caps.stop - 1
      BY <1>4, <1>5, <2>2, <3>1 DEF CountBlock, CapReached
    <3>3. hist.trapped \in Nat /\ Charged(hist.trapped, led.best, led.blocks, caps.stop - 1)
      BY <2>2 DEF HistInv, HistTypes
    <3>4. QED
      BY <1>4, <1>5, <3>1, <3>2, <3>3, ChargedNoted
  <2>3. caps'.stop > 0 => Charged(hist'.trapped, led'.best, led'.blocks, caps'.stop - 1)
    BY <1>4, <1>5, <2>1, <2>2
  <2>4. QED
    BY <1>4, <1>5, <2>1, <2>3 DEF HistInv, Charged
<1>6. CASE CountRelease
  <2> DEFINE h == [Counted(led') EXCEPT
                     !.granted = IF caps.stalled = 0 /\ caps.stop = 0 THEN @ - 1 ELSE @]
  <2>1. caps.stalled > 0 \/ caps.stop > 0
    BY <1>6 DEF CountRelease, CapReached
  <2>2. /\ h.nudged = hist.nudged /\ h.granted = hist.granted
        /\ h \in [trapped : Nat, nagged : Nat, nudged : Nat, granted : Int,
                  unasked : Nat, comparable : BOOLEAN]
    <3>1. caps.stalled \in Nat /\ caps.stop \in Nat
      BY CapTypes
    <3>2. ~(caps.stalled = 0 /\ caps.stop = 0)
      BY <2>1, <3>1
    <3>3. HistTypes
      BY DEF HistInv
    <3> DEFINE c == Counted(led')
    <3>4. /\ c \in [trapped : Nat, nagged : Nat, nudged : Nat, granted : Int,
                    unasked : Nat, comparable : BOOLEAN]
          /\ c.nudged = hist.nudged /\ c.granted = hist.granted
      BY <3>3, CountedKeeps
    <3>5. h = [c EXCEPT !.granted = @]
      BY <3>2
    <3> HIDE DEF c, h
    <3>6. QED
      BY <3>4, <3>5
  <2>3. Let(h)
    BY <1>6 DEF CountRelease
  <2>4. led'.left <= h.granted /\ h.granted \in Int
    BY <1>4, <1>6, <2>2 DEF HistInv, HistTypes
  <2>5. led'.handoff = led.handoff /\ led'.obs = led.obs /\ caps' = caps
    BY <1>4, <1>6
  <2> HIDE DEF h
  <2>6. QED
    BY <1>0, <2>2, <2>3, <2>4, <2>5, LetInv
<1>7. QED
  BY <1>1, <1>2, <1>3, <1>5, <1>6

LEMMA LoopHist ==
  ASSUME LedgerInv, LedgerInv', HistInv,
         LoopConsume \/ LoopQuiet \/ LoopDeclines \/ LoopLifts \/ LoopRetracts
  PROVE  HistInv'
<1> USE DEF LedgerInv
<1> DEFINE l == Signed(led)
           a == Asked(l)
<1>0. led'.best \in 1..NoBest /\ led'.blocks \in Nat
  BY DEF LedgerTypes, Ledger
<1>1. /\ l \in Ledger /\ a \in Ledger
      /\ l.left = led.left /\ a.left = led.left
      /\ Keeps(led, l) /\ Keeps(led, a)
  <2>1. led \in Ledger /\ open \in SUBSET Tasks
    BY DEF LedgerTypes
  <2>2. l \in Ledger /\ l.left = led.left /\ Keeps(led, l)
    BY <2>1 DEF Signed, Ledger, Keeps
  <2> HIDE DEF l
  <2>3. a \in Ledger /\ a.left = l.left /\ Keeps(l, a)
    BY <2>2 DEF Asked, Ledger, Keeps
  <2>4. QED
    BY <2>2, <2>3 DEF Keeps
<1>2. ASSUME NEW k \in Nat
      PROVE  /\ HistAsked(k).trapped = hist.trapped /\ HistAsked(k).nagged = hist.nagged
             /\ HistAsked(k).nudged = hist.nudged /\ HistAsked(k).granted = hist.granted + k
             /\ HistAsked(k) \in [trapped : Nat, nagged : Nat, nudged : Nat, granted : Int,
                                  unasked : Nat, comparable : BOOLEAN]
  <2> DEFINE c == led.blocks > 0
             g == hist.granted + k
  <2>1. c \in BOOLEAN /\ g \in Int /\ HistTypes
    BY DEF HistInv, HistTypes
  <2>2. HistAsked(k) = [hist EXCEPT !.granted = g, !.unasked = 0, !.comparable = c]
    BY <2>1, CapTypes DEF HistAsked, HistTypes
  <2>3. g = hist.granted + k
    OBVIOUS
  <2> DEFINE r == HistAsked(k)
  <2> HIDE DEF c, g, r
  <2>4. r = [hist EXCEPT !.granted = g, !.unasked = 0, !.comparable = c]
    BY <2>2 DEF r
  <2>5. /\ r.trapped = hist.trapped /\ r.nagged = hist.nagged
        /\ r.nudged = hist.nudged /\ r.granted = g
    BY <2>1, <2>4 DEF HistTypes
  <2>6. r \in [trapped : Nat, nagged : Nat, nudged : Nat, granted : Int,
               unasked : Nat, comparable : BOOLEAN]
    BY <2>1, <2>4 DEF HistTypes
  <2>7. QED
    BY <2>3, <2>5, <2>6 DEF r
<1> HIDE DEF l, a
<1>3. CASE LoopConsume
  <2> DEFINE h == [hist EXCEPT !.granted = @ - 1]
  <2>1. led' = [l EXCEPT !.left = @ - 1] /\ Let(h) /\ caps' = caps
    BY <1>3 DEF LoopConsume, Passes, l
  <2>2. led'.left = led.left - 1 /\ Keeps(led, led')
    BY <1>1, <2>1 DEF Ledger, Keeps
  <2>3. /\ h.granted = hist.granted - 1 /\ h.nudged = hist.nudged /\ h.granted \in Int
        /\ h \in [trapped : Nat, nagged : Nat, nudged : Nat, granted : Int,
                  unasked : Nat, comparable : BOOLEAN]
    BY DEF HistInv, HistTypes
  <2>4. led'.left <= h.granted
    BY <2>2, <2>3, CapTypes DEF HistInv, HistTypes
  <2> HIDE DEF h
  <2>5. QED
    BY <1>0, <2>1, <2>2, <2>3, <2>4, LetInv DEF Keeps
<1>4. CASE LoopQuiet
  <2>1. led' = l /\ caps' = caps /\ hist' = hist
    BY <1>4 DEF LoopQuiet, GoTo, l
  <2>2. QED
    BY <1>1, <2>1 DEF HistInv, HistTypes, Keeps, Charged
<1>5. CASE LoopDeclines
  <2>1. led' = a /\ caps' = caps /\ hist' = HistAsked(0)
    BY <1>5 DEF LoopDeclines, GoTo, a, l
  <2>2. hist'.granted = hist.granted
    BY <1>2, <2>1 DEF HistInv, HistTypes
  <2>3. QED
    BY <1>1, <1>2, <2>1, <2>2 DEF HistInv, HistTypes, Keeps, Charged
<1>6. CASE LoopLifts
  <2>1. PICK k \in 1..LiftMax : led' = [a EXCEPT !.left = k] /\ hist' = HistAsked(k)
    BY <1>6 DEF LoopLifts, a, l
  <2>2. caps' = caps /\ k \in Nat /\ led'.left = k /\ Keeps(led, led')
    BY <1>1, <1>6, <2>1, StopGateConstants DEF LoopLifts, GoTo, Ledger, Keeps
  <2>3. hist.granted \in Int /\ 0 <= hist.granted
    BY CapTypes DEF HistInv, HistTypes
  <2>4. led'.left <= hist'.granted
    BY <1>2, <2>1, <2>2, <2>3
  <2>5. QED
    BY <1>2, <2>1, <2>2, <2>4 DEF HistInv, HistTypes, Keeps, Charged
<1>7. CASE LoopRetracts
  <2> DEFINE b == HistAsked(0)
  <2>1. led' = Reset(a) /\ caps' = caps /\ hist' = [b EXCEPT !.trapped = 0, !.comparable = FALSE]
    BY <1>7 DEF LoopRetracts, GoTo, a, l
  <2>2. /\ led'.left = led.left /\ led'.best = NoBest
        /\ led'.handoff = led.handoff /\ led'.obs = led.obs
    BY <1>1, <2>1 DEF Reset, Ledger, Keeps
  <2>3. hist.granted + 0 = hist.granted
    BY DEF HistInv, HistTypes
  <2>4. /\ b.nagged = hist.nagged /\ b.nudged = hist.nudged /\ b.granted = hist.granted
        /\ b \in [trapped : Nat, nagged : Nat, nudged : Nat, granted : Int,
                  unasked : Nat, comparable : BOOLEAN]
    BY <1>2, <2>3
  <2> HIDE DEF b
  <2>5. /\ hist'.trapped = 0 /\ hist'.nagged = hist.nagged /\ hist'.nudged = hist.nudged
        /\ hist'.granted = hist.granted /\ HistTypes'
    BY <2>1, <2>4 DEF HistTypes
  <2>6. QED
    BY <2>1, <2>2, <2>5 DEF HistInv, Charged
<1>8. QED
  BY <1>3, <1>4, <1>5, <1>6, <1>7

LEMMA SoftHist ==
  ASSUME LedgerInv, LedgerInv', HistInv,
         \/ HandoffSkips \/ HandoffCapped \/ HandoffClears \/ HandoffBlocks
         \/ SoftFindings \/ SoftObserves \/ SoftPasses \/ HookDies
         \/ NewPrompt \/ MinutePasses \/ Reboot
         \/ \E r \in Rivals : RivalLoads(r) \/ RivalSaves(r)
  PROVE  HistInv'
<1> USE DEF LedgerInv
<1>0. /\ led' \in Ledger /\ led \in Ledger /\ caps.handoff \in Nat
      /\ led'.best \in 1..NoBest /\ led'.blocks \in Nat
      /\ led'.left \in Nat /\ led'.handoff \in Nat /\ led'.obs \in Nat
  <2>1. LiftMax \in Nat /\ MaxStopBlocks \in Nat
    BY StopGateConstants
  <2>2. QED
    BY <2>1, CapTypes DEF LedgerTypes, Ledger
<1>1. CASE HandoffSkips \/ SoftFindings
  BY <1>1 DEF HandoffSkips, SoftFindings, GoTo, Block, HistInv, HistTypes, Charged
<1>2. CASE HandoffCapped \/ SoftPasses \/ HookDies
  <2>1. Let(hist) /\ led' = led /\ caps' = caps
    BY <1>2 DEF HandoffCapped, SoftPasses, HookDies, Passes
  <2>2. HistTypes /\ led.left <= hist.granted
    BY DEF HistInv
  <2>3. QED
    BY <1>0, <2>1, <2>2, LetInv DEF HistTypes
<1>3. CASE HandoffClears
  <2>1. /\ led'.handoff = 0 /\ led'.left = led.left /\ led'.obs = led.obs
        /\ led'.best = led.best /\ led'.blocks = led.blocks
    BY <1>0, <1>3 DEF HandoffClears, Ledger
  <2>2. /\ hist'.nagged = 0 /\ hist'.trapped = hist.trapped /\ hist'.nudged = hist.nudged
        /\ hist'.granted = hist.granted /\ HistTypes' /\ caps' = caps
    BY <1>3 DEF HandoffClears, GoTo, HistInv, HistTypes
  <2>3. QED
    BY <1>0, <2>1, <2>2 DEF HistInv, Charged
<1>4. CASE HandoffBlocks
  <2>1. /\ led'.handoff = led.handoff + 1 /\ led'.left = led.left /\ led'.obs = led.obs
        /\ led'.best = led.best /\ led'.blocks = led.blocks /\ led.handoff \in Nat
    BY <1>0, <1>4 DEF HandoffBlocks, Ledger
  <2>2. /\ hist'.nagged = hist.nagged + 1 /\ hist'.trapped = hist.trapped
        /\ hist'.nudged = hist.nudged /\ hist'.granted = hist.granted
        /\ hist.nagged \in Nat /\ HistTypes' /\ caps' = caps
    BY <1>4 DEF HandoffBlocks, Block, HistInv, HistTypes
  <2>3. caps.handoff > 0 => led.handoff + 1 <= caps.handoff
    BY <1>0, <1>4, <2>1 DEF HandoffBlocks, HandoffFull
  <2>4. hist'.nagged <= led'.handoff /\ (caps'.handoff > 0 => hist'.nagged <= caps'.handoff)
    BY <1>0, <2>1, <2>2, <2>3 DEF HistInv
  <2>5. QED
    BY <2>1, <2>2, <2>4 DEF HistInv, Charged
<1>5. CASE SoftObserves
  <2>1. /\ led'.obs = led.obs + 1 /\ led'.left = led.left /\ led'.handoff = led.handoff
        /\ led'.best = led.best /\ led'.blocks = led.blocks
    BY <1>0, <1>5 DEF SoftObserves, Ledger
  <2>2. /\ hist'.nudged = hist.nudged + 1 /\ hist'.trapped = hist.trapped
        /\ hist'.nagged = hist.nagged /\ hist'.granted = hist.granted
        /\ hist.nudged \in Nat /\ HistTypes' /\ caps' = caps
    BY <1>5 DEF SoftObserves, Block, HistInv, HistTypes
  <2>3. led.obs \in Int
    BY CapTypes
  <2>4. QED
    BY <2>1, <2>2, <2>3 DEF HistInv, Charged
<1>6. CASE NewPrompt
  <2>1. /\ led'.obs = 0 /\ led'.left = led.left /\ led'.handoff = led.handoff
        /\ led'.best = led.best /\ led'.blocks = led.blocks
    BY <1>0, <1>6, StopGateConstants DEF NewPrompt, Ledger
  <2>2. /\ hist'.nudged = 0 /\ hist'.trapped = hist.trapped /\ hist'.nagged = hist.nagged
        /\ hist'.granted = hist.granted /\ HistTypes' /\ caps' = caps
    BY <1>6 DEF NewPrompt, HistInv, HistTypes
  <2>3. QED
    BY <2>1, <2>2 DEF HistInv, Charged
<1>7. CASE MinutePasses \/ Reboot
  <2>1. /\ led'.obs = led.obs /\ led'.left = led.left /\ led'.handoff = led.handoff
        /\ led'.best = led.best /\ led'.blocks = led.blocks
    BY <1>0, <1>7 DEF MinutePasses, Reboot, Ledger
  <2>2. QED
    BY <1>7, <2>1 DEF MinutePasses, Reboot, HistInv, HistTypes, Charged
<1>8. CASE \E r \in Rivals : RivalLoads(r)
  BY <1>8 DEF RivalLoads, HistInv, HistTypes, Charged
<1>9. ASSUME NEW r \in Rivals, RivalSaves(r)
      PROVE  HistInv'
  <2>1. CASE led' = led
    BY <1>9, <2>1 DEF RivalSaves, HistInv, HistTypes, Charged
  <2>2. CASE led' # led
    <3>1. hist' = [Nothing EXCEPT !.granted = led'.left] /\ caps' = caps
      BY <1>9, <2>2 DEF RivalSaves
    <3> DEFINE left == led'.left
    <3>2. left \in Int /\ hist' = [Nothing EXCEPT !.granted = left]
      BY <1>0, <3>1
    <3> HIDE DEF left
    <3>3. /\ hist'.granted = left /\ hist'.nudged = 0 /\ hist'.nagged = 0
          /\ hist'.trapped = 0 /\ HistTypes'
      BY <3>2 DEF Nothing, HistTypes
    <3>4. caps.stop > 0 => Charged(0, led'.best, led'.blocks, caps.stop - 1)
      BY <1>0, CapTypes, ChargedZero
    <3>5. left = led'.left
      BY DEF left
    <3>6. QED
      BY <1>0, <3>1, <3>3, <3>4, <3>5 DEF HistInv, Charged
  <2>3. QED
    BY <2>1, <2>2
<1>10. QED
  BY <1>1, <1>2, <1>3, <1>4, <1>5, <1>6, <1>7, <1>8, <1>9

LEMMA HistAlways == StopSpec => [](LedgerInv /\ HistInv)
<1>1. StopInit => LedgerInv
  BY FreshCoherent DEF StopInit, LedgerInv, LedgerTypes, LedgerCoherent, OpenMeans
<1>2. ASSUME StopInit
      PROVE  HistInv
  <2>1. caps.handoff \in Nat
    BY <1>1, <1>2, CapTypes DEF LedgerInv
  <2>2. hist.nagged = 0 /\ hist.nudged = 0 /\ hist.trapped = 0 /\ hist.granted = 0 /\ HistTypes
    BY <1>2 DEF StopInit, Nothing, HistTypes
  <2>3. led.left = 0 /\ led.obs = 0 /\ led.handoff = 0 /\ led.best = NoBest
    BY <1>2 DEF StopInit, Fresh
  <2>4. QED
    BY <2>1, <2>2, <2>3 DEF HistInv, Charged
<1>3. LedgerInv /\ HistInv /\ [StopNext]_stopVars => (LedgerInv /\ HistInv)'
  <2>1. ASSUME LedgerInv, HistInv, StopNext
        PROVE  LedgerInv' /\ HistInv'
    <3>1. LedgerInv'
      BY <2>1, GateStep, LoopStep, SoftStep DEF StopNext
    <3>2. QED
      BY <2>1, <3>1, GateHist, LoopHist, SoftHist DEF StopNext
  <2>2. ASSUME LedgerInv, HistInv, UNCHANGED stopVars
        PROVE  LedgerInv' /\ HistInv'
    BY <2>2 DEF LedgerInv, LedgerTypes, LedgerCoherent, OpenMeans, HistInv, HistTypes, Charged, stopVars
  <2>3. QED
    BY <2>1, <2>2
<1>4. QED
  BY <1>1, <1>2, <1>3, PTL DEF StopSpec

\* With a cap on the raw count the completion gate blocks at most a full cap less one
\* for each size an incomplete set can have, before it lets a Stop through.
THEOREM TrapAlwaysBounded == StopSpec => []TrapBounded
<1>1. LedgerInv /\ HistInv => TrapBounded
  <2>1. ASSUME LedgerInv, HistInv, caps.stop > 0
        PROVE  hist.trapped <= Cardinality(Tasks) * (caps.stop - 1)
    <3>1. /\ caps.stop - 1 \in Nat /\ led.best \in 1..NoBest /\ led.blocks \in Nat
      BY <2>1, CapTypes DEF LedgerInv
    <3>2. hist.trapped \in Nat /\ Charged(hist.trapped, led.best, led.blocks, caps.stop - 1)
      BY <2>1 DEF HistInv, HistTypes
    <3>3. QED
      BY <3>1, <3>2, ChargedBounded
  <2>2. QED
    BY <2>1 DEF TrapBounded
<1>2. QED
  BY <1>1, HistAlways, PTL

\* When no cap is set, a Stop of an incomplete board that gets as far as the loop judge
\* is let through only if one of its verdicts granted it.
THEOREM LiftsAlwaysGranted == StopSpec => []LiftsGranted
<1>1. LedgerInv /\ HistInv => LiftsGranted
  BY CapTypes DEF LedgerInv, HistInv, HistTypes, LiftsGranted
<1>2. QED
  BY <1>1, HistAlways, PTL

\* The handoff judge and the observation gate stop at their caps, whatever rival
\* writers give back.
THEOREM SoftGatesAlwaysBounded == StopSpec => []SoftGatesBounded
<1>1. LedgerInv /\ HistInv => SoftGatesBounded
  <2>1. ASSUME LedgerInv, HistInv
        PROVE  SoftGatesBounded
    <3>1. led.obs \in 0..MaxStopBlocks /\ MaxStopBlocks \in Nat /\ hist.nudged \in Nat
      BY <2>1, StopGateConstants DEF LedgerInv, LedgerTypes, Ledger, HistInv, HistTypes
    <3>2. QED
      BY <2>1, <3>1 DEF HistInv, SoftGatesBounded
  <2>2. QED
    BY <2>1
<1>2. QED
  BY <1>1, HistAlways, PTL

(***************************************************************************)
(* Asking the loop judge again.  While the history calls the counter and   *)
(* the count the judge was asked at comparable, the counter has grown by   *)
(* the blocks since: by all of them, as the history stops at RefireStep.   *)
(***************************************************************************)
RefireInv ==
  /\ hist.unasked \in Nat
  /\ hist.comparable => led.judgedAt > 0 /\ led.blocks >= led.judgedAt + hist.unasked

\* A step that leaves what the judge goes by, or restarts the history.
LEMMA RefireKept ==
  ASSUME LedgerInv, HistTypes, RefireInv,
         \/ ~hist'.comparable /\ hist'.unasked \in Nat
         \/ /\ hist'.comparable = hist.comparable /\ hist'.unasked = hist.unasked
            /\ led'.judgedAt = led.judgedAt /\ led'.blocks = led.blocks
  PROVE  RefireInv'
BY DEF RefireInv

LEMMA LoopRefires ==
  ASSUME LedgerInv, HistTypes, RefireInv,
         LoopConsume \/ LoopQuiet \/ LoopDeclines \/ LoopLifts \/ LoopRetracts
  PROVE  RefireInv'
<1> DEFINE l == Signed(led)
           a == Asked(l)
<1>1. /\ l \in Ledger /\ l.judgedAt = led.judgedAt /\ l.blocks = led.blocks
      /\ a \in Ledger /\ a.judgedAt = led.blocks /\ a.blocks = led.blocks /\ led.blocks \in Nat
  <2>1. led \in Ledger /\ open \in SUBSET Tasks
    BY DEF LedgerInv, LedgerTypes
  <2>2. l \in Ledger /\ l.judgedAt = led.judgedAt /\ l.blocks = led.blocks /\ led.blocks \in Nat
    BY <2>1 DEF Signed, Ledger
  <2> HIDE DEF l
  <2> QED BY <2>2 DEF Asked, Ledger
<1>2. ASSUME NEW n
      PROVE  /\ HistAsked(n).unasked = 0 /\ (HistAsked(n).comparable => led.blocks > 0)
             /\ DOMAIN HistAsked(n) = DOMAIN hist
             /\ "comparable" \in DOMAIN hist /\ "unasked" \in DOMAIN hist
  BY DEF HistAsked, HistTypes
<1> HIDE DEF l, a
<1>3. CASE LoopConsume
  <2>1. led' = [l EXCEPT !.left = @ - 1] /\ Let([hist EXCEPT !.granted = @ - 1])
    BY <1>3 DEF LoopConsume, l
  <2>2. led'.judgedAt = led.judgedAt /\ led'.blocks = led.blocks
    BY <1>1, <2>1 DEF Ledger
  <2>3. hist'.comparable = hist.comparable /\ hist'.unasked = hist.unasked
    BY <2>1 DEF Let, HistTypes
  <2> QED BY <2>2, <2>3, RefireKept
<1>4. CASE LoopQuiet
  <2>1. led' = l /\ hist' = hist
    BY <1>4 DEF LoopQuiet, GoTo, l
  <2> QED BY <1>1, <2>1, RefireKept
<1>5. CASE LoopDeclines
  <2>1. led' = a /\ hist' = HistAsked(0)
    BY <1>5 DEF LoopDeclines, GoTo, a, l
  <2> QED BY <1>1, <1>2, <2>1 DEF RefireInv
<1>6. CASE LoopLifts
  <2>1. PICK n \in 1..LiftMax : led' = [a EXCEPT !.left = n] /\ hist' = HistAsked(n)
    BY <1>6 DEF LoopLifts, a, l
  <2>2. led'.judgedAt = led.blocks /\ led'.blocks = led.blocks
    BY <1>1, <2>1 DEF Ledger
  <2> QED BY <1>1, <1>2, <2>1, <2>2 DEF RefireInv
<1>7. CASE LoopRetracts
  <2>1. hist' = [HistAsked(0) EXCEPT !.trapped = 0, !.comparable = FALSE]
    BY <1>7 DEF LoopRetracts, GoTo
  <2>2. ~hist'.comparable /\ hist'.unasked \in Nat
    BY <1>2, <2>1
  <2> QED BY <2>2, RefireKept
<1> QED BY <1>3, <1>4, <1>5, <1>6, <1>7

LEMMA CountRefires ==
  ASSUME LedgerInv, HistTypes, RefireInv, CountBlock \/ CountRelease
  PROVE  RefireInv'
<1> DEFINE c == Counted(led')
<1>1. led \in Ledger /\ Cardinality(open) \in Nat /\ led' = Noted(led, Cardinality(open))
  <2>1. led \in Ledger /\ open \in SUBSET Tasks
    BY DEF LedgerInv, LedgerTypes
  <2> QED BY <2>1, Sizes DEF CountBlock, CountRelease
<1>2. /\ led'.judgedAt = led.judgedAt /\ (led'.blocks = 1 \/ led'.blocks = led.blocks + 1)
      /\ led.blocks \in Nat /\ led.judgedAt \in Nat
  BY <1>1 DEF Noted, Ledger
<1>3. /\ c.comparable => hist.comparable /\ led'.blocks > led.blocks
      /\ c.unasked \in {hist.unasked, hist.unasked + 1}
      /\ "comparable" \in DOMAIN c /\ "unasked" \in DOMAIN c
  BY DEF Counted, HistTypes
<1> HIDE DEF c
<1>4. (hist'.comparable => c.comparable) /\ hist'.unasked = c.unasked
  BY <1>3 DEF CountBlock, CountRelease, Let, c
<1> QED BY <1>2, <1>3, <1>4 DEF RefireInv

LEMMA RefireInvNext ==
  ASSUME LedgerInv, HistTypes, RefireInv, [StopNext]_stopVars
  PROVE  RefireInv'
<1>0. led \in Ledger
  BY DEF LedgerInv, LedgerTypes
<1>1. CASE StopPlan \/ StopMissing \/ StopLight \/ StopFinds \/ StopIncomplete \/ HandoffSkips
           \/ HandoffCapped \/ SoftFindings \/ SoftPasses \/ HookDies \/ UNCHANGED stopVars
  <2>1. led' = led /\ (hist' = hist \/ Let(hist))
    BY <1>1 DEF StopPlan, StopMissing, StopLight, StopFinds, StopIncomplete, HandoffSkips,
                HandoffCapped, SoftFindings, SoftPasses, HookDies, Quiet, GoTo, Block, stopVars
  <2>2. hist'.comparable = hist.comparable /\ hist'.unasked = hist.unasked
    BY <2>1 DEF Let, HistTypes
  <2> QED BY <2>1, <2>2, RefireKept
<1>2. CASE StopComplete
  <2>1. ~hist'.comparable /\ hist'.unasked \in Nat
    BY <1>2 DEF StopComplete, HistTypes
  <2> QED BY <2>1, RefireKept
<1>3. CASE HandoffClears \/ HandoffBlocks \/ SoftObserves \/ NewPrompt \/ MinutePasses \/ Reboot
  <2>1. led'.judgedAt = led.judgedAt /\ led'.blocks = led.blocks
    BY <1>0, <1>3 DEF HandoffClears, HandoffBlocks, SoftObserves, NewPrompt, MinutePasses, Reboot, Ledger
  <2>2. hist'.comparable = hist.comparable /\ hist'.unasked = hist.unasked
    BY <1>3 DEF HandoffClears, HandoffBlocks, SoftObserves, NewPrompt, MinutePasses, Reboot, HistTypes
  <2> QED BY <2>1, <2>2, RefireKept
<1>4. ASSUME NEW r \in Rivals, RivalLoads(r) \/ RivalSaves(r)
      PROVE  RefireInv'
  <2>1. CASE led' = led /\ hist' = hist
    BY <2>1, RefireKept
  <2>2. CASE hist' = [Nothing EXCEPT !.granted = led'.left]
    <3>1. ~hist'.comparable /\ hist'.unasked \in Nat
      BY <2>2 DEF Nothing
    <3> QED BY <3>1, RefireKept
  <2> QED BY <1>4, <2>1, <2>2 DEF RivalLoads, RivalSaves
<1> QED BY <1>1, <1>2, <1>3, <1>4, LoopRefires, CountRefires DEF StopNext

\* Where asking again is due, only the step that asks goes on to the count.
LEMMA RefireStepAsks ==
  ASSUME LedgerInv, HistTypes, RefireInv, StopNext,
         at = "loop", at' = "count", RefireDue, hist.comparable
  PROVE  hist'.unasked = 0
<1>1. LoopQuiet \/ LoopDeclines \/ LoopLifts \/ LoopRetracts
  BY DEF StopNext, StopPlan, StopMissing, StopLight, StopFinds, StopComplete, StopIncomplete,
         LoopConsume, CountBlock, CountRelease, HandoffSkips, HandoffCapped, HandoffClears,
         HandoffBlocks, SoftFindings, SoftObserves, SoftPasses, HookDies, NewPrompt, MinutePasses,
         Reboot, RivalLoads, RivalSaves, Quiet, Passes, GoTo, Block
<1>2. /\ Signed(led).left = led.left /\ Signed(led).recent = led.recent
      /\ Signed(led).judgedAt = led.judgedAt /\ Signed(led).blocks = led.blocks
  BY DEF LedgerInv, LedgerTypes, Ledger, Signed
<1>3. led.judgedAt > 0 /\ led.blocks - led.judgedAt >= RefireStep
  BY StopGateConstants DEF RefireInv, RefireDue, LedgerInv, LedgerTypes, Ledger
<1>4. Asks(Signed(led), FALSE)
  BY <1>2, <1>3 DEF Asks, RefireDue
<1>5. ~LoopQuiet
  BY <1>4 DEF LoopQuiet
<1>6. \E n : hist' = HistAsked(n) \/ hist' = [HistAsked(n) EXCEPT !.trapped = 0, !.comparable = FALSE]
  BY <1>1, <1>5 DEF LoopDeclines, LoopLifts, LoopRetracts
<1> QED BY <1>6 DEF HistAsked, HistTypes

\* The loop judge is asked again every LOOP_JUDGE_REFIRE_STEP blocks, for any board,
\* caps and rival writers, as long as the raw count it compares with has not restarted.
THEOREM RefiresAlways == StopSpec => RefiresUnlessRestarted
<1>1. StopInit => RefireInv
  BY DEF StopInit, Nothing, RefireInv
<1>2. LedgerInv /\ HistInv => LedgerInv /\ HistTypes
  BY DEF HistInv
<1>3. LedgerInv /\ HistTypes /\ RefireInv /\ [StopNext]_stopVars => RefireInv'
  BY RefireInvNext
<1>4. LedgerInv /\ HistTypes /\ RefireInv /\ [StopNext]_stopVars
        => [at = "loop" /\ at' = "count" /\ RefireDue /\ hist.comparable => hist'.unasked = 0]_stopVars
  BY RefireStepAsks
<1> QED BY <1>1, <1>2, <1>3, <1>4, HistAlways, PTL DEF StopSpec, RefiresUnlessRestarted
=============================================================================
