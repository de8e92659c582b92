-------------------------- MODULE SpecStoreProofs --------------------------
(***************************************************************************)
(* Theorems about SpecStore, for any number of tasks and any caps: one     *)
(* adoption, the primary that waits, the arbiter of a stall, withdrawn     *)
(* tasks, no dead end, and no lost task as long as no two passes overlap.  *)
(*                                                                         *)
(* The argument: every update of a document, taken apart into what it does *)
(* to each task, Grows the board in use and leaves every saved document    *)
(* Sound; SpecInv is that, with what the Stop hook still has to judge.     *)
(***************************************************************************)
EXTENDS SpecStore, FiniteSetTheorems, TLAPS

(***************************************************************************)
(* What one update of a document does, task by task.                       *)
(***************************************************************************)
\* The tasks are the same but for their status.
Alike(d, e) ==
  /\ e \in Doc /\ e.seeded = d.seeded /\ e.heavy = d.heavy /\ e.stall = d.stall
  /\ Ids(e) = Ids(d)
  /\ \A i \in Ids(d) :
       /\ e.tasks[i].kind = d.tasks[i].kind /\ e.tasks[i].by = d.tasks[i].by
       /\ e.tasks[i].winner = d.tasks[i].winner /\ e.tasks[i].revised = d.tasks[i].revised
       /\ e.tasks[i].sigs = d.tasks[i].sigs

LEMMA TaskTypes ==
  ASSUME NEW d \in Doc
  PROVE  /\ Ids(d) = 1..Len(d.tasks) /\ Len(d.tasks) \in Nat
         /\ \A i \in Ids(d) : d.tasks[i] \in Task /\ Status(d, i) \in Statuses
<1> DEFINE list == d.tasks
<1>1. list \in Seq(Task)
  BY DEF Doc
<1>2. \A t \in Task : t.status \in Statuses
  BY DEF Task
<1> HIDE DEF list
<1>3. DOMAIN list = 1..Len(list) /\ Len(list) \in Nat /\ \A i \in DOMAIN list : list[i] \in Task
  BY <1>1
<1> QED BY <1>2, <1>3 DEF Ids, Status, list

LEMMA ListOfTasks ==
  ASSUME NEW n \in Nat, NEW f, f \in [1..n -> Task]
  PROVE  f \in Seq(Task) /\ Len(f) = n /\ DOMAIN f = 1..n
OBVIOUS

LEMMA StatusSet ==
  ASSUME NEW d \in Doc, NEW S, NEW st \in Statuses
  PROVE  LET e == SetStatus(d, S, st) IN
         /\ Alike(d, e)
         /\ \A i \in Ids(d) : Status(e, i) = IF i \in S THEN st ELSE Status(d, i)
<1> DEFINE f == [i \in Ids(d) |-> IF i \in S THEN [d.tasks[i] EXCEPT !.status = st] ELSE d.tasks[i]]
<1>1. SetStatus(d, S, st) = [d EXCEPT !.tasks = f]
  BY DEF SetStatus
<1>2. \A i \in Ids(d) : f[i] \in Task
  BY TaskTypes DEF Task
<1>3. \A i \in Ids(d) :
        /\ f[i].kind = d.tasks[i].kind /\ f[i].by = d.tasks[i].by
        /\ f[i].winner = d.tasks[i].winner /\ f[i].revised = d.tasks[i].revised
        /\ f[i].sigs = d.tasks[i].sigs
        /\ f[i].status = IF i \in S THEN st ELSE d.tasks[i].status
  BY TaskTypes DEF Task
<1>4. f \in [1..Len(d.tasks) -> Task]
  BY <1>2, TaskTypes
<1>5. f \in Seq(Task) /\ DOMAIN f = Ids(d)
  BY <1>4, TaskTypes, ListOfTasks
<1> HIDE DEF f
<1>6. [d EXCEPT !.tasks = f] \in Doc /\ [d EXCEPT !.tasks = f].tasks = f
  BY <1>5 DEF Doc
<1> QED BY <1>1, <1>3, <1>5, <1>6 DEF Alike, Ids, Status, Doc

LEMMA AlikeSets ==
  ASSUME NEW d \in Doc, NEW e, Alike(d, e)
  PROVE  /\ \A k : OfKind(e, k) = OfKind(d, k)
         /\ Frontiers(e) = Frontiers(d) /\ Adopted(e) = Adopted(d)
         /\ HasPrimary(e) <=> HasPrimary(d) 
         /\ DeclareComplete(e) <=> DeclareComplete(d)
BY DEF Alike, OfKind, Frontiers, Adopted, HasPrimary, DeclareComplete

LEMMA RevisedTask ==
  ASSUME NEW d \in Doc, NEW i \in Ids(d), d.tasks[i].sigs < MaxRevises
  PROVE  LET e == Revise(d, i) IN
         /\ e \in Doc /\ e.seeded = d.seeded /\ e.heavy = d.heavy /\ e.stall = d.stall
         /\ Ids(e) = Ids(d)
         /\ \A j \in Ids(d) \ {i} : e.tasks[j] = d.tasks[j]
         /\ e.tasks[i] = [d.tasks[i] EXCEPT !.status = "pending", !.revised = TRUE, !.sigs = @ + 1]
<1> DEFINE t == [d.tasks[i] EXCEPT !.status = "pending", !.revised = TRUE, !.sigs = @ + 1]
           f == [d.tasks EXCEPT ![i] = t]
<1>1. Revise(d, i) = [d EXCEPT !.tasks = f]
  <2>1. i \in DOMAIN d.tasks /\ d.tasks[i] \in Task /\ d \in Doc
    BY TaskTypes DEF Ids
  <2> QED BY <2>1 DEF Revise, Doc, Task
<1>2. t \in Task
  <2> DEFINE n == d.tasks[i].sigs + 1
  <2>1. d.tasks[i] \in Task /\ n \in 0..MaxRevises
    BY TaskTypes, BoardConstants DEF Task
  <2>2. t = [d.tasks[i] EXCEPT !.status = "pending", !.revised = TRUE, !.sigs = n]
    BY <2>1 DEF Task
  <2> HIDE DEF n, t
  <2> QED BY <2>1, <2>2 DEF Task, Statuses
<1> HIDE DEF t
<1>3. f \in [1..Len(d.tasks) -> Task]
  BY <1>2, TaskTypes DEF Ids
<1>4. f \in Seq(Task) /\ DOMAIN f = Ids(d)
  BY <1>3, TaskTypes, ListOfTasks
<1>5. f[i] = t /\ \A j \in Ids(d) \ {i} : f[j] = d.tasks[j]
  BY DEF Ids
<1> HIDE DEF f
<1>6. [d EXCEPT !.tasks = f] \in Doc /\ [d EXCEPT !.tasks = f].tasks = f
  BY <1>4 DEF Doc
<1> QED BY <1>1, <1>4, <1>5, <1>6 DEF Ids, Doc, t

(***************************************************************************)
(* Documents in order.                                                     *)
(***************************************************************************)
\* In every document, also halfway through an update.
Shaped(d) ==
  /\ d \in Doc
  /\ d.stall < StallCap
  /\ \A i \in Ids(d) :
       /\ d.tasks[i].kind = "primary" => d.tasks[i].by = "agent"
       /\ Status(d, i) = "blocked" => d.tasks[i].kind = "primary"
       /\ d.tasks[i].kind = "frontier" => Status(d, i) # "validated"
  /\ \A i, j \in Adopted(d) : i = j

\* In a document that was synced.
PrimariesSuperseded(d) == \A p \in OfKind(d, "primary") : Status(d, p) = "superseded"
Sound(d) == Shaped(d) /\ (Adopted(d) # {} => PrimariesSuperseded(d))

LEMMA ShapedAlike ==
  ASSUME NEW d, Shaped(d), NEW e, Alike(d, e),
         \A i \in Ids(d) :
           /\ Status(e, i) = "blocked" => d.tasks[i].kind = "primary"
           /\ d.tasks[i].kind = "frontier" => Status(e, i) # "validated"
  PROVE  Shaped(e)
<1>1. d \in Doc /\ e \in Doc /\ Ids(e) = Ids(d) /\ e.stall < StallCap
  BY DEF Shaped, Alike
<1>2. Adopted(e) = Adopted(d)
  BY <1>1, AlikeSets
<1>3. ASSUME NEW i \in Ids(e)
      PROVE  /\ e.tasks[i].kind = "primary" => e.tasks[i].by = "agent"
             /\ Status(e, i) = "blocked" => e.tasks[i].kind = "primary"
             /\ e.tasks[i].kind = "frontier" => Status(e, i) # "validated"
  BY <1>1 DEF Shaped, Alike
<1> QED BY <1>1, <1>2, <1>3 DEF Shaped

LEMMA StatusShaped ==
  ASSUME NEW d, Shaped(d), NEW S, NEW st \in Statuses,
         \A i \in S \cap Ids(d) :
           /\ st = "blocked" => d.tasks[i].kind = "primary"
           /\ d.tasks[i].kind = "frontier" => st # "validated"
  PROVE  Shaped(SetStatus(d, S, st))
<1> DEFINE e == SetStatus(d, S, st)
<1>1. /\ Alike(d, e)
      /\ \A i \in Ids(d) : Status(e, i) = IF i \in S THEN st ELSE Status(d, i)
  BY StatusSet DEF Shaped
<1> HIDE DEF e
<1>2. \A i \in Ids(d) :
        /\ Status(e, i) = "blocked" => d.tasks[i].kind = "primary"
        /\ d.tasks[i].kind = "frontier" => Status(e, i) # "validated"
  BY <1>1 DEF Shaped
<1>3. Shaped(e)
  BY <1>1, <1>2, ShapedAlike
<1> QED BY <1>3 DEF e

\* Ruling out depends on the statuses of the frontiers only.
LEMMA RuledOutAlike ==
  ASSUME NEW d \in Doc, NEW e, Alike(d, e),
         \A i \in Frontiers(d) :
           Status(d, i) \in FrontierResolved \ {"accepted_approach"}
             => Status(e, i) \in FrontierResolved \ {"accepted_approach"}
  PROVE  AllFrontiersRejected(d) => AllFrontiersRejected(e)
BY AlikeSets DEF AllFrontiersRejected

\* What sync_heavy_phase does.
LEMMA SyncTasks ==
  ASSUME NEW d, Shaped(d)
  PROVE  LET e == Sync(d) IN
         /\ Alike(d, e) /\ Sound(e)
         /\ \A i \in Ids(d) :
              \/ Status(e, i) = Status(d, i)
              \/ d.tasks[i].kind = "primary" /\ Status(e, i) = "superseded"
<1>0. d \in Doc
  BY DEF Shaped
<1>1. CASE Adopted(d) = {}
  BY <1>0, <1>1 DEF Sync, Sound, Alike
<1>2. CASE Adopted(d) # {}
  <2> DEFINE e == SetStatus(d, OfKind(d, "primary"), "superseded")
  <2>1. Sync(d) = e
    BY <1>2 DEF Sync
  <2>2. "superseded" \in Statuses
    BY DEF Statuses, Resolved, Withdrawn
  <2>3. /\ Alike(d, e)
        /\ \A i \in Ids(d) : Status(e, i) = IF i \in OfKind(d, "primary") THEN "superseded"
                                            ELSE Status(d, i)
    BY <1>0, <2>2, StatusSet
  <2>4. Shaped(e)
    BY <2>2, StatusShaped
  <2> HIDE DEF e
  <2>5. OfKind(e, "primary") = OfKind(d, "primary")
    BY <1>0, <2>3, AlikeSets
  <2>6. PrimariesSuperseded(e)
    BY <2>3, <2>5 DEF PrimariesSuperseded, OfKind
  <2> QED BY <2>1, <2>3, <2>4, <2>6 DEF Sound, OfKind
<1> QED BY <1>1, <1>2

\* What advance_heavy_phase_if_ready does: the primary, and nothing else, is
\* superseded, or freed when every frontier is ruled out.
Advanced(d, e) ==
  /\ Alike(d, e) /\ Sound(e)
  /\ AllFrontiersRejected(e) <=> AllFrontiersRejected(d)
  /\ \A i \in Ids(d) :
       \/ Status(e, i) = Status(d, i)
       \/ d.tasks[i].kind = "primary" /\ Status(e, i) = "superseded"
       \/ /\ d.tasks[i].kind = "primary" /\ Status(d, i) = "blocked"
          /\ Status(e, i) = "pending" /\ AllFrontiersRejected(e)
  /\ Phase(e) = "primary" => \A p \in OfKind(e, "primary") : Status(e, p) # "blocked"

LEMMA RuledOutSame ==
  ASSUME NEW d \in Doc, NEW e \in Doc, Alike(d, e),
         \A i \in Ids(d) : d.tasks[i].kind # "primary" => Status(e, i) = Status(d, i)
  PROVE  AllFrontiersRejected(e) <=> AllFrontiersRejected(d)
<1>1. Frontiers(e) = Frontiers(d)
  BY AlikeSets
<1>2. \A i \in Frontiers(d) : Status(e, i) = Status(d, i)
  BY DEF Frontiers, OfKind
<1> QED BY <1>1, <1>2 DEF AllFrontiersRejected

LEMMA AdvanceTasks ==
  ASSUME NEW d, Shaped(d)
  PROVE  Advanced(d, AdvancePrimary(d))
<1> DEFINE e == Sync(d)
<1>1. /\ Alike(d, e) /\ Sound(e) /\ d \in Doc /\ e \in Doc
      /\ \A i \in Ids(d) :
           \/ Status(e, i) = Status(d, i)
           \/ d.tasks[i].kind = "primary" /\ Status(e, i) = "superseded"
  BY SyncTasks DEF Shaped, Alike
<1>2. AllFrontiersRejected(e) <=> AllFrontiersRejected(d)
  BY <1>1, RuledOutSame
<1> HIDE DEF e
<1>3. CASE Phase(e) # "primary"
  <2>1. AdvancePrimary(d) = e
    BY <1>3 DEF AdvancePrimary, e
  <2> QED BY <1>1, <1>2, <1>3, <2>1 DEF Advanced
<1>4. CASE Phase(e) = "primary"
  <2> DEFINE S == {i \in OfKind(e, "primary") : Status(e, i) = "blocked"}
             f == SetStatus(e, S, "pending")
  <2>1. AdvancePrimary(d) = f
    BY <1>4 DEF AdvancePrimary, e
  <2>2. "pending" \in Statuses /\ AllFrontiersRejected(e) /\ Adopted(e) = {} /\ Shaped(e)
    BY <1>1, <1>4 DEF Statuses, Phase, Sound
  <2>3. /\ Alike(e, f)
        /\ \A i \in Ids(e) : Status(f, i) = IF i \in S THEN "pending" ELSE Status(e, i)
    BY <1>1, <2>2, StatusSet
  <2>4. Shaped(f)
    BY <1>1, <2>2, StatusShaped
  <2> HIDE DEF f
  <2>5. /\ Adopted(f) = {} /\ f \in Doc
        /\ OfKind(f, "primary") = OfKind(e, "primary")
    BY <1>1, <2>2, <2>3, AlikeSets DEF Alike
  <2>6. Alike(d, f)
    BY <1>1, <2>3 DEF Alike
  <2>7. AllFrontiersRejected(f) <=> AllFrontiersRejected(e)
    BY <1>1, <2>3, <2>5, RuledOutSame DEF OfKind, Alike
  <2>8. \A i \in Ids(d) :
          \/ Status(f, i) = Status(d, i)
          \/ d.tasks[i].kind = "primary" /\ Status(f, i) = "superseded"
          \/ /\ d.tasks[i].kind = "primary" /\ Status(d, i) = "blocked"
             /\ Status(f, i) = "pending" /\ AllFrontiersRejected(f)
    BY <1>1, <2>2, <2>3, <2>7 DEF Alike, OfKind
  <2>9. \A p \in OfKind(f, "primary") : Status(f, p) # "blocked"
    BY <2>3, <2>5 DEF OfKind
  <2> QED BY <1>2, <2>1, <2>4, <2>5, <2>6, <2>7, <2>8, <2>9 DEF Advanced, Sound
<1> QED BY <1>3, <1>4

(***************************************************************************)
(* From one document to the next.                                          *)
(***************************************************************************)
\* No task goes, turns into another or forgets its revisions.
Same(d, e) ==
  \A i \in Ids(d) :
    /\ i \in Ids(e)
    /\ e.tasks[i].kind = d.tasks[i].kind /\ e.tasks[i].by = d.tasks[i].by
    /\ d.tasks[i].sigs <= e.tasks[i].sigs

\* ... and neither does a withdrawn task come back nor a blocked one get free.
Held(d, e) ==
  /\ Same(d, e)
  /\ \A i \in Ids(d) :
       /\ Status(d, i) \in Withdrawn => Status(e, i) \in Withdrawn
       /\ Status(d, i) = "blocked" => Status(e, i) \in {"blocked"} \cup Withdrawn

\* What a blocked task may become.
StaysBlocked(d, e, i) ==
  Status(d, i) = "blocked" =>
    \/ Status(e, i) \in {"blocked"} \cup Withdrawn
    \/ AllFrontiersRejected(e)
    \/ d.tasks[i].sigs < e.tasks[i].sigs

\* ... and a blocked one gets free only by an exception the code makes, a
\* withdrawn one comes back only if a revision is waiting.
Grows(d, e) ==
  /\ Same(d, e)
  /\ \A i \in Ids(d) :
       /\ Status(d, i) \in Withdrawn /\ ~d.tasks[i].revised => Status(e, i) \in Withdrawn
       /\ StaysBlocked(d, e, i)

\* ... as the phase changes do, which never take a frontier up again.
Quiet(d, e) ==
  /\ Same(d, e)
  /\ AllFrontiersRejected(d) => AllFrontiersRejected(e)
  /\ \A i \in Ids(d) :
       /\ Status(d, i) \in Withdrawn => Status(e, i) \in Withdrawn
       /\ StaysBlocked(d, e, i)

LEMMA SigsNat ==
  ASSUME NEW d \in Doc, NEW i \in Ids(d)
  PROVE  d.tasks[i].sigs \in Nat
BY TaskTypes, BoardConstants DEF Task

LEMMA SameTrans ==
  ASSUME NEW d \in Doc, NEW e \in Doc, NEW f \in Doc, Same(d, e), Same(e, f)
  PROVE  Same(d, f)
<1> SUFFICES ASSUME NEW i \in Ids(d)
             PROVE  /\ i \in Ids(f)
                    /\ f.tasks[i].kind = d.tasks[i].kind /\ f.tasks[i].by = d.tasks[i].by
                    /\ d.tasks[i].sigs <= f.tasks[i].sigs
  BY DEF Same
<1>1. i \in Ids(e) /\ i \in Ids(f)
  BY DEF Same
<1>2. d.tasks[i].sigs \in Nat /\ e.tasks[i].sigs \in Nat /\ f.tasks[i].sigs \in Nat
  BY <1>1, SigsNat
<1> QED BY <1>1, <1>2 DEF Same

LEMMA GrowsQuiet ==
  ASSUME NEW d \in Doc, NEW e \in Doc, NEW f \in Doc, Grows(d, e), Quiet(e, f)
  PROVE  Grows(d, f)
<1>1. Same(d, e) /\ Same(e, f) /\ Same(d, f)
  BY SameTrans DEF Grows, Quiet
<1>2. ASSUME NEW i \in Ids(d)
      PROVE  /\ Status(d, i) \in Withdrawn /\ ~d.tasks[i].revised => Status(f, i) \in Withdrawn
             /\ StaysBlocked(d, f, i)
  <2>1. i \in Ids(e) /\ i \in Ids(f)
    BY <1>1, <1>2 DEF Same
  <2>2. /\ d.tasks[i].sigs \in Nat /\ e.tasks[i].sigs \in Nat /\ f.tasks[i].sigs \in Nat
        /\ d.tasks[i].sigs <= e.tasks[i].sigs /\ e.tasks[i].sigs <= f.tasks[i].sigs
    BY <1>1, <1>2, <2>1, SigsNat DEF Same
  <2>3. d.tasks[i].sigs < e.tasks[i].sigs \/ e.tasks[i].sigs < f.tasks[i].sigs
          => d.tasks[i].sigs < f.tasks[i].sigs
    BY <2>2
  <2>4. /\ Status(d, i) \in Withdrawn /\ ~d.tasks[i].revised => Status(e, i) \in Withdrawn
        /\ StaysBlocked(d, e, i)
    BY <1>2 DEF Grows
  <2>5. /\ Status(e, i) \in Withdrawn => Status(f, i) \in Withdrawn
        /\ StaysBlocked(e, f, i)
        /\ AllFrontiersRejected(e) => AllFrontiersRejected(f)
    BY <2>1 DEF Quiet
  <2> QED BY <2>3, <2>4, <2>5 DEF StaysBlocked
<1> QED BY <1>1, <1>2 DEF Grows

LEMMA QuietTrans ==
  ASSUME NEW d \in Doc, NEW e \in Doc, NEW f \in Doc, Quiet(d, e), Quiet(e, f)
  PROVE  Quiet(d, f)
<1>1. Same(d, e) /\ Same(e, f) /\ Same(d, f)
  BY SameTrans DEF Quiet
<1>2. ASSUME NEW i \in Ids(d)
      PROVE  /\ Status(d, i) \in Withdrawn => Status(f, i) \in Withdrawn
             /\ StaysBlocked(d, f, i)
  <2>1. i \in Ids(e) /\ i \in Ids(f)
    BY <1>1, <1>2 DEF Same
  <2>2. /\ d.tasks[i].sigs \in Nat /\ e.tasks[i].sigs \in Nat /\ f.tasks[i].sigs \in Nat
        /\ d.tasks[i].sigs <= e.tasks[i].sigs /\ e.tasks[i].sigs <= f.tasks[i].sigs
    BY <1>1, <1>2, <2>1, SigsNat DEF Same
  <2>3. d.tasks[i].sigs < e.tasks[i].sigs \/ e.tasks[i].sigs < f.tasks[i].sigs
          => d.tasks[i].sigs < f.tasks[i].sigs
    BY <2>2
  <2>4. /\ Status(d, i) \in Withdrawn => Status(e, i) \in Withdrawn
        /\ StaysBlocked(d, e, i)
    BY <1>2 DEF Quiet
  <2>5. /\ Status(e, i) \in Withdrawn => Status(f, i) \in Withdrawn
        /\ StaysBlocked(e, f, i)
        /\ AllFrontiersRejected(e) => AllFrontiersRejected(f)
    BY <2>1 DEF Quiet
  <2> QED BY <2>3, <2>4, <2>5 DEF StaysBlocked
<1> QED BY <1>1, <1>2 DEF Quiet

LEMMA HeldTrans ==
  ASSUME NEW d \in Doc, NEW e \in Doc, NEW f \in Doc, Held(d, e), Held(e, f)
  PROVE  Held(d, f)
<1>1. Same(d, e) /\ Same(d, f)
  BY SameTrans DEF Held
<1>2. \A i \in Ids(d) : i \in Ids(e)
  BY <1>1 DEF Same
<1>3. ASSUME NEW i \in Ids(d)
      PROVE  /\ Status(d, i) \in Withdrawn => Status(f, i) \in Withdrawn
             /\ Status(d, i) = "blocked" => Status(f, i) \in {"blocked"} \cup Withdrawn
  BY <1>2, <1>3 DEF Held
<1> QED BY <1>1, <1>3 DEF Held

LEMMA HeldGrows ==
  ASSUME NEW d, NEW e, Held(d, e)
  PROVE  Grows(d, e)
BY DEF Held, Grows, StaysBlocked

LEMMA GrowsSelf ==
  ASSUME NEW d \in Doc
  PROVE  Grows(d, d) /\ Quiet(d, d) /\ Held(d, d) /\ Same(d, d)
<1>1. Same(d, d)
  BY SigsNat DEF Same
<1> QED BY <1>1 DEF Grows, Quiet, Held, StaysBlocked

LEMMA AlikeSame ==
  ASSUME NEW d \in Doc, NEW e, Alike(d, e)
  PROVE  Same(d, e)
BY SigsNat DEF Alike, Same

LEMMA AdvancedQuiet ==
  ASSUME NEW d \in Doc, NEW e, Advanced(d, e)
  PROVE  Quiet(d, e)
<1>1. Same(d, e)
  BY AlikeSame DEF Advanced
<1>2. \A i \in Ids(d) :
        /\ Status(d, i) \in Withdrawn => Status(e, i) \in Withdrawn
        /\ StaysBlocked(d, e, i)
  BY DEF Advanced, StaysBlocked, Withdrawn
<1> QED BY <1>1, <1>2 DEF Quiet, Advanced

LEMMA SyncHeld ==
  ASSUME NEW d, Shaped(d)
  PROVE  Held(d, Sync(d)) /\ Quiet(d, Sync(d))
<1> DEFINE e == Sync(d)
<1>1. /\ Alike(d, e) /\ d \in Doc /\ e \in Doc
      /\ \A i \in Ids(d) :
           \/ Status(e, i) = Status(d, i)
           \/ d.tasks[i].kind = "primary" /\ Status(e, i) = "superseded"
  BY SyncTasks DEF Shaped, Alike
<1> HIDE DEF e
<1>2. Same(d, e) /\ (AllFrontiersRejected(e) <=> AllFrontiersRejected(d))
  BY <1>1, AlikeSame, RuledOutSame
<1>3. Held(d, e) /\ Quiet(d, e)
  BY <1>1, <1>2 DEF Held, Quiet, StaysBlocked, Withdrawn
<1> QED BY <1>3 DEF e

LEMMA StatusHeld ==
  ASSUME NEW d \in Doc, NEW S, NEW st \in Statuses,
         \A i \in S \cap Ids(d) :
           /\ Status(d, i) \in Withdrawn => st \in Withdrawn
           /\ Status(d, i) = "blocked" => st \in Withdrawn
  PROVE  Held(d, SetStatus(d, S, st))
<1> DEFINE e == SetStatus(d, S, st)
<1>1. /\ Alike(d, e)
      /\ \A i \in Ids(d) : Status(e, i) = IF i \in S THEN st ELSE Status(d, i)
  BY StatusSet
<1> HIDE DEF e
<1>2. Same(d, e)
  BY <1>1, AlikeSame
<1>3. Held(d, e)
  BY <1>1, <1>2 DEF Held
<1> QED BY <1>3 DEF e

(***************************************************************************)
(* Single tasks.                                                           *)
(***************************************************************************)
LEMMA OneTask ==
  ASSUME NEW d \in Doc, NEW i \in Ids(d), NEW t \in Task
  PROVE  LET e == [d EXCEPT !.tasks = [d.tasks EXCEPT ![i] = t]] IN
         /\ e \in Doc /\ e.seeded = d.seeded /\ e.heavy = d.heavy /\ e.stall = d.stall
         /\ Ids(e) = Ids(d) /\ e.tasks[i] = t
         /\ \A j \in Ids(d) \ {i} : e.tasks[j] = d.tasks[j]
<1> DEFINE f == [d.tasks EXCEPT ![i] = t]
<1>1. f \in [1..Len(d.tasks) -> Task]
  BY TaskTypes DEF Ids
<1>2. f \in Seq(Task) /\ DOMAIN f = Ids(d)
  BY <1>1, TaskTypes, ListOfTasks
<1>3. f[i] = t /\ \A j \in Ids(d) \ {i} : f[j] = d.tasks[j]
  BY DEF Ids
<1> HIDE DEF f
<1>4. [d EXCEPT !.tasks = f] \in Doc /\ [d EXCEPT !.tasks = f].tasks = f
  BY <1>2 DEF Doc
<1> QED BY <1>2, <1>3, <1>4 DEF Ids, Doc, f

LEMMA ReviseDoes ==
  ASSUME NEW d, Shaped(d), NEW i \in Revisable(d)
  PROVE  LET e == Revise(d, i) IN
         /\ Shaped(e) /\ Grows(d, e) /\ e.stall = d.stall /\ Adopted(e) = Adopted(d)
         /\ Sound(d) => Sound(e)
         /\ Ids(e) = Ids(d) /\ Status(e, i) = "pending"
         /\ \A j \in Ids(d) : e.tasks[j].kind = d.tasks[j].kind
         /\ \A j \in Ids(d) \ {i} : e.tasks[j] = d.tasks[j]
<1> DEFINE e == Revise(d, i)
<1>1. d \in Doc /\ i \in Ids(d) /\ Status(d, i) \notin Withdrawn /\ d.tasks[i].sigs < MaxRevises
  BY DEF Shaped, Revisable
<1>2. /\ e \in Doc /\ e.stall = d.stall /\ Ids(e) = Ids(d)
      /\ \A j \in Ids(d) \ {i} : e.tasks[j] = d.tasks[j]
      /\ e.tasks[i] = [d.tasks[i] EXCEPT !.status = "pending", !.revised = TRUE, !.sigs = @ + 1]
  BY <1>1, RevisedTask
<1> HIDE DEF e
<1>3. /\ e.tasks[i].kind = d.tasks[i].kind /\ e.tasks[i].by = d.tasks[i].by
      /\ e.tasks[i].winner = d.tasks[i].winner /\ e.tasks[i].sigs = d.tasks[i].sigs + 1
      /\ e.tasks[i].status = "pending"
  BY <1>1, <1>2, TaskTypes DEF Task
<1>4. d.tasks[i].sigs \in Nat /\ d.tasks[i].sigs < d.tasks[i].sigs + 1
  BY <1>1, SigsNat
<1>5. \A j \in Ids(d) : d.tasks[j].sigs <= e.tasks[j].sigs
  <2> SUFFICES ASSUME NEW j \in Ids(d)
               PROVE  d.tasks[j].sigs <= e.tasks[j].sigs
    OBVIOUS
  <2>1. CASE j = i
    BY <1>3, <1>4, <2>1
  <2>2. CASE j # i
    BY <1>1, <1>2, <2>2, SigsNat
  <2> QED BY <2>1, <2>2
<1>6. Same(d, e) /\ Status(e, i) = "pending"
  BY <1>2, <1>3, <1>5 DEF Same, Status
<1>7. Adopted(e) = Adopted(d) /\ OfKind(e, "primary") = OfKind(d, "primary")
  <2>1. Ids(e) = Ids(d) /\ \A j \in Ids(d) : e.tasks[j].kind = d.tasks[j].kind /\ e.tasks[j].winner = d.tasks[j].winner
    BY <1>2, <1>3
  <2> QED BY <2>1 DEF Adopted, Frontiers, OfKind
<1>8. Shaped(e)
  <2>1. ASSUME NEW j \in Ids(e)
        PROVE  /\ e.tasks[j].kind = "primary" => e.tasks[j].by = "agent"
               /\ Status(e, j) = "blocked" => e.tasks[j].kind = "primary"
               /\ e.tasks[j].kind = "frontier" => Status(e, j) # "validated"
    <3>1. CASE j = i
      BY <1>1, <1>3, <1>6, <3>1 DEF Shaped
    <3>2. CASE j # i
      BY <1>2, <2>1, <3>2 DEF Shaped, Status
    <3> QED BY <3>1, <3>2
  <2>2. e.stall < StallCap /\ \A j, k \in Adopted(e) : j = k
    BY <1>2, <1>7 DEF Shaped
  <2> QED BY <1>2, <2>1, <2>2 DEF Shaped
<1>9. Grows(d, e)
  <2>1. d.tasks[i].sigs < e.tasks[i].sigs
    BY <1>3, <1>4
  <2> QED BY <1>1, <1>2, <1>6, <2>1 DEF Grows, StaysBlocked, Status
<1>10. ASSUME Sound(d)
       PROVE  Sound(e)
  <2> SUFFICES ASSUME Adopted(e) # {}, NEW p \in OfKind(e, "primary")
               PROVE  Status(e, p) = "superseded"
    BY <1>8 DEF Sound, PrimariesSuperseded
  <2>1. Status(d, p) = "superseded" /\ p \in Ids(d)
    BY <1>7, <1>10 DEF Sound, PrimariesSuperseded, OfKind
  <2>2. p # i
    BY <1>1, <2>1 DEF Withdrawn
  <2> QED BY <1>2, <2>1, <2>2 DEF Status
<1>11. \A j \in Ids(d) : e.tasks[j].kind = d.tasks[j].kind
  BY <1>6 DEF Same
<1> QED BY <1>2, <1>6, <1>7, <1>8, <1>9, <1>10, <1>11 DEF e

LEMMA UnflagDoes ==
  ASSUME NEW d, Shaped(d), NEW i \in Ids(d)
  PROVE  LET e == Unflag(d, i) IN
         /\ Shaped(e) /\ Held(d, e) /\ e.stall = d.stall /\ Ids(e) = Ids(d)
         /\ Adopted(e) = Adopted(d)
         /\ \A j \in Ids(d) : Status(e, j) = Status(d, j) /\ e.tasks[j].kind = d.tasks[j].kind
         /\ \A j \in Ids(d) \ {i} : e.tasks[j] = d.tasks[j]
<1> DEFINE e == Unflag(d, i)
           t == [d.tasks[i] EXCEPT !.revised = FALSE]
<1>1. d \in Doc /\ t \in Task
  <2>1. d \in Doc
    BY DEF Shaped
  <2>2. d.tasks[i] \in Task
    BY <2>1, TaskTypes
  <2> QED BY <2>1, <2>2 DEF Task
<1>2. e = [d EXCEPT !.tasks = [d.tasks EXCEPT ![i] = t]]
  BY <1>1 DEF Unflag, Doc, Ids
<1>3. /\ t.kind = d.tasks[i].kind /\ t.by = d.tasks[i].by /\ t.winner = d.tasks[i].winner
      /\ t.sigs = d.tasks[i].sigs /\ t.status = d.tasks[i].status
  BY <1>1, TaskTypes DEF Task
<1> HIDE DEF e, t
<1>4. /\ e \in Doc /\ e.stall = d.stall /\ Ids(e) = Ids(d) /\ e.tasks[i] = t
      /\ \A j \in Ids(d) \ {i} : e.tasks[j] = d.tasks[j]
  BY <1>1, <1>2, OneTask
<1>5. \A j \in Ids(d) :
        /\ e.tasks[j].kind = d.tasks[j].kind /\ e.tasks[j].by = d.tasks[j].by
        /\ e.tasks[j].winner = d.tasks[j].winner /\ e.tasks[j].sigs = d.tasks[j].sigs
        /\ Status(e, j) = Status(d, j)
  BY <1>3, <1>4 DEF Status
<1>6. Same(d, e)
  BY <1>1, <1>4, <1>5, SigsNat DEF Same
<1>7. Adopted(e) = Adopted(d)
  BY <1>4, <1>5 DEF Adopted, Frontiers, OfKind
<1>8. Shaped(e)
  BY <1>4, <1>5, <1>7 DEF Shaped
<1>9. Held(d, e)
  BY <1>5, <1>6 DEF Held
<1> QED BY <1>4, <1>5, <1>7, <1>8, <1>9 DEF e

\* What concerns the list of tasks only.
LEMMA SameList ==
  ASSUME NEW d, NEW e, e.tasks = d.tasks
  PROVE  /\ Ids(e) = Ids(d) /\ (\A i : Status(e, i) = Status(d, i))
         /\ (\A k : OfKind(e, k) = OfKind(d, k)) /\ Frontiers(e) = Frontiers(d)
         /\ Adopted(e) = Adopted(d) /\ Accepted(e) = Accepted(d) /\ Viable(e) = Viable(d)
         /\ (HasPrimary(e) <=> HasPrimary(d))
         /\ (AllFrontiersRejected(e) <=> AllFrontiersRejected(d))
         /\ (AnyFrontierAccepted(e) <=> AnyFrontierAccepted(d))
BY DEF Ids, Status, OfKind, Frontiers, Adopted, Accepted, Viable, HasPrimary,
       AllFrontiersRejected, AnyFrontierAccepted

LEMMA SameListDoes ==
  ASSUME NEW d, Shaped(d), NEW e \in Doc, e.tasks = d.tasks, e.stall < StallCap
  PROVE  Shaped(e) /\ (Sound(d) => Sound(e)) /\ Held(d, e) /\ Quiet(d, e)
<1>1. d \in Doc /\ Ids(e) = Ids(d) /\ Adopted(e) = Adopted(d)
      /\ OfKind(e, "primary") = OfKind(d, "primary")
      /\ \A i : Status(e, i) = Status(d, i)
  BY SameList DEF Shaped
<1>2. Shaped(e)
  BY <1>1 DEF Shaped
<1>3. Sound(d) => Sound(e)
  BY <1>1, <1>2 DEF Sound, PrimariesSuperseded
<1>4. Same(d, e)
  BY <1>1, SigsNat DEF Same
<1> QED BY <1>1, <1>2, <1>3, <1>4, SameList DEF Held, Quiet, StaysBlocked

\* A task that is appended.
Fresh(t) ==
  /\ t \in Task /\ ~t.winner
  /\ t.kind = "primary" => t.by = "agent"
  /\ t.status = "blocked" => t.kind = "primary"
  /\ t.kind = "frontier" => t.status # "validated"

\* The document e is d with one more task t.
OneMore(d, t, e) ==
  /\ e \in Doc /\ e.stall = d.stall
  /\ \A i \in Ids(d) : i \in Ids(e) /\ e.tasks[i] = d.tasks[i]
  /\ \A i \in Ids(e) \ Ids(d) : e.tasks[i] = t

LEMMA AppendDoc ==
  ASSUME NEW d \in Doc, NEW t \in Task, NEW h \in BOOLEAN,
         NEW e, e = [d EXCEPT !.heavy = h, !.tasks = Append(d.tasks, t)]
  PROVE  OneMore(d, t, e)
<1> DEFINE list == d.tasks
           longer == Append(list, t)
           n == Len(list) + 1
<1>1. list \in Seq(Task) /\ DOMAIN list = 1..Len(list) /\ Len(list) \in Nat
  BY TaskTypes DEF Doc, Ids
<1>2. e = [d EXCEPT !.heavy = h, !.tasks = longer]
  OBVIOUS
<1> HIDE DEF list
<1>3. /\ longer \in Seq(Task) /\ longer[n] = t
      /\ \A i \in 1..Len(list) : longer[i] = list[i]
      /\ DOMAIN longer = 1..n
  BY <1>1
<1> HIDE DEF longer
<1>4. e \in Doc /\ e.tasks = longer /\ e.stall = d.stall
  BY <1>2, <1>3 DEF Doc
<1>5. Ids(d) = 1..Len(list) /\ Ids(e) = 1..n
  BY <1>1, <1>3, <1>4 DEF Ids, list
<1>6. \A i \in Ids(d) : i \in Ids(e) /\ longer[i] = list[i]
  BY <1>1, <1>3, <1>5
<1>7. \A i \in Ids(e) \ Ids(d) : longer[i] = t
  BY <1>1, <1>3, <1>5
<1>8. \A i \in Ids(d) : i \in Ids(e) /\ e.tasks[i] = d.tasks[i]
  BY <1>4, <1>6 DEF list
<1>9. \A i \in Ids(e) \ Ids(d) : e.tasks[i] = t
  BY <1>4, <1>7
<1> QED BY <1>4, <1>8, <1>9 DEF OneMore

LEMMA AppendDoes ==
  ASSUME NEW d, Shaped(d), NEW t, Fresh(t), NEW e, OneMore(d, t, e)
  PROVE  /\ Shaped(e) /\ Held(d, e)
         /\ Adopted(e) = Adopted(d)
<1>1. d \in Doc /\ e \in Doc /\ e.stall = d.stall
  BY DEF Shaped, OneMore
<1>2. /\ \A i \in Ids(d) : i \in Ids(e) /\ e.tasks[i] = d.tasks[i]
      /\ \A i \in Ids(e) \ Ids(d) : e.tasks[i] = t
  BY DEF OneMore
<1>3. \A i \in Ids(d) : Status(e, i) = Status(d, i)
  BY <1>2 DEF Status
<1>4. \A i \in Adopted(e) : i \in Adopted(d)
  <2> SUFFICES ASSUME NEW i \in Adopted(e)
               PROVE  i \in Adopted(d)
    OBVIOUS
  <2>1. i \in Ids(e) /\ e.tasks[i].kind = "frontier" /\ e.tasks[i].winner
    BY DEF Adopted, Frontiers, OfKind
  <2>2. i \in Ids(d)
    BY <1>2, <2>1 DEF Fresh
  <2> QED BY <1>2, <2>1, <2>2 DEF Adopted, Frontiers, OfKind
<1>5. \A i \in Adopted(d) : i \in Adopted(e)
  BY <1>2 DEF Adopted, Frontiers, OfKind
<1>6. Shaped(e)
  <2>1. ASSUME NEW i \in Ids(e)
        PROVE  /\ e.tasks[i].kind = "primary" => e.tasks[i].by = "agent"
               /\ Status(e, i) = "blocked" => e.tasks[i].kind = "primary"
               /\ e.tasks[i].kind = "frontier" => Status(e, i) # "validated"
    <3>1. CASE i \in Ids(d)
      BY <1>2, <1>3, <3>1 DEF Shaped
    <3>2. CASE i \notin Ids(d)
      BY <1>2, <2>1, <3>2 DEF Fresh, Status
    <3> QED BY <3>1, <3>2
  <2> QED BY <1>1, <1>4, <2>1 DEF Shaped
<1>7. Same(d, e)
  BY <1>1, <1>2, SigsNat DEF Same
<1>8. Held(d, e)
  BY <1>3, <1>7 DEF Held
<1>9. Adopted(e) = Adopted(d)
  BY <1>4, <1>5
<1> QED BY <1>6, <1>8, <1>9

LEMMA FreshTasks ==
  /\ \A by \in {"agent", "judge"} : Fresh(NewTask("requirement", "pending", by))
                                    /\ Fresh(NewTask("frontier", "pending", by))
  /\ Fresh(NewTask("primary", "blocked", "agent"))
BY BoardConstants DEF Fresh, NewTask, Task, Statuses

(***************************************************************************)
(* The operators of the board.                                             *)
(***************************************************************************)
LEMMA SoundKept ==
  ASSUME NEW d, Sound(d), NEW e, Shaped(e), Adopted(e) = Adopted(d),
         \A p \in OfKind(e, "primary") :
           p \in OfKind(d, "primary") /\ (Status(d, p) = "superseded" => Status(e, p) = "superseded")
  PROVE  Sound(e)
BY DEF Sound, PrimariesSuperseded

LEMMA AdoptDoes ==
  ASSUME NEW d, Shaped(d), Adopted(d) = {}, NEW w \in Accepted(d)
  PROVE  LET e == Adopt(d, w) IN
         Shaped(e) /\ Quiet(d, e) /\ e.stall = d.stall /\ Adopted(e) = {w}
<1> DEFINE x == SetStatus(d, Accepted(d) \ {w}, "rejected_approach")
           t == [x.tasks[w] EXCEPT !.winner = TRUE]
           e == Adopt(d, w)
<1>1. d \in Doc /\ w \in Ids(d) /\ w \in Frontiers(d) /\ Status(d, w) = "accepted_approach"
  BY DEF Shaped, Accepted, Frontiers, OfKind
<1>2. "rejected_approach" \in Statuses
  BY DEF Statuses, Outcomes
<1>3. \A i \in Accepted(d) :
        i \in Ids(d) /\ d.tasks[i].kind = "frontier" /\ Status(d, i) = "accepted_approach"
  BY DEF Accepted, Frontiers, OfKind
<1>4. /\ Alike(d, x)
      /\ \A i \in Ids(d) :
           Status(x, i) = IF i \in Accepted(d) \ {w} THEN "rejected_approach" ELSE Status(d, i)
  BY <1>1, <1>2, StatusSet
<1>5. Held(d, x)
  BY <1>1, <1>2, <1>3, StatusHeld DEF Withdrawn
<1>6. Shaped(x)
  BY <1>2, <1>3, StatusShaped
<1>7. e = [x EXCEPT !.tasks[w].winner = TRUE]
  BY DEF Adopt
<1> HIDE DEF x, e
<1>8. x \in Doc /\ Ids(x) = Ids(d) /\ Adopted(x) = {} /\ x.stall = d.stall
  BY <1>1, <1>4, AlikeSets DEF Alike
<1>9. /\ t \in Task /\ t.kind = x.tasks[w].kind /\ t.by = x.tasks[w].by /\ t.winner = TRUE
      /\ t.status = x.tasks[w].status /\ t.sigs = x.tasks[w].sigs
  <2>1. x.tasks[w] \in Task
    BY <1>1, <1>8, TaskTypes
  <2> QED BY <2>1 DEF Task
<1>10. e = [x EXCEPT !.tasks = [x.tasks EXCEPT ![w] = t]]
  BY <1>1, <1>7, <1>8 DEF Doc, Ids
<1> HIDE DEF t
<1>11. /\ e \in Doc /\ e.stall = d.stall /\ Ids(e) = Ids(d) /\ e.tasks[w] = t
       /\ \A j \in Ids(d) \ {w} : e.tasks[j] = x.tasks[j]
  BY <1>1, <1>8, <1>9, <1>10, OneTask
<1>12. \A j \in Ids(d) :
         /\ e.tasks[j].kind = x.tasks[j].kind /\ e.tasks[j].by = x.tasks[j].by
         /\ e.tasks[j].sigs = x.tasks[j].sigs /\ Status(e, j) = Status(x, j)
  BY <1>9, <1>11 DEF Status
<1>13. Adopted(e) = {w}
  <2>1. w \in Adopted(e)
    BY <1>1, <1>3, <1>4, <1>9, <1>11, <1>12 DEF Adopted, Frontiers, OfKind, Alike
  <2>2. ASSUME NEW j \in Adopted(e), j # w
        PROVE  FALSE
    <3>1. j \in Ids(d) /\ e.tasks[j].kind = "frontier" /\ e.tasks[j].winner
      BY <1>11, <2>2 DEF Adopted, Frontiers, OfKind
    <3>2. j \in Adopted(x)
      BY <1>8, <1>11, <2>2, <3>1 DEF Adopted, Frontiers, OfKind
    <3> QED BY <1>8, <3>2
  <2> QED BY <2>1, <2>2
<1>14. Shaped(e)
  BY <1>6, <1>8, <1>11, <1>12, <1>13 DEF Shaped
<1>15. Same(d, e)
  BY <1>5, <1>8, <1>11, <1>12 DEF Same, Held
<1>16. ~AllFrontiersRejected(d)
  BY <1>1 DEF AllFrontiersRejected
<1>17. Quiet(d, e)
  BY <1>5, <1>12, <1>15, <1>16 DEF Quiet, Held, StaysBlocked
<1> QED BY <1>11, <1>13, <1>14, <1>17 DEF e

\* Finalizing adopts, or finds nothing to adopt.
LEMMA FinalizedDoes ==
  ASSUME NEW d, Sound(d), NEW e \in Finalized(d)
  PROVE  /\ Sound(e) /\ Quiet(d, e) /\ e.stall = d.stall /\ e \in Doc
         /\ Adopted(e) = {} => e = d /\ (~AllFrontiersTerminal(d) \/ Accepted(d) = {})
<1>1. Shaped(d) /\ d \in Doc
  BY DEF Sound, Shaped
<1>2. CASE Adopted(d) # {}
  <2>1. e = Sync(d)
    BY <1>2 DEF Finalized
  <2>2. Alike(d, e) /\ Sound(e) /\ Quiet(d, e)
    BY <1>1, <2>1, SyncTasks, SyncHeld
  <2>3. Adopted(e) = Adopted(d) /\ e.stall = d.stall /\ e \in Doc
    BY <1>1, <2>2, AlikeSets DEF Alike
  <2> QED BY <1>2, <2>2, <2>3
<1>3. CASE Adopted(d) = {} /\ (~AllFrontiersTerminal(d) \/ Accepted(d) = {})
  <2>1. e = d
    BY <1>3 DEF Finalized
  <2> QED BY <1>1, <1>3, <2>1, GrowsSelf
<1>4. CASE Adopted(d) = {} /\ AllFrontiersTerminal(d) /\ Accepted(d) # {}
  <2>1. PICK w \in Accepted(d) : e = AdvancePrimary(Adopt(d, w))
    BY <1>4 DEF Finalized
  <2> DEFINE x == Adopt(d, w)
  <2>2. Shaped(x) /\ Quiet(d, x) /\ x.stall = d.stall /\ Adopted(x) = {w}
    BY <1>1, <1>4, AdoptDoes
  <2> HIDE DEF x
  <2>3. Advanced(x, e) /\ x \in Doc
    BY <2>1, <2>2, AdvanceTasks DEF x, Shaped
  <2>4. Sound(e) /\ Alike(x, e) /\ e \in Doc /\ e.stall = x.stall
    BY <2>3 DEF Advanced, Alike
  <2>5. Adopted(e) = {w}
    BY <2>2, <2>3, <2>4, AlikeSets
  <2>6. Quiet(d, e)
    BY <1>1, <2>2, <2>3, <2>4, AdvancedQuiet, QuietTrans
  <2> QED BY <2>2, <2>4, <2>5, <2>6
<1> QED BY <1>2, <1>3, <1>4

LEMMA SettledDoes ==
  ASSUME NEW d, Sound(d), NEW e \in Settled(d)
  PROVE  Sound(e) /\ Quiet(d, e) /\ e.stall = d.stall /\ e \in Doc
<1>1. d \in Doc
  BY DEF Sound, Shaped
<1>2. CASE AllFrontiersTerminal(d)
  BY <1>2, FinalizedDoes DEF Settled
<1>3. CASE ~AllFrontiersTerminal(d)
  BY <1>1, <1>3, GrowsSelf DEF Settled
<1> QED BY <1>2, <1>3

\* The arbiter waits, counting, or rules the viable frontiers out.
LEMMA ResolveStallDoes ==
  ASSUME NEW d, Sound(d)
  PROVE  LET e == ResolveStall(d) IN
         /\ Sound(e) /\ Quiet(d, e) /\ e \in Doc
         /\ e.stall = IF Stalled(e) THEN d.stall + 1 ELSE 0
<1> DEFINE e == ResolveStall(d)
<1>1. /\ Shaped(d) /\ d \in Doc /\ d.stall \in Nat /\ d.stall < StallCap
      /\ StallCap \in Nat /\ 0 < StallCap
  BY BoardConstants DEF Sound, Shaped, Doc
<1>2. \A n \in Nat : n < StallCap =>
        /\ [d EXCEPT !.stall = n] \in Doc
        /\ [d EXCEPT !.stall = n].tasks = d.tasks /\ [d EXCEPT !.stall = n].stall = n
        /\ [d EXCEPT !.stall = n].seeded = d.seeded
  BY <1>1 DEF Doc
<1>3. \A x : x.tasks = d.tasks /\ x.seeded = d.seeded => (Stalled(x) <=> Stalled(d))
  <2> SUFFICES ASSUME NEW x, x.tasks = d.tasks, x.seeded = d.seeded
               PROVE  Stalled(x) <=> Stalled(d)
    OBVIOUS
  <2>1. /\ Frontiers(x) = Frontiers(d) /\ (HasPrimary(x) <=> HasPrimary(d))
        /\ (AnyFrontierAccepted(x) <=> AnyFrontierAccepted(d)) /\ Viable(x) = Viable(d)
        /\ Adopted(x) = Adopted(d) /\ (AllFrontiersRejected(x) <=> AllFrontiersRejected(d))
    BY SameList
  <2>2. Phase(x) = Phase(d)
    BY <2>1 DEF Phase, DeclareComplete
  <2> QED BY <2>1, <2>2 DEF Stalled
<1>4. CASE ~Stalled(d)
  <2>1. e = [d EXCEPT !.stall = 0]
    BY <1>4 DEF ResolveStall
  <2> HIDE DEF e
  <2>2. e \in Doc /\ e.tasks = d.tasks /\ e.stall = 0 /\ ~Stalled(e)
    BY <1>1, <1>2, <1>3, <1>4, <2>1
  <2>3. Sound(e) /\ Quiet(d, e)
    BY <1>1, <2>2, SameListDoes
  <2> QED BY <2>2, <2>3 DEF e
<1>5. CASE Stalled(d) /\ d.stall + 1 < StallCap
  <2>1. e = [d EXCEPT !.stall = d.stall + 1]
    BY <1>5 DEF ResolveStall
  <2> HIDE DEF e
  <2> DEFINE n == d.stall + 1
  <2>2. n \in Nat /\ n < StallCap /\ e = [d EXCEPT !.stall = n]
    BY <1>1, <1>5, <2>1
  <2> HIDE DEF n
  <2>3. e \in Doc /\ e.tasks = d.tasks /\ e.stall = n /\ e.seeded = d.seeded
    BY <1>2, <2>2
  <2>4. Stalled(e)
    BY <1>3, <1>5, <2>3
  <2>5. Sound(e) /\ Quiet(d, e)
    BY <1>1, <2>2, <2>3, SameListDoes
  <2> QED BY <2>3, <2>4, <2>5 DEF e, n
<1>6. CASE Stalled(d) /\ ~(d.stall + 1 < StallCap)
  <2> DEFINE x == SetStatus(d, Viable(d), "rejected_approach")
             y == [x EXCEPT !.stall = 0]
  <2>1. e = AdvancePrimary(y)
    BY <1>6 DEF ResolveStall
  <2>2. "rejected_approach" \in Statuses
    BY DEF Statuses, Outcomes
  <2>3. \A i \in Viable(d) :
          i \in Ids(d) /\ d.tasks[i].kind = "frontier" /\ Status(d, i) = "still_viable"
    BY DEF Viable, Frontiers, OfKind
  <2>4. /\ Alike(d, x)
        /\ \A i \in Ids(d) :
             Status(x, i) = IF i \in Viable(d) THEN "rejected_approach" ELSE Status(d, i)
    BY <1>1, <2>2, StatusSet
  <2>5. Held(d, x) /\ Shaped(x)
    BY <1>1, <2>2, <2>3, StatusHeld, StatusShaped DEF Withdrawn
  <2> HIDE DEF e, x
  <2>6. Quiet(d, x)
    <3>1. \A i \in Frontiers(d) :
            Status(d, i) \in FrontierResolved \ {"accepted_approach"}
              => Status(x, i) \in FrontierResolved \ {"accepted_approach"}
      BY <2>4 DEF Frontiers, OfKind, FrontierResolved
    <3>2. AllFrontiersRejected(d) => AllFrontiersRejected(x)
      BY <1>1, <2>4, <3>1, RuledOutAlike
    <3> QED BY <2>5, <3>2 DEF Quiet, Held, StaysBlocked
  <2>7. y \in Doc /\ y.tasks = x.tasks /\ y.stall = 0 /\ x \in Doc
    BY <1>1, <2>4 DEF Alike, Doc
  <2> HIDE DEF y
  <2>8. Shaped(y) /\ Quiet(x, y)
    BY <1>1, <2>5, <2>7, SameListDoes
  <2>9. Advanced(y, e)
    BY <2>1, <2>8, AdvanceTasks
  <2>10. Sound(e) /\ Alike(y, e) /\ e \in Doc /\ e.stall = 0
    BY <2>7, <2>9 DEF Advanced, Alike
  <2>11. Quiet(d, e)
    <3>1. Quiet(d, y)
      BY <1>1, <2>6, <2>7, <2>8, QuietTrans
    <3> QED BY <1>1, <2>7, <2>9, <2>10, <3>1, AdvancedQuiet, QuietTrans
  <2>12. Viable(e) = {}
    <3> SUFFICES ASSUME NEW i \in Frontiers(e), Status(e, i) = "still_viable"
                 PROVE  FALSE
      BY DEF Viable
    <3>1. i \in Ids(y) /\ y.tasks[i].kind = "frontier" /\ Status(y, i) = "still_viable"
      BY <2>9, <2>10 DEF Advanced, Alike, Frontiers, OfKind
    <3>2. i \in Ids(d) /\ d.tasks[i].kind = "frontier" /\ Status(x, i) = "still_viable"
      BY <2>4, <2>7, <3>1 DEF Alike, Ids, Status
    <3>3. i \in Viable(d)
      BY <2>4, <3>2 DEF Viable, Frontiers, OfKind
    <3> QED BY <2>4, <3>2, <3>3
  <2>13. ~Stalled(e)
    BY <2>12 DEF Stalled
  <2> QED BY <2>10, <2>11, <2>13 DEF e
<1> QED BY <1>4, <1>5, <1>6

\* What the judge's list of superseded tasks and its new requirement do.
LEMMA AddJudgedDoes ==
  ASSUME NEW d, Shaped(d), NEW S \in SUBSET Supersedable(d)
  PROVE  LET e == AddJudged(d, S) IN
         /\ Shaped(e) /\ Held(d, e) /\ e.stall = d.stall /\ Adopted(e) = Adopted(d)
         /\ Sound(d) => Sound(e)
         /\ \A i \in Ids(d) : Status(e, i) \in {Status(d, i)} \cup Withdrawn
<1> DEFINE mine == {i \in S : d.tasks[i].by = "judge"}
           x == SetStatus(d, mine, "retracted")
           y == SetStatus(x, S \ mine, "superseded")
           t == NewTask("requirement", "pending", "judge")
           e == AddJudged(d, S)
<1>1. /\ d \in Doc /\ Withdrawn \subseteq Statuses
      /\ \A i \in S : i \in Ids(d) /\ Status(d, i) \in {"pending", "failed"}
  BY DEF Shaped, Supersedable, Withdrawn, Statuses, Resolved
<1>2. /\ "retracted" \in Withdrawn /\ "superseded" \in Withdrawn
      /\ "blocked" \notin Withdrawn /\ "validated" \notin Withdrawn
  BY DEF Withdrawn
<1>3. /\ Alike(d, x)
      /\ \A i \in Ids(d) : Status(x, i) = IF i \in mine THEN "retracted" ELSE Status(d, i)
  BY <1>1, <1>2, StatusSet
<1>4. Shaped(x) /\ Held(d, x)
  BY <1>1, <1>2, StatusShaped, StatusHeld
<1>5. e = [y EXCEPT !.tasks = Append(y.tasks, t)]
  BY DEF AddJudged, Supersede
<1> HIDE DEF x, mine, e
<1>6. x \in Doc
  BY <1>3 DEF Alike
<1>7. /\ Alike(x, y)
      /\ \A i \in Ids(x) : Status(y, i) = IF i \in S \ mine THEN "superseded" ELSE Status(x, i)
  BY <1>1, <1>2, <1>6, StatusSet
<1>8. Shaped(y) /\ Held(x, y)
  BY <1>1, <1>2, <1>4, <1>6, StatusShaped, StatusHeld
<1> HIDE DEF y
<1>9. /\ y \in Doc /\ y.heavy \in BOOLEAN /\ y.stall = d.stall /\ Adopted(y) = Adopted(d)
      /\ Ids(y) = Ids(d)
  BY <1>1, <1>3, <1>6, <1>7, AlikeSets DEF Alike, Doc
<1>10. Fresh(t) /\ t.kind = "requirement"
  BY FreshTasks DEF NewTask
<1> HIDE DEF t
<1>11. OneMore(y, t, e)
  <2> DEFINE l == Append(y.tasks, t)
  <2>1. e = [y EXCEPT !.tasks = l]
    BY <1>5
  <2> HIDE DEF l
  <2>2. e = [y EXCEPT !.heavy = y.heavy, !.tasks = l]
    BY <1>9, <2>1 DEF Doc
  <2>3. t \in Task
    BY <1>10 DEF Fresh
  <2> QED BY <1>9, <2>2, <2>3, AppendDoc DEF l
<1>12. /\ Shaped(e) /\ Held(y, e) /\ Adopted(e) = Adopted(y)
       /\ e \in Doc /\ e.stall = y.stall
       /\ \A i \in Ids(y) : i \in Ids(e) /\ e.tasks[i] = y.tasks[i]
       /\ \A i \in Ids(e) \ Ids(y) : e.tasks[i] = t
  BY <1>8, <1>10, <1>11, AppendDoes DEF OneMore
<1>13. Held(d, e)
  <2>1. Held(d, y)
    BY <1>1, <1>4, <1>6, <1>8, <1>9, HeldTrans
  <2> QED BY <1>1, <1>9, <1>12, <2>1, HeldTrans DEF Shaped
<1>14. ASSUME Sound(d)
       PROVE  Sound(e)
  <2>1. ASSUME Adopted(d) # {}, NEW p \in OfKind(e, "primary")
        PROVE  Status(e, p) = "superseded"
    <3>1. p \in Ids(e) /\ e.tasks[p].kind = "primary"
      BY <2>1 DEF OfKind
    <3>2. CASE p \in Ids(d)
      <4>1. d.tasks[p].kind = "primary" /\ e.tasks[p] = y.tasks[p]
        BY <1>9, <1>12, <1>13, <3>1, <3>2 DEF Held, Same
      <4>2. Status(d, p) = "superseded"
        BY <1>14, <2>1, <3>2, <4>1 DEF Sound, PrimariesSuperseded, OfKind
      <4>3. p \notin S
        BY <1>1, <4>2
      <4>4. Status(y, p) = "superseded"
        BY <1>3, <1>7, <3>2, <4>2, <4>3 DEF mine, Alike
      <4> QED BY <4>1, <4>4 DEF Status
    <3>3. CASE p \notin Ids(d)
      BY <1>9, <1>10, <1>12, <3>1, <3>3
    <3> QED BY <3>2, <3>3
  <2> QED BY <1>9, <1>12, <2>1 DEF Sound, PrimariesSuperseded
<1>15. \A i \in Ids(d) : Status(e, i) \in {Status(d, i)} \cup Withdrawn
  <2>1. \A i \in Ids(d) : Status(y, i) \in {Status(d, i)} \cup Withdrawn
    BY <1>2, <1>3, <1>7 DEF Alike
  <2> QED BY <1>9, <1>12, <2>1 DEF Status
<1> QED BY <1>9, <1>12, <1>13, <1>14, <1>15 DEF e

\* The verdict on one task, applied to a document that differs from an earlier
\* one at most by what keeps every task in place.
LEMMA RecordDoes ==
  ASSUME NEW d, Sound(d), NEW i \in Ids(d), Status(d, i) # "blocked",
         NEW w \in Doc, Held(w, d),
         NEW verdict \in BOOLEAN, NEW outcome,
         d.tasks[i].kind = "frontier" => outcome \in Outcomes \cup {"failed"}
  PROVE  LET e == Record(d, i, verdict, outcome) IN
         /\ Sound(e) /\ Grows(w, e) /\ e.stall = d.stall /\ Adopted(e) = Adopted(d)
         /\ \A j \in Ids(d) :
              /\ j \in Ids(e) /\ e.tasks[j].kind = d.tasks[j].kind
              /\ Status(d, j) # "blocked" => Status(e, j) # "blocked"
<1> DEFINE e == Record(d, i, verdict, outcome)
           st == Judged(d, i, verdict, outcome)
           x == SetStatus(d, {i}, st)
<1>1. Shaped(d) /\ d \in Doc
  BY DEF Sound, Shaped
<1>2. CASE Status(d, i) \in Withdrawn
  <2>1. e = d
    BY <1>2 DEF Record
  <2> HIDE DEF e
  <2> QED BY <2>1, HeldGrows DEF e
<1>3. CASE Status(d, i) \notin Withdrawn
  <2>1. e = AdvancePrimary(x)
    BY <1>3 DEF Record
  <2>2. st \in Statuses \ {"blocked"} /\ (d.tasks[i].kind = "frontier" => st # "validated")
    BY DEF Judged, Statuses, Outcomes, Resolved, Withdrawn
  <2> HIDE DEF e, st
  <2>3. /\ Alike(d, x)
        /\ \A j \in Ids(d) : Status(x, j) = IF j \in {i} THEN st ELSE Status(d, j)
    BY <1>1, <2>2, StatusSet
  <2>4. Shaped(x) /\ Held(d, x)
    BY <1>1, <1>3, <2>2, StatusShaped, StatusHeld
  <2> HIDE DEF x
  <2>5. Advanced(x, e) /\ x \in Doc
    BY <2>1, <2>4, AdvanceTasks DEF Shaped
  <2>6. Sound(e) /\ Alike(x, e) /\ e \in Doc
    BY <2>5 DEF Advanced, Alike
  <2>7. Grows(w, e)
    BY <1>1, <2>4, <2>5, <2>6, HeldTrans, HeldGrows, AdvancedQuiet, GrowsQuiet
  <2>8. Adopted(e) = Adopted(d) /\ e.stall = d.stall /\ Ids(e) = Ids(d)
    BY <1>1, <2>3, <2>5, <2>6, AlikeSets DEF Alike
  <2>9. ASSUME NEW j \in Ids(d)
        PROVE  /\ e.tasks[j].kind = d.tasks[j].kind
               /\ Status(d, j) # "blocked" => Status(e, j) # "blocked"
    BY <2>2, <2>3, <2>5, <2>9 DEF Alike, Advanced
  <2> QED BY <2>6, <2>7, <2>8, <2>9 DEF e
<1> QED BY <1>2, <1>3

(***************************************************************************)
(* Whole updates of a document.                                            *)
(***************************************************************************)
Moves(d, e) == Sound(e) /\ Grows(d, e) /\ e.stall = d.stall

LEMMA AdvanceMoves ==
  ASSUME NEW d \in Doc, NEW x, Shaped(x), Grows(d, x), x.stall = d.stall
  PROVE  Moves(d, AdvancePrimary(x)) /\ Moves(d, Sync(x))
<1>1. x \in Doc
  BY DEF Shaped
<1>2. Advanced(x, AdvancePrimary(x)) /\ Alike(x, Sync(x)) /\ Sound(Sync(x)) /\ Quiet(x, Sync(x))
  BY AdvanceTasks, SyncTasks, SyncHeld
<1> DEFINE e == AdvancePrimary(x)
           f == Sync(x)
<1> HIDE DEF e, f
<1>3. Sound(e) /\ e \in Doc /\ e.stall = d.stall /\ Quiet(x, e)
  BY <1>1, <1>2, AdvancedQuiet DEF Advanced, Alike, e
<1>4. Sound(f) /\ f \in Doc /\ f.stall = d.stall /\ Quiet(x, f)
  BY <1>2 DEF Alike, f
<1>5. Grows(d, e) /\ Grows(d, f)
  BY <1>1, <1>3, <1>4, GrowsQuiet
<1> QED BY <1>3, <1>4, <1>5 DEF Moves, e, f

LEMMA AddMoves ==
  ASSUME NEW d, Sound(d)
  PROVE  /\ Moves(d, AddTask(d)) /\ Moves(d, SetPrimary(d))
         /\ \A by \in {"agent", "judge"} : Moves(d, AddFrontier(d, by))
<1>1. Shaped(d) /\ d \in Doc /\ d.heavy \in BOOLEAN
  BY DEF Sound, Shaped, Doc
<1>2. ASSUME NEW t, Fresh(t), NEW e, e = [d EXCEPT !.heavy = TRUE, !.tasks = Append(d.tasks, t)]
      PROVE  Moves(d, Sync(e))
  <2>1. t \in Task /\ Fresh(t)
    BY <1>2 DEF Fresh
  <2>2. OneMore(d, t, e)
    BY <1>1, <1>2, <2>1, AppendDoc
  <2>3. Shaped(e) /\ Grows(d, e) /\ e.stall = d.stall
    BY <1>1, <2>1, <2>2, AppendDoes, HeldGrows DEF OneMore
  <2> QED BY <1>1, <2>3, AdvanceMoves
<1>3. Moves(d, SetPrimary(d))
  BY <1>2, FreshTasks DEF SetPrimary
<1>4. ASSUME NEW by \in {"agent", "judge"}
      PROVE  Moves(d, AddFrontier(d, by))
  BY <1>2, FreshTasks DEF AddFrontier
<1>5. Moves(d, AddTask(d))
  <2> DEFINE t == NewTask("requirement", "pending", "agent")
             l == Append(d.tasks, t)
             e == AddTask(d)
  <2>1. Fresh(t) /\ t.kind = "requirement"
    BY FreshTasks DEF NewTask
  <2>2. e = [d EXCEPT !.tasks = l]
    BY DEF AddTask
  <2> HIDE DEF e, l, t
  <2>3. e = [d EXCEPT !.heavy = d.heavy, !.tasks = l]
    BY <1>1, <2>2 DEF Doc
  <2>4. OneMore(d, t, e)
    BY <1>1, <2>1, <2>3, AppendDoc DEF l, Fresh
  <2>5. Shaped(e) /\ Held(d, e) /\ Adopted(e) = Adopted(d)
    BY <1>1, <2>1, <2>4, AppendDoes
  <2>6. \A p \in OfKind(e, "primary") : p \in OfKind(d, "primary") /\ Status(e, p) = Status(d, p)
    BY <2>1, <2>4 DEF OneMore, OfKind, Status
  <2>7. Sound(e)
    BY <2>5, <2>6, SoundKept
  <2> QED BY <2>4, <2>5, <2>7, HeldGrows DEF Moves, OneMore, e
<1> QED BY <1>3, <1>4, <1>5

LEMMA UpdateMoves ==
  ASSUME NEW d, Sound(d)
  PROVE  \A e \in Reconciled(d) \cup Extended(d) : Moves(d, e)
<1>1. Shaped(d) /\ d \in Doc
  BY DEF Sound, Shaped
<1>2. ASSUME NEW i \in Ids(d), Status(d, i) \notin Resolved
      PROVE  Moves(d, AdvancePrimary(SetStatus(d, {i}, "retracted")))
  <2> DEFINE x == SetStatus(d, {i}, "retracted")
  <2>1. "retracted" \in Statuses \cap Withdrawn
    BY DEF Statuses, Resolved, Withdrawn
  <2>2. Shaped(x) /\ Held(d, x)
    BY <1>1, <2>1, StatusShaped, StatusHeld
  <2>3. x.stall = d.stall
    BY <1>1, <2>1, StatusSet DEF Alike
  <2> HIDE DEF x
  <2>4. Moves(d, AdvancePrimary(x))
    BY <1>1, <2>2, <2>3, HeldGrows, AdvanceMoves
  <2> QED BY <2>4 DEF x
<1>3. ASSUME NEW i \in Revisable(d)
      PROVE  Moves(d, AdvancePrimary(Revise(d, i)))
  BY <1>1, ReviseDoes, AdvanceMoves
<1>4. ASSUME NEW S \in SUBSET Supersedable(d)
      PROVE  Moves(d, AdvancePrimary(AddJudged(d, S)))
  BY <1>1, AddJudgedDoes, HeldGrows, AdvanceMoves
<1>5. Moves(d, AddFrontier(d, "judge"))
  BY AddMoves
<1>6. \A e \in Reconciled(d) : Moves(d, e)
  BY <1>2, <1>3 DEF Reconciled
<1>7. \A e \in Extended(d) : Moves(d, e)
  BY <1>4, <1>5 DEF Extended
<1> QED BY <1>6, <1>7

\* The flags of the document.
LEMMA FlagMoves ==
  ASSUME NEW d, Sound(d)
  PROVE  /\ Moves(d, [d EXCEPT !.seeded = FALSE])
         /\ Moves(d, [d EXCEPT !.heavy = TRUE])
         /\ Moves(d, ClearStaleHeavy(d))
<1>1. Shaped(d) /\ d \in Doc /\ d.stall < StallCap
  BY DEF Sound, Shaped
<1>2. ASSUME NEW e \in Doc, e.tasks = d.tasks, e.stall = d.stall
      PROVE  Moves(d, e)
  BY <1>1, <1>2, SameListDoes, HeldGrows DEF Moves
<1> DEFINE b == d.heavy /\ (Frontiers(d) # {} \/ HasPrimary(d))
<1>3. ClearStaleHeavy(d) = [d EXCEPT !.heavy = b] /\ b \in BOOLEAN
  BY <1>1 DEF ClearStaleHeavy, Doc
<1> HIDE DEF b
<1>4. /\ [d EXCEPT !.seeded = FALSE] \in Doc /\ [d EXCEPT !.seeded = FALSE].tasks = d.tasks
      /\ [d EXCEPT !.seeded = FALSE].stall = d.stall
  BY <1>1 DEF Doc
<1>5. \A h \in BOOLEAN : /\ [d EXCEPT !.heavy = h] \in Doc /\ [d EXCEPT !.heavy = h].tasks = d.tasks
                         /\ [d EXCEPT !.heavy = h].stall = d.stall
  BY <1>1 DEF Doc
<1>6. Moves(d, [d EXCEPT !.seeded = FALSE])
  BY <1>2, <1>4
<1>7. \A h \in BOOLEAN : Moves(d, [d EXCEPT !.heavy = h])
  BY <1>2, <1>5
<1> QED BY <1>3, <1>6, <1>7

LEMMA FinalizedMoves ==
  ASSUME NEW d, Sound(d), NEW e \in Finalized(d)
  PROVE  Moves(d, e) /\ Moves(d, AdvancePrimary(e))
<1>1. Sound(e) /\ Quiet(d, e) /\ e.stall = d.stall /\ e \in Doc /\ d \in Doc /\ Shaped(e)
  BY FinalizedDoes DEF Sound, Shaped
<1>2. Grows(d, e)
  BY <1>1, GrowsSelf, GrowsQuiet
<1> QED BY <1>1, <1>2, AdvanceMoves DEF Moves

(***************************************************************************)
(* The invariant.                                                          *)
(***************************************************************************)
Phases == {"idle", "heal", "judge", "apply", "loop"}

\* What is still to be judged has an open question, and after an adoption the
\* primary is not among it.
Judgeable(d, S) ==
  \A i \in S :
    /\ i \in Ids(d) /\ Status(d, i) # "blocked"
    /\ d.tasks[i].kind = "primary" => Adopted(d) = {}

SpecInv ==
  /\ Sound(doc) /\ parked = doc.stall
  /\ stop \in [at : Phases, work : Doc, items : SUBSET Nat]
  /\ Sound(stop.work) /\ Judgeable(stop.work, stop.items)
  /\ Stopping => stop.work.stall = doc.stall

LEMMA ScaffoldSound ==
  ASSUME NEW h \in BOOLEAN
  PROVE  Sound(Scaffold(h)) /\ Scaffold(h).stall = 0 /\ Scaffold(h) \in Doc
<1> DEFINE d == Scaffold(h)
<1>1. << >> \in Seq(Task) /\ DOMAIN << >> = {}
  OBVIOUS
<1>2. d \in Doc /\ Ids(d) = {} /\ d.stall = 0
  BY <1>1, BoardConstants DEF Scaffold, Doc, Ids
<1> HIDE DEF d
<1>3. Adopted(d) = {}
  BY <1>2 DEF Adopted, Frontiers, OfKind
<1>4. Sound(d)
  BY <1>2, <1>3, BoardConstants DEF Sound, Shaped
<1> QED BY <1>2, <1>4 DEF d

LEMMA IdleStop ==
  ASSUME NEW s, s = Idle
  PROVE  /\ s.at = "idle" /\ s.items = {} /\ Sound(s.work) /\ Judgeable(s.work, s.items)
         /\ s \in [at : Phases, work : Doc, items : SUBSET Nat]
<1>1. s.at = "idle" /\ s.work = Scaffold(FALSE) /\ s.items = {}
      /\ s = [at |-> s.at, work |-> s.work, items |-> s.items]
  BY DEF Idle
<1>2. Sound(s.work) /\ s.work \in Doc
  BY <1>1, ScaffoldSound
<1> QED BY <1>1, <1>2 DEF Judgeable, Phases

LEMMA SpecInvInit == Init => SpecInv
<1> SUFFICES ASSUME Init PROVE SpecInv
  OBVIOUS
<1>1. PICK h \in BOOLEAN : doc = Scaffold(h)
  BY DEF Init
<1>2. Sound(doc) /\ parked = doc.stall
  BY <1>1, ScaffoldSound DEF Init
<1> QED BY <1>2, IdleStop DEF Init, SpecInv, Stopping

\* A step of another writer, on the stored document.
LEMMA DocStep ==
  ASSUME SpecInv, Moves(doc, doc'), stop' = stop, parked' = parked
  PROVE  SpecInv' /\ Grows(board, board')
<1>1. SpecInv'
  BY DEF SpecInv, Moves, Stopping
<1>2. ASSUME Stopping
      PROVE  Grows(board, board')
  <2>1. board = stop.work /\ board' = stop.work /\ stop.work \in Doc
    BY <1>2 DEF board, Stopping, SpecInv, Sound, Shaped
  <2> QED BY <2>1, GrowsSelf
<1>3. ASSUME ~Stopping
      PROVE  Grows(board, board')
  BY <1>3 DEF board, Stopping, Moves
<1> QED BY <1>1, <1>2, <1>3

\* A step of the Stop hook on its own document.
Works ==
  /\ Stopping /\ doc' = doc /\ parked' = parked
  /\ stop' \in [at : Phases \ {"idle"}, work : Doc, items : SUBSET Nat]
  /\ Moves(stop.work, stop'.work) /\ Judgeable(stop'.work, stop'.items)

LEMMA WorkStep ==
  ASSUME SpecInv, Works
  PROVE  SpecInv' /\ Grows(board, board')
<1>1. SpecInv'
  BY DEF Works, SpecInv, Moves, Stopping
<1>2. board = stop.work /\ board' = stop'.work
  BY DEF board, Stopping, Works
<1> QED BY <1>1, <1>2 DEF Works, Moves

LEMMA WorksTo ==
  ASSUME SpecInv, Stopping, doc' = doc, parked' = parked,
         NEW at \in Phases \ {"idle"}, NEW w, NEW S,
         stop' = [at |-> at, work |-> w, items |-> S],
         Moves(stop.work, w), Judgeable(w, S)
  PROVE  Works
<1>1. w \in Doc /\ Ids(w) \subseteq Nat
  BY TaskTypes DEF Moves, Sound, Shaped
<1>2. S \in SUBSET Nat
  BY <1>1 DEF Judgeable
<1> QED BY <1>1, <1>2 DEF Works

(***************************************************************************)
(* The actions.                                                            *)
(***************************************************************************)
\* What the other writers do to the stored document.
LEMMA WritersMove ==
  ASSUME SpecInv,
         \/ CmdAddTask \/ CmdAddFrontier \/ CmdSetPrimary \/ CmdRestate
         \/ Prompt \/ Hygiene \/ Update
  PROVE  Moves(doc, doc') /\ stop' = stop /\ parked' = parked
<1>1. Sound(doc)
  BY DEF SpecInv
<1>2. CASE CmdAddTask
  BY <1>1, <1>2, AddMoves DEF CmdAddTask
<1>3. CASE CmdAddFrontier
  BY <1>1, <1>3, AddMoves DEF CmdAddFrontier
<1>4. CASE CmdSetPrimary
  BY <1>1, <1>4, AddMoves DEF CmdSetPrimary
<1>5. CASE CmdRestate
  BY <1>1, <1>5, FlagMoves DEF CmdRestate
<1>6. CASE Prompt
  BY <1>1, <1>6, FlagMoves DEF Prompt
<1>7. CASE Hygiene
  BY <1>1, <1>7, FinalizedMoves DEF Hygiene
<1>8. CASE Update
  BY <1>1, <1>8, UpdateMoves DEF Update
<1> QED BY <1>2, <1>3, <1>4, <1>5, <1>6, <1>7, <1>8

LEMMA CollectWorks ==
  ASSUME SpecInv, StopCollect
  PROVE  Works
<1> DEFINE d == AdvancePrimary(stop.work)
<1>1. Sound(stop.work) /\ Shaped(stop.work) /\ stop.work \in Doc /\ Stopping
  BY DEF SpecInv, Sound, Shaped, StopCollect, Stopping
<1>2. Moves(stop.work, d)
  BY <1>1, GrowsSelf, AdvanceMoves
<1>3. PICK S \in SUBSET Pending(d) : stop' = [at |-> "judge", work |-> d, items |-> S]
  BY DEF StopCollect
<1>4. doc' = doc /\ parked' = parked
  BY DEF StopCollect
<1> HIDE DEF d
<1>5. Judgeable(d, S)
  <2> SUFFICES ASSUME NEW i \in S
               PROVE  /\ i \in Ids(d) /\ Status(d, i) # "blocked"
                      /\ d.tasks[i].kind = "primary" => Adopted(d) = {}
    BY DEF Judgeable
  <2>1. i \in Ids(d) /\ Status(d, i) \notin Resolved \cup {"blocked"}
    BY DEF Pending, Status
  <2>2. Status(d, i) # "superseded"
    BY <2>1 DEF Resolved, Withdrawn
  <2> QED BY <1>2, <2>1, <2>2 DEF Moves, Sound, PrimariesSuperseded, OfKind
<1> QED BY <1>1, <1>2, <1>3, <1>4, <1>5, WorksTo DEF Phases

LEMMA AdjustWorks ==
  ASSUME SpecInv, NEW i \in Ids(stop.work), StopRetract(i) \/ StopRevise(i)
  PROVE  Works
<1> DEFINE d == stop.work
<1>1. /\ Sound(d) /\ Shaped(d) /\ d \in Doc /\ Stopping /\ stop.at \in Phases \ {"idle"}
      /\ Judgeable(d, stop.items) /\ doc' = doc /\ parked' = parked
      /\ stop = [at |-> stop.at, work |-> d, items |-> stop.items]
  BY DEF SpecInv, Sound, Shaped, StopRetract, StopRevise, Adjusts, Stopping, Phases
<1>2. ASSUME NEW x, stop' = [stop EXCEPT !.work = x], Moves(d, x), Judgeable(x, stop.items)
      PROVE  Works
  <2>1. stop' = [at |-> stop.at, work |-> x, items |-> stop.items]
    BY <1>1, <1>2
  <2> QED BY <1>1, <1>2, <2>1, WorksTo
<1>3. CASE StopRetract(i)
  <2> DEFINE x == SetStatus(d, {i}, "retracted")
  <2>1. stop' = [stop EXCEPT !.work = x] /\ d.tasks[i].by = "judge"
    BY <1>3 DEF StopRetract, Work
  <2>2. "retracted" \in Statuses \cap Withdrawn /\ "blocked" \notin Withdrawn
    BY DEF Statuses, Resolved, Withdrawn
  <2>3. Shaped(x) /\ Held(d, x)
    BY <1>1, <2>2, StatusShaped, StatusHeld
  <2>4. /\ Alike(d, x) /\ x.stall = d.stall
        /\ \A j \in Ids(d) : Status(x, j) = IF j \in {i} THEN "retracted" ELSE Status(d, j)
    BY <1>1, <2>2, StatusSet DEF Alike
  <2> HIDE DEF x
  <2>5. Adopted(x) = Adopted(d) /\ OfKind(x, "primary") = OfKind(d, "primary")
    BY <1>1, <2>4, AlikeSets
  <2>6. \A p \in OfKind(d, "primary") : p \in Ids(d) /\ p # i
    BY <1>1, <2>1 DEF Shaped, OfKind
  <2>7. Sound(x)
    BY <1>1, <2>3, <2>4, <2>5, <2>6, SoundKept
  <2>8. Judgeable(x, stop.items)
    BY <1>1, <2>4, <2>5 DEF Judgeable, Alike
  <2> QED BY <1>2, <2>1, <2>3, <2>4, <2>7, <2>8, HeldGrows DEF Moves
<1>4. CASE StopRevise(i)
  <2> DEFINE x == Revise(d, i)
  <2>1. stop' = [stop EXCEPT !.work = x] /\ i \in Revisable(d)
    BY <1>4 DEF StopRevise, Work
  <2>2. /\ Sound(x) /\ Grows(d, x) /\ x.stall = d.stall /\ Adopted(x) = Adopted(d)
        /\ Ids(x) = Ids(d) /\ Status(x, i) = "pending"
        /\ \A j \in Ids(d) : x.tasks[j].kind = d.tasks[j].kind
        /\ \A j \in Ids(d) \ {i} : x.tasks[j] = d.tasks[j]
    BY <1>1, <2>1, ReviseDoes
  <2> HIDE DEF x
  <2>3. \A j \in Ids(d) : Status(d, j) # "blocked" => Status(x, j) # "blocked"
    BY <2>2 DEF Status
  <2>4. Judgeable(x, stop.items)
    BY <1>1, <2>2, <2>3 DEF Judgeable
  <2> QED BY <1>2, <2>1, <2>2, <2>4 DEF Moves
<1> QED BY <1>3, <1>4

LEMMA DefersWorks ==
  ASSUME SpecInv, NEW i \in Ids(stop.work), StopDefers(i)
  PROVE  Works
<1> DEFINE d == stop.work
           x == Unflag(d, i)
           y == SetStatus(x, {i}, "pending")
<1>1. /\ Sound(d) /\ Shaped(d) /\ d \in Doc /\ Stopping
      /\ Judgeable(d, stop.items) /\ doc' = doc /\ parked' = parked
      /\ i \in stop.items /\ d.tasks[i].revised
      /\ stop' = [at |-> "apply", work |-> y, items |-> stop.items \ {i}]
  BY DEF SpecInv, Sound, Shaped, StopDefers, NextItem, Stopping
<1>2. "pending" \in Statuses
  BY DEF Statuses
<1>3. /\ Shaped(x) /\ Held(d, x) /\ x.stall = d.stall /\ Ids(x) = Ids(d) /\ Adopted(x) = Adopted(d)
      /\ \A j \in Ids(d) : Status(x, j) = Status(d, j) /\ x.tasks[j].kind = d.tasks[j].kind
      /\ x \in Doc
  BY <1>1, UnflagDoes DEF Shaped
<1> HIDE DEF x
<1>4. /\ Alike(x, y) /\ Shaped(y)
      /\ \A j \in Ids(x) : Status(y, j) = IF j \in {i} THEN "pending" ELSE Status(x, j)
  BY <1>2, <1>3, StatusSet, StatusShaped
<1> HIDE DEF y
<1>5. /\ y \in Doc /\ Ids(y) = Ids(d) /\ Adopted(y) = Adopted(d) /\ y.stall = d.stall
      /\ \A j \in Ids(d) : y.tasks[j].kind = d.tasks[j].kind
  BY <1>3, <1>4, AlikeSets DEF Alike
<1>6. \A j \in Ids(d) : Status(y, j) = IF j = i THEN "pending" ELSE Status(d, j)
  BY <1>3, <1>4
<1>7. Sound(y)
  <2> SUFFICES ASSUME Adopted(d) # {}, NEW p \in OfKind(y, "primary")
               PROVE  Status(y, p) = "superseded"
    BY <1>4, <1>5 DEF Sound, PrimariesSuperseded
  <2>1. p \in Ids(d) /\ d.tasks[p].kind = "primary"
    BY <1>5 DEF OfKind
  <2>2. p # i
    BY <1>1, <2>1 DEF Judgeable
  <2> QED BY <1>1, <1>6, <2>1, <2>2 DEF Sound, PrimariesSuperseded, OfKind
<1>8. Same(d, y)
  <2>1. Same(x, y)
    BY <1>3, <1>4, AlikeSame
  <2> QED BY <1>1, <1>3, <1>5, <2>1, SameTrans DEF Held
<1>9. Grows(d, y)
  BY <1>1, <1>6, <1>8 DEF Grows, StaysBlocked, Judgeable
<1>10. Judgeable(y, stop.items \ {i})
  BY <1>1, <1>5, <1>6 DEF Judgeable
<1> QED BY <1>1, <1>5, <1>7, <1>9, <1>10, WorksTo DEF Moves, Phases

LEMMA VerdictTypes ==
  ASSUME NEW t, NEW v \in Verdicts(t)
  PROVE  v[1] \in BOOLEAN /\ (t.kind = "frontier" => v[2] \in Outcomes \cup {"failed"})
<1>1. CASE t.kind = "frontier"
  <2>1. PICK o \in Outcomes \cup {"failed"} : v = <<o = "accepted_approach", o>>
    BY <1>1 DEF Verdicts
  <2>2. v[1] = (o = "accepted_approach") /\ v[2] = o
    BY <2>1
  <2>3. v[1] \in BOOLEAN
    BY <2>2
  <2> QED BY <2>2, <2>3
<1>2. CASE t.kind # "frontier"
  <2>1. PICK b \in BOOLEAN : v = <<b, "">>
    BY <1>2 DEF Verdicts
  <2> QED BY <1>2, <2>1
<1> QED BY <1>1, <1>2

\* The verdict on the next item, after the requirements it may add.
LEMMA AppliedWorks ==
  ASSUME SpecInv, NEW i \in Ids(stop.work), NextItem(i), doc' = doc, parked' = parked,
         NEW v \in Verdicts(stop.work.tasks[i]),
         NEW x, Sound(x), Held(stop.work, x), Adopted(x) = Adopted(stop.work),
         x.stall = stop.work.stall,
         \A j \in Ids(stop.work) : Status(x, j) \in {Status(stop.work, j)} \cup Withdrawn,
         stop' = Applied(i, v, x)
  PROVE  Works
<1> DEFINE d == stop.work
           e == Record(x, i, v[1], v[2])
<1>1. /\ d \in Doc /\ Stopping /\ Judgeable(d, stop.items) /\ i \in stop.items
      /\ stop' = [at |-> "apply", work |-> e, items |-> stop.items \ {i}]
  BY DEF SpecInv, Sound, Shaped, NextItem, Stopping, Applied
<1>2. \A j \in Ids(d) : j \in Ids(x) /\ x.tasks[j].kind = d.tasks[j].kind
  BY DEF Held, Same
<1>3. \A j \in stop.items : /\ j \in Ids(x) /\ Status(x, j) # "blocked"
                            /\ x.tasks[j].kind = "primary" => Adopted(x) = {}
  BY <1>1, <1>2 DEF Judgeable, Withdrawn
<1>4. v[1] \in BOOLEAN /\ (x.tasks[i].kind = "frontier" => v[2] \in Outcomes \cup {"failed"})
  BY <1>2, VerdictTypes
<1>5. /\ Sound(e) /\ Grows(d, e) /\ e.stall = x.stall /\ Adopted(e) = Adopted(x)
      /\ \A j \in Ids(x) :
           /\ j \in Ids(e) /\ e.tasks[j].kind = x.tasks[j].kind
           /\ Status(x, j) # "blocked" => Status(e, j) # "blocked"
  BY <1>1, <1>3, <1>4, RecordDoes
<1> HIDE DEF e
<1>6. Judgeable(e, stop.items \ {i})
  BY <1>3, <1>5 DEF Judgeable
<1> QED BY <1>1, <1>5, <1>6, WorksTo DEF Moves, Phases

LEMMA JudgesWorks ==
  ASSUME SpecInv, NEW i \in Ids(stop.work), StopJudges(i) \/ StopJudgesAdding(i)
  PROVE  Works
<1> DEFINE d == stop.work
           x == Unflag(d, i)
<1>1. /\ Sound(d) /\ Shaped(d) /\ d \in Doc /\ NextItem(i) /\ doc' = doc /\ parked' = parked
  BY DEF SpecInv, Sound, Shaped, StopJudges, StopJudgesAdding
<1>2. /\ Shaped(x) /\ Held(d, x) /\ x.stall = d.stall /\ Ids(x) = Ids(d) /\ Adopted(x) = Adopted(d)
      /\ \A j \in Ids(d) : Status(x, j) = Status(d, j) /\ x.tasks[j].kind = d.tasks[j].kind
      /\ x \in Doc
  BY <1>1, UnflagDoes DEF Shaped
<1>3. CASE StopJudges(i)
  <2>1. PICK v \in Verdicts(d.tasks[i]) : stop' = Applied(i, v, x)
    BY <1>3 DEF StopJudges
  <2> HIDE DEF x
  <2>2. Sound(x)
    BY <1>1, <1>2, SoundKept DEF OfKind
  <2> QED BY <1>1, <1>2, <2>1, <2>2, AppliedWorks
<1>4. CASE StopJudgesAdding(i)
  <2>1. PICK v \in Verdicts(d.tasks[i]), S \in SUBSET Supersedable(d) :
               stop' = Applied(i, v, AddJudged(x, S))
    BY <1>4 DEF StopJudgesAdding
  <2> HIDE DEF x
  <2>2. Sound(x) /\ Supersedable(x) = Supersedable(d)
    BY <1>1, <1>2, SoundKept DEF OfKind, Supersedable
  <2> DEFINE y == AddJudged(x, S)
  <2>3. /\ Shaped(y) /\ Sound(y) /\ Held(x, y) /\ y.stall = x.stall /\ Adopted(y) = Adopted(x)
        /\ \A j \in Ids(x) : Status(y, j) \in {Status(x, j)} \cup Withdrawn
    BY <1>2, <2>2, AddJudgedDoes
  <2> HIDE DEF y
  <2>4. Held(d, y)
    BY <1>1, <1>2, <2>3, HeldTrans DEF Shaped
  <2>5. \A j \in Ids(d) : Status(y, j) \in {Status(d, j)} \cup Withdrawn
    BY <1>2, <2>3
  <2>6. stop' = Applied(i, v, y)
    BY <2>1 DEF y
  <2> QED BY <1>1, <1>2, <2>3, <2>4, <2>5, <2>6, AppliedWorks
<1> QED BY <1>3, <1>4

LEMMA BeginStep ==
  ASSUME SpecInv, StopBegin
  PROVE  SpecInv' /\ Grows(board, board') /\ Same(doc, doc') /\ Same(doc', stop'.work)
<1>1. PICK d \in Finalized(doc) :
        /\ doc' = d
        /\ stop' = [at |-> "heal", work |-> AdvancePrimary(d), items |-> {}]
  BY DEF StopBegin
<1> DEFINE w == AdvancePrimary(d)
<1>2. Sound(doc) /\ parked = doc.stall /\ parked' = parked /\ ~Stopping
  BY DEF SpecInv, StopBegin
<1>3. Moves(doc, d) /\ Moves(doc, w)
  BY <1>2, FinalizedMoves
<1>4. Same(d, w)
  BY <1>3, AdvanceTasks, AlikeSame DEF Advanced, Moves, Sound, Shaped
<1>5. stop'.at = "heal" /\ stop'.work = w /\ stop'.items = {}
      /\ stop' = [at |-> "heal", work |-> w, items |-> {}]
  BY <1>1
<1> HIDE DEF w
<1>6. w \in Doc
  BY <1>3 DEF Moves, Sound, Shaped
<1>7. SpecInv'
  BY <1>1, <1>2, <1>3, <1>5, <1>6 DEF SpecInv, Moves, Judgeable, Phases
<1>8. board = doc /\ board' = w
  BY <1>2, <1>5 DEF board, Stopping
<1> QED BY <1>1, <1>3, <1>4, <1>5, <1>7, <1>8 DEF Moves, Grows

LEMMA SaveStep ==
  ASSUME SpecInv, StopSave
  PROVE  /\ SpecInv' /\ Grows(board, board')
         /\ Same(stop.work, doc') /\ (Stopping' => Same(doc', stop'.work))
<1> DEFINE w == stop.work
<1>1. PICK d \in Settled(w) :
        LET e == ResolveStall(d)
            f == AdvancePrimary(e)
        IN
        /\ doc' = e
        /\ parked' = IF ~Stalled(e) THEN 0 ELSE IF parked > StallCap THEN parked ELSE parked + 1
        /\ stop' = IF Incomplete(f) # {} \/ NeedsAgent(f)
                   THEN [at |-> "loop", work |-> f, items |-> {}] ELSE Idle
  BY DEF StopSave
<1> DEFINE e == ResolveStall(d)
           f == AdvancePrimary(e)
<1>2. /\ Sound(w) /\ w \in Doc /\ Sound(doc) /\ doc.stall = parked /\ w.stall = parked
      /\ parked \in Nat /\ parked < StallCap /\ StallCap \in Nat /\ Stopping
  BY BoardConstants DEF SpecInv, Sound, Shaped, Doc, StopSave, Stopping
<1>3. Sound(d) /\ Quiet(w, d) /\ d.stall = w.stall /\ d \in Doc
  BY <1>2, SettledDoes
<1>4. /\ Sound(e) /\ Quiet(d, e) /\ e \in Doc
      /\ e.stall = IF Stalled(e) THEN d.stall + 1 ELSE 0
  BY <1>3, ResolveStallDoes
<1>5. /\ doc' = e /\ (stop' = Idle \/ stop' = [at |-> "loop", work |-> f, items |-> {}])
      /\ parked' = IF ~Stalled(e) THEN 0 ELSE IF parked > StallCap THEN parked ELSE parked + 1
  BY <1>1
<1> HIDE DEF e
<1>6. Shaped(e) /\ Advanced(e, f)
  BY <1>4, AdvanceTasks DEF Sound
<1>7. Sound(f) /\ Quiet(e, f) /\ f \in Doc /\ f.stall = e.stall
  BY <1>4, <1>6, AdvancedQuiet DEF Advanced, Alike
<1> HIDE DEF f
<1>8. parked' = doc'.stall
  BY <1>2, <1>3, <1>4, <1>5
<1>9. Quiet(w, e) /\ Quiet(w, f)
  BY <1>2, <1>3, <1>4, <1>7, QuietTrans
<1>10. Grows(w, e) /\ Grows(w, f)
  BY <1>2, <1>4, <1>7, <1>9, GrowsSelf, GrowsQuiet
<1>11. CASE stop' = Idle
  <2>1. SpecInv' /\ ~Stopping'
    BY <1>4, <1>5, <1>8, <1>11, IdleStop DEF SpecInv, Stopping
  <2>2. board = w /\ board' = e
    BY <1>2, <1>5, <2>1 DEF board
  <2> QED BY <1>5, <1>10, <2>1, <2>2 DEF Grows
<1>12. CASE stop' = [at |-> "loop", work |-> f, items |-> {}]
  <2>1. stop'.at = "loop" /\ stop'.work = f /\ stop'.items = {}
    BY <1>12
  <2>2. SpecInv'
    BY <1>4, <1>5, <1>7, <1>8, <1>12, <2>1 DEF SpecInv, Judgeable, Phases
  <2>3. board = w /\ board' = f
    BY <1>2, <2>1 DEF board, Stopping
  <2> QED BY <1>5, <1>7, <1>10, <2>1, <2>2, <2>3 DEF Grows, Quiet
<1> QED BY <1>5, <1>11, <1>12

LEMMA LoopStep ==
  ASSUME SpecInv, StopLoop
  PROVE  /\ SpecInv' /\ ~Stopping'
         /\ Abandoned \/ (Grows(board, board') /\ Same(stop.work, doc'))
<1> DEFINE w == stop.work
<1>1. /\ Sound(w) /\ Shaped(w) /\ w \in Doc /\ Sound(doc) /\ doc.stall = parked /\ w.stall = parked
      /\ Stopping /\ stop' = Idle /\ parked' = parked
  BY DEF SpecInv, Sound, Shaped, StopLoop, Stopping
<1>2. ~Stopping'
  BY <1>1, IdleStop DEF Stopping
<1>3. CASE doc' = doc
  <2>1. SpecInv'
    BY <1>1, <1>2, <1>3, IdleStop DEF SpecInv
  <2> QED BY <1>1, <1>2, <1>3, <2>1 DEF Abandoned
<1>4. CASE doc' # doc
  <2>1. PICK S \in SUBSET LoopRetractable(w) : doc' = SetStatus(w, S, "retracted")
    BY <1>4 DEF StopLoop
  <2> DEFINE e == SetStatus(w, S, "retracted")
  <2>2. "retracted" \in Statuses \cap Withdrawn
    BY DEF Statuses, Resolved, Withdrawn
  <2>3. Shaped(e) /\ Held(w, e)
    BY <1>1, <2>2, StatusShaped, StatusHeld
  <2>4. /\ Alike(w, e) /\ e.stall = w.stall
        /\ \A i \in Ids(w) : Status(e, i) = IF i \in S THEN "retracted" ELSE Status(w, i)
    BY <1>1, <2>2, StatusSet DEF Alike
  <2> HIDE DEF e
  <2>5. Adopted(e) = Adopted(w) /\ OfKind(e, "primary") = OfKind(w, "primary")
    BY <1>1, <2>4, AlikeSets
  <2>6. \A p \in OfKind(w, "primary") : p \in Ids(w) /\ p \notin S
    BY <1>1 DEF Shaped, OfKind, LoopRetractable
  <2>7. Sound(e)
    BY <1>1, <2>3, <2>4, <2>5, <2>6, SoundKept
  <2>8. doc' = e
    BY <2>1 DEF e
  <2>9. SpecInv'
    BY <1>1, <1>2, <2>4, <2>7, <2>8, IdleStop DEF SpecInv
  <2>10. board = w /\ board' = e
    BY <1>1, <1>2, <2>8 DEF board
  <2> QED BY <1>2, <2>3, <2>8, <2>9, <2>10, HeldGrows DEF Held
<1> QED BY <1>3, <1>4

LEMMA DiesStep ==
  ASSUME SpecInv, StopDies
  PROVE  SpecInv' /\ Abandoned /\ doc' = doc /\ ~Stopping'
<1>1. ~Stopping' /\ stop' = Idle /\ Stopping /\ doc' = doc /\ parked' = parked
  BY IdleStop DEF StopDies, Stopping
<1> QED BY <1>1, IdleStop DEF SpecInv, Abandoned

\* The steps of the Stop hook between its loads and its saves.
LEMMA StopWorks ==
  ASSUME SpecInv,
         \/ StopCollect
         \/ \E i \in Ids(stop.work) :
              StopRetract(i) \/ StopRevise(i) \/ StopDefers(i) \/ StopJudges(i) \/ StopJudgesAdding(i)
  PROVE  Works
BY CollectWorks, AdjustWorks, DefersWorks, JudgesWorks

LEMMA NextStep ==
  ASSUME SpecInv, Next
  PROVE  SpecInv' /\ (Abandoned \/ Grows(board, board'))
<1>1. CASE \/ CmdAddTask \/ CmdAddFrontier \/ CmdSetPrimary \/ CmdRestate
           \/ Prompt \/ Hygiene \/ Update
  BY <1>1, WritersMove, DocStep
<1>2. CASE StopBegin
  BY <1>2, BeginStep
<1>3. CASE \/ StopCollect
           \/ \E i \in Ids(stop.work) :
                StopRetract(i) \/ StopRevise(i) \/ StopDefers(i) \/ StopJudges(i) \/ StopJudgesAdding(i)
  BY <1>3, StopWorks, WorkStep
<1>4. CASE StopSave
  BY <1>4, SaveStep
<1>5. CASE StopLoop
  BY <1>5, LoopStep
<1>6. CASE StopDies
  BY <1>6, DiesStep
<1> QED BY <1>1, <1>2, <1>3, <1>4, <1>5, <1>6 DEF Next

LEMMA StutterStep ==
  ASSUME SpecInv, UNCHANGED vars
  PROVE  SpecInv' /\ Grows(board, board')
<1>1. doc' = doc /\ stop' = stop /\ parked' = parked
  BY DEF vars
<1>2. SpecInv'
  BY <1>1 DEF SpecInv, Stopping
<1>3. board \in Doc /\ board' = board
  BY <1>1 DEF SpecInv, board, Stopping, Sound, Shaped
<1> QED BY <1>2, <1>3, GrowsSelf

LEMMA SpecInvAlways == Spec => []SpecInv
<1>1. SpecInv /\ [Next]_vars => SpecInv'
  BY NextStep, StutterStep
<1> QED BY SpecInvInit, <1>1, PTL DEF Spec

(***************************************************************************)
(* The theorems.                                                           *)
(***************************************************************************)
\* Every variable stays in its domain.
THEOREM TypeCorrect == Spec => []TypeOK
<1>1. SpecInv => TypeOK
  <2> SUFFICES ASSUME SpecInv PROVE TypeOK
    OBVIOUS
  <2>1. doc \in Doc /\ doc.stall \in Nat /\ doc.stall < StallCap /\ StallCap \in Nat
    BY BoardConstants DEF SpecInv, Sound, Shaped, Doc
  <2>2. parked \in 0..(StallCap + 1)
    BY <2>1 DEF SpecInv
  <2>3. stop.items \subseteq Ids(stop.work)
    BY DEF SpecInv, Judgeable
  <2> QED BY <2>1, <2>2, <2>3 DEF SpecInv, TypeOK, Phases, Sound, Shaped
<1> QED BY <1>1, SpecInvAlways, PTL

\* One frontier is adopted at most, and the primary is superseded from then on, in
\* every saved document, whatever other processes save in between.
THEOREM AdoptionAlways == Spec => []AdoptionInvariant
<1>1. SpecInv => AdoptionInvariant
  <2> SUFFICES ASSUME SpecInv PROVE AdoptionInvariant
    OBVIOUS
  <2>1. Sound(doc) /\ Shaped(doc)
    BY DEF SpecInv, Sound
  <2>2. Cardinality(Adopted(doc)) <= 1
    <3>1. CASE Adopted(doc) = {}
      BY <3>1, FS_EmptySet
    <3>2. CASE Adopted(doc) # {}
      <4>1. PICK w \in Adopted(doc) : TRUE
        BY <3>2
      <4>2. Adopted(doc) = {w}
        BY <2>1, <4>1 DEF Shaped
      <4> QED BY <4>2, FS_Singleton
    <3> QED BY <3>1, <3>2
  <2> QED BY <2>1, <2>2 DEF AdoptionInvariant, Sound, PrimariesSuperseded
<1> QED BY <1>1, SpecInvAlways, PTL

\* The arbiter rules the viable frontiers out before StallCap Stop passes in a row
\* have ended with nothing chosen, however the passes and the other writers mix.
THEOREM ArbiterInTime == Spec => []NoStall
<1>1. SpecInv => NoStall
  BY DEF SpecInv, Sound, Shaped, NoStall
<1> QED BY <1>1, SpecInvAlways, PTL

\* A task that is no primary, is incomplete and was not adopted is judged by the next Stop.
LEMMA OpenIsPending ==
  ASSUME NEW d, Shaped(d), NEW i \in Incomplete(d),
         d.tasks[i].kind # "primary", i \notin Adopted(d)
  PROVE  i \in Pending(d)
<1> DEFINE t == d.tasks[i]
<1>1. i \in Ids(d) /\ ~TaskIsResolved(t) /\ t \in Task
  BY TaskTypes DEF Incomplete, Shaped
<1>2. t.status # "blocked"
  BY <1>1 DEF Shaped, Status
<1> HIDE DEF t
<1>3. CASE t.kind = "frontier"
  <2>1. ~t.winner
    BY <1>1, <1>3 DEF Adopted, Frontiers, OfKind, t
  <2>2. ~FrontierIsResolved(t)
    BY <1>1, <1>3, <2>1 DEF TaskIsResolved
  <2> QED BY <1>1, <1>2, <2>1, <2>2
       DEF FrontierIsResolved, FrontierResolved, Pending, Resolved, t
<1>4. CASE t.kind = "requirement"
  <2>1. t.status \notin Resolved
    BY <1>1, <1>4 DEF TaskIsResolved
  <2> QED BY <1>1, <1>2, <1>4, <2>1 DEF Pending, t
<1> QED BY <1>1, <1>3, <1>4 DEF Task, t

\* A board whose primary is stuck behind frontiers that are all decided is one that
\* finalizing or the phase change would have moved on.
LEMMA BlockedHasWork ==
  ASSUME NEW c, Sound(c), NEW d \in Finalized(c), NEW f, f = AdvancePrimary(d),
         NEW p \in OfKind(f, "primary"), Status(f, p) = "blocked",
         Pending(f) = {}, ~NeedsAgent(f), ~f.seeded
  PROVE  FALSE
<1>1. /\ Sound(d) /\ Shaped(d) /\ d \in Doc
      /\ Adopted(d) = {} => d = c /\ (~AllFrontiersTerminal(c) \/ Accepted(c) = {})
  BY FinalizedDoes DEF Sound, Shaped
<1>2. Advanced(d, f) /\ Alike(d, f) /\ Sound(f) /\ Shaped(f) /\ f \in Doc
  BY <1>1, AdvanceTasks DEF Advanced, Sound, Shaped
<1>3. p \in Ids(f) /\ f.tasks[p].kind = "primary" /\ HasPrimary(f)
  BY DEF OfKind, HasPrimary
<1>4. Cardinality(Frontiers(f)) >= 2
  <2>1. IsHeavy(f)
    BY <1>3 DEF IsHeavy
  <2>2. Cardinality(Frontiers(f)) \in Nat
    <3>1. IsFiniteSet(Ids(f))
      BY <1>2, TaskTypes, FS_Interval
    <3> QED BY <3>1, FS_Subset, FS_CardinalityType DEF Frontiers, OfKind
  <2> QED BY <2>1, <2>2 DEF NeedsAgent
<1>5. Adopted(f) = {} /\ Adopted(d) = {}
  BY <1>1, <1>2, AlikeSets DEF Sound, PrimariesSuperseded
<1>6. ASSUME NEW i \in Frontiers(f)
      PROVE  Status(f, i) \in FrontierResolved
  <2> DEFINE t == f.tasks[i]
  <2>1. i \in Ids(f) /\ t.kind = "frontier" /\ ~t.winner
    BY <1>5, <1>6 DEF Adopted, Frontiers, OfKind
  <2>2. t.status # "blocked" /\ t.status # "validated"
    BY <1>2, <2>1 DEF Shaped, Status
  <2>3. i \notin Pending(f)
    OBVIOUS
  <2> QED BY <2>1, <2>2, <2>3 DEF Pending, Resolved, FrontierResolved, Status
<1>7. Accepted(f) # {}
  <2> SUFFICES ASSUME Accepted(f) = {}
               PROVE  FALSE
    OBVIOUS
  <2>1. AllFrontiersRejected(f)
    BY <1>4, <1>6 DEF Accepted, AllFrontiersRejected
  <2>2. Phase(f) = "primary"
    BY <1>3, <1>4, <1>5, <2>1 DEF Phase, DeclareComplete
  <2> QED BY <1>2, <2>2 DEF Advanced
<1>8. Frontiers(f) = Frontiers(d) /\ Ids(f) = Ids(d)
      /\ \A i \in Frontiers(d) : Status(f, i) = Status(d, i)
  <2>1. Frontiers(f) = Frontiers(d) /\ Ids(f) = Ids(d)
    BY <1>1, <1>2, AlikeSets DEF Alike
  <2>2. \A i \in Frontiers(d) : i \in Ids(d) /\ d.tasks[i].kind = "frontier"
    BY DEF Frontiers, OfKind
  <2> QED BY <1>2, <2>1, <2>2 DEF Advanced
<1>9. Accepted(d) # {}
  BY <1>7, <1>8 DEF Accepted
<1>10. AllFrontiersTerminal(d)
  BY <1>4, <1>6, <1>8 DEF AllFrontiersTerminal, FrontierIsResolved, Status
<1> QED BY <1>1, <1>5, <1>9, <1>10

\* A board that is not complete gives somebody work, unless a judge withdrew the
\* primary or took an adoption back: no board the code can save is a dead end.
THEOREM WorkableAlways == Spec => []StaysWorkableUnlessUndone
<1>1. SpecInv => StaysWorkableUnlessUndone
  <2> SUFFICES ASSUME SpecInv, NEW d \in Finalized(doc), ~Undone(d)
               PROVE  Workable(AdvancePrimary(d))
    BY DEF StaysWorkableUnlessUndone
  <2> DEFINE f == AdvancePrimary(d)
  <2>1. Sound(doc) /\ Sound(d) /\ Shaped(d) /\ d \in Doc
    BY FinalizedDoes DEF SpecInv, Sound, Shaped
  <2>2. Advanced(d, f) /\ Alike(d, f) /\ Shaped(f)
    BY <2>1, AdvanceTasks DEF Advanced, Sound
  <2>3. f = AdvancePrimary(d)
    OBVIOUS
  <2> HIDE DEF f
  <2> SUFFICES ASSUME NEW i \in Incomplete(f), Pending(f) = {}, ~NeedsAgent(f), ~f.seeded
               PROVE  FALSE
    BY <2>3 DEF Workable
  <2>4. i \in Ids(f) /\ i \in Ids(d) /\ ~TaskIsResolved(f.tasks[i]) /\ Adopted(f) = Adopted(d)
    BY <2>1, <2>2, AlikeSets DEF Incomplete, Alike
  <2>5. CASE i \in Adopted(f)
    <3>1. f.tasks[i].kind = "frontier" /\ f.tasks[i].winner
      BY <2>5 DEF Adopted, Frontiers, OfKind
    <3>2. Status(f, i) \notin {"accepted_approach", "validated"}
      BY <2>4, <3>1 DEF TaskIsResolved, Status
    <3>3. Status(f, i) = Status(d, i)
      BY <2>2, <2>4, <3>1 DEF Advanced, Alike
    <3> QED BY <2>4, <2>5, <3>2, <3>3 DEF Undone
  <2>6. CASE i \notin Adopted(f) /\ f.tasks[i].kind # "primary"
    BY <2>2, <2>6, OpenIsPending
  <2>7. CASE f.tasks[i].kind = "primary"
    <3>1. Status(f, i) \notin {"validated", "superseded"}
      BY <2>4, <2>7 DEF TaskIsResolved, Status
    <3>2. CASE Status(f, i) = "blocked"
      <4>1. i \in OfKind(f, "primary")
        BY <2>4, <2>7 DEF OfKind
      <4> QED BY <2>1, <2>3, <3>2, <4>1, BlockedHasWork
    <3>3. CASE Status(f, i) = "retracted"
      <4>1. Status(d, i) = "retracted" /\ d.tasks[i].kind = "primary"
        BY <2>2, <2>4, <2>7, <3>3 DEF Advanced, Alike
      <4> QED BY <2>4, <4>1 DEF Undone, OfKind
    <3>4. CASE Status(f, i) \notin {"blocked", "retracted"}
      <4>1. i \in Pending(f)
        BY <2>4, <2>7, <3>1, <3>4 DEF Pending, Resolved, Withdrawn, Status
      <4> QED BY <4>1
    <3> QED BY <3>2, <3>3, <3>4
  <2> QED BY <2>5, <2>6, <2>7
<1> QED BY <1>1, SpecInvAlways, PTL

\* The primary leaves "blocked" only when every frontier is ruled out, when one was
\* adopted, or when the judge revised the primary itself.
THEOREM PrimaryAlwaysWaits == Spec => PrimaryWaits
<1>1. ASSUME SpecInv, [Next]_vars, ~Abandoned, NEW p \in OfKind(board, "primary"),
             Status(board, p) = "blocked",
             p \in Ids(board'), Status(board', p) \in {"pending", "failed", "validated"}
      PROVE  AllFrontiersRejected(board') \/ board'.tasks[p].sigs > board.tasks[p].sigs
  <2>1. Grows(board, board')
    BY <1>1, NextStep, StutterStep
  <2>2. p \in Ids(board) /\ Status(board', p) \notin {"blocked"} \cup Withdrawn
    BY <1>1 DEF OfKind, Withdrawn
  <2>3. board \in Doc /\ board' \in Doc
    <3>1. SpecInv'
      BY <1>1, NextStep, StutterStep
    <3> QED BY <1>1, <3>1 DEF SpecInv, board, Sound, Shaped
  <2>4. board.tasks[p].sigs \in Nat /\ board'.tasks[p].sigs \in Nat
    BY <1>1, <2>2, <2>3, SigsNat
  <2>5. AllFrontiersRejected(board') \/ board.tasks[p].sigs < board'.tasks[p].sigs
    BY <1>1, <2>1, <2>2 DEF Grows, StaysBlocked
  <2> QED BY <2>4, <2>5
<1>2. SpecInv /\ [Next]_vars
        => [~Abandoned => \A p \in OfKind(board, "primary") :
              /\ Status(board, p) = "blocked"
              /\ p \in Ids(board') /\ Status(board', p) \in {"pending", "failed", "validated"}
              => AllFrontiersRejected(board') \/ board'.tasks[p].sigs > board.tasks[p].sigs]_vars
  BY <1>1
<1> QED BY <1>2, SpecInvAlways, PTL DEF Spec, PrimaryWaits

\* A withdrawn task stays withdrawn, unless a revision is still waiting for its check.
THEOREM WithdrawnAlwaysStays == Spec => WithdrawnStaysUnrevised
<1>1. SpecInv /\ [Next]_vars
        => [~Abandoned => \A i \in Ids(board) :
              Status(board, i) \in Withdrawn /\ ~board.tasks[i].revised
              => i \in Ids(board') /\ Status(board', i) \in Withdrawn]_vars
  BY NextStep, StutterStep DEF Grows, Same
<1> QED BY <1>1, SpecInvAlways, PTL DEF Spec, WithdrawnStaysUnrevised

(***************************************************************************)
(* What the reconcile job's lock would have to keep out.                   *)
(***************************************************************************)
\* The document the Stop hook works on has every task of the stored one.
CarriesAll == Stopping => Same(doc, stop.work)

LEMMA CarriesStep ==
  ASSUME ~Overlap, SpecInv, CarriesAll, Next
  PROVE  CarriesAll' /\ Same(doc, doc')
<1>1. doc \in Doc /\ stop.work \in Doc /\ doc' \in Doc /\ stop'.work \in Doc
  BY NextStep DEF SpecInv, Sound, Shaped
<1>2. CASE \/ CmdAddTask \/ CmdAddFrontier \/ CmdSetPrimary \/ CmdRestate
           \/ Prompt \/ Hygiene \/ Update
  <2>1. ~Stopping
    BY <1>2 DEF CmdAddTask, CmdAddFrontier, CmdSetPrimary, CmdRestate, Prompt, Hygiene, Update, Turn
  <2> QED BY <1>2, <2>1, WritersMove DEF CarriesAll, Stopping, Moves, Grows
<1>3. CASE StopBegin
  BY <1>3, BeginStep DEF CarriesAll
<1>4. CASE \/ StopCollect
           \/ \E i \in Ids(stop.work) :
                StopRetract(i) \/ StopRevise(i) \/ StopDefers(i) \/ StopJudges(i) \/ StopJudgesAdding(i)
  <2>1. Works
    BY <1>4, StopWorks
  <2>2. doc' = doc /\ Same(doc, stop.work) /\ Same(stop.work, stop'.work)
    BY <2>1 DEF Works, CarriesAll, Moves, Grows
  <2> QED BY <1>1, <2>2, SameTrans, GrowsSelf DEF CarriesAll
<1>5. CASE StopSave
  <2>1. Same(doc, stop.work)
    BY <1>5 DEF StopSave, Stopping, CarriesAll
  <2> QED BY <1>1, <1>5, <2>1, SaveStep, SameTrans DEF CarriesAll
<1>6. CASE StopLoop
  <2>1. Same(doc, stop.work)
    BY <1>6 DEF StopLoop, Stopping, CarriesAll
  <2>2. ~Stopping' /\ (doc' = doc \/ Same(stop.work, doc'))
    BY <1>6, LoopStep DEF Abandoned
  <2> QED BY <1>1, <2>1, <2>2, SameTrans, GrowsSelf DEF CarriesAll
<1>7. CASE StopDies
  BY <1>1, <1>7, DiesStep, GrowsSelf DEF CarriesAll
<1> QED BY <1>2, <1>3, <1>4, <1>5, <1>6, <1>7 DEF Next

\* Without a reconcile job that outlives the turn, the document is append-only: no save
\* drops a task or puts another one in its place, also when Stop passes die.  The run
\* SpecLostUpdate shows that the assumption is needed.
THEOREM TasksKeptInTurn ==
  ASSUME ~Overlap
  PROVE  Spec => TasksKept
<1>1. Init => CarriesAll
  BY IdleStop DEF Init, CarriesAll, Stopping
<1>2. SpecInv /\ CarriesAll /\ [Next]_vars => CarriesAll'
  <2>1. ASSUME SpecInv, CarriesAll, Next
        PROVE  CarriesAll'
    BY <2>1, CarriesStep
  <2>2. ASSUME CarriesAll, UNCHANGED vars
        PROVE  CarriesAll'
    BY <2>2 DEF vars, CarriesAll, Stopping
  <2> QED BY <2>1, <2>2
<1>3. SpecInv /\ CarriesAll /\ [Next]_vars
        => [\A i \in Ids(doc) :
              /\ i \in Ids(doc')
              /\ doc'.tasks[i].kind = doc.tasks[i].kind /\ doc'.tasks[i].by = doc.tasks[i].by]_doc
  <2>1. ASSUME SpecInv, CarriesAll, Next
        PROVE  Same(doc, doc')
    BY <2>1, CarriesStep
  <2>2. UNCHANGED vars => UNCHANGED doc
    BY DEF vars
  <2> QED BY <2>1, <2>2 DEF Same
<1> QED BY <1>1, <1>2, <1>3, SpecInvAlways, PTL DEF Spec, TasksKept
=============================================================================
