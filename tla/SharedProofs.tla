---------------------------- MODULE SharedProofs ----------------------------
(***************************************************************************)
(* Theorems about what processes share: the lock files, the records of the *)
(* database, the transcript that judges are shown, the evidence of a       *)
(* session, and the login that calls of the judge use.                     *)
(***************************************************************************)
EXTENDS LockFile, Records, Transcript, Evidence, JudgeCall, TextLemmas

-----------------------------------------------------------------------------
(***************************************************************************)
(* What a sweep may do to the exclusion of a lock file, and no more, for   *)
(* any processes and any finite number of sweeps.                          *)
(*                                                                         *)
(* A sweep removes a name, not a file, so after a removal two files may be *)
(* held at once.  Every further removal takes a sweep that was on its way  *)
(* already: the file made in between is new, and no sweep starts on it.    *)
(* So the files in use and the sweeps on their way together never exceed   *)
(* one more than the sweeps there are.                                     *)
(***************************************************************************)
All == Procs \cup Janitors
Opened == {fd[p] : p \in {q \in Procs : at[q] # "idle"}}
Busy == {j \in Janitors : at[j] # "idle"}

\* The files in use, and a place for the one that the next process creates when
\* the name is gone: no file has the number 0.
InUse == Opened \cup {named}

Typed ==
  /\ named \in 0..made /\ made \in 0..MaxFiles
  /\ old \subseteq 1..made
  /\ holder \in [Files -> All \cup {NoHolder}]
  /\ at \in [All -> {"idle", "polling", "locked", "unlocked", "probing", "trying", "unlinking"}]
  /\ fd \in [All -> 0..made]
  /\ before \in [Janitors -> SUBSET Procs]

(* Whoever is in the body or tries the lock holds its file, and nobody     *)
(* holds another one.                                                      *)
Held ==
  /\ \A p \in Procs : at[p] \in {"idle", "polling", "locked", "unlocked"}
  /\ \A j \in Janitors : at[j] \in {"idle", "probing", "trying", "unlinking"}
  /\ \A x \in All : at[x] \in {"polling", "locked", "unlocked", "probing", "trying"} => fd[x] > 0
  /\ \A p \in Procs : at[p] = "locked" => holder[fd[p]] = p
  /\ \A f \in Files : holder[f] # NoHolder => fd[holder[f]] = f /\ at[holder[f]] \in {"locked", "trying"}

(* As long as the name leads to an old file, no other file is in use; from *)
(* then on every sweep on its way may remove one name more.                *)
Few ==
  IF named \in old THEN Opened \subseteq {named}
  ELSE IsFiniteSet(InUse) /\ Cardinality(InUse) + Cardinality(Busy) <= 1 + Cardinality(Janitors)

(* A sweep that got the lock met nobody in the body.                       *)
Met ==
  \A j \in Janitors :
    /\ at[j] = "probing" => \A p \in before[j] : at[p] = "locked" /\ fd[p] = fd[j]
    /\ at[j] \in {"trying", "unlinking"} => before[j] = {}

LockInv == Typed /\ Held /\ Few /\ Met

LEMMA Started == LockInit => LockInv
<1> SUFFICES ASSUME LockInit PROVE LockInv
  OBVIOUS
<1>1. Typed
  BY LockConstants DEF LockInit, Typed, All, Files, NoHolder
<1>2. Held /\ Met
  BY LockConstants DEF LockInit, Held, Met, All, Files, NoHolder
<1>3. Opened = {} /\ Busy = {} /\ named = 0 /\ old = {}
  BY DEF LockInit, Opened, Busy
<1>4. Few
  <2>1. InUse = {0} /\ named \notin old
    BY <1>3 DEF InUse
  <2>2. IsFiniteSet({0}) /\ Cardinality({0}) = 1
    BY FS_Singleton
  <2>3. Cardinality(Busy) = 0 /\ Cardinality(Janitors) \in Nat
    BY <1>3, LockConstants, FS_EmptySet, FS_CardinalityType
  <2> QED BY <2>1, <2>2, <2>3 DEF Few
<1> QED BY <1>1, <1>2, <1>4 DEF LockInv

(***************************************************************************)
(* The count.                                                              *)
(***************************************************************************)
LEMMA BusyFinite ==
  ASSUME NEW S \in SUBSET Janitors
  PROVE  IsFiniteSet(S) /\ Cardinality(S) \in Nat /\ Cardinality(S) <= Cardinality(Janitors)
         /\ Cardinality(Janitors) \in Nat
BY LockConstants, FS_Subset, FS_CardinalityType

\* No file comes into use, and no sweep sets out.
LEMMA FewAsBefore ==
  ASSUME Few, named \notin old, named' \notin old', InUse' \subseteq InUse, Busy' \subseteq Busy
  PROVE  Few'
<1>1. IsFiniteSet(InUse) /\ Cardinality(InUse) + Cardinality(Busy) <= 1 + Cardinality(Janitors)
  BY DEF Few
<1>2. IsFiniteSet(InUse') /\ Cardinality(InUse') <= Cardinality(InUse)
      /\ Cardinality(InUse) \in Nat /\ Cardinality(InUse') \in Nat
  BY <1>1, FS_Subset, FS_CardinalityType
<1>3. Busy \in SUBSET Janitors /\ Busy' \in SUBSET Busy
  BY DEF Busy
<1>4. Cardinality(Busy') <= Cardinality(Busy) /\ Cardinality(Busy) \in Nat /\ Cardinality(Busy') \in Nat
      /\ Cardinality(Janitors) \in Nat
  BY <1>3, BusyFinite, FS_Subset, FS_CardinalityType
<1> QED BY <1>1, <1>2, <1>4 DEF Few

\* Nor another one than the named one, while that one is old.
LEMMA FewWhileOld ==
  ASSUME Few, named \in old, named' = named, named \in old', Opened' \subseteq Opened \cup {named}
  PROVE  Few'
BY DEF Few

\* The name leads to the same file or to none, and the processes keep theirs or close them.
LEMMA FewQuiet ==
  ASSUME Few, named' = named, old' = old, Opened' \subseteq Opened \cup {named},
         named \in old \/ Busy' \subseteq Busy
  PROVE  Few'
<1>1. CASE named \in old
  BY <1>1, FewWhileOld
<1>2. CASE named \notin old
  <2>1. InUse' \subseteq InUse
    BY DEF InUse
  <2> QED BY <1>2, <2>1, FewAsBefore
<1> QED BY <1>1, <1>2

(***************************************************************************)
(* The processes.                                                          *)
(***************************************************************************)
LEMMA OpenKeeps ==
  ASSUME LockInv, NEW p \in Procs, Open(p)
  PROVE  LockInv'
<1>0. Typed /\ Held /\ Few /\ Met /\ p \in All
  BY DEF LockInv, All
<1>1. PICK f \in 1..MaxFiles :
        /\ fd' = [fd EXCEPT ![p] = f] /\ named' = f
        /\ \/ named = f /\ made' = made
           \/ named = 0 /\ made' = made + 1 /\ f = made + 1
  BY <1>0, LockConstants DEF Open, Typed
<1>2. at[p] = "idle" /\ at' = [at EXCEPT ![p] = "polling"] /\ UNCHANGED <<old, holder, before>>
  BY DEF Open, To
<1>3. made' \in made..MaxFiles /\ f \in 1..made'
  BY <1>0, <1>1, LockConstants DEF Typed
<1>4. Typed'
  BY <1>0, <1>1, <1>2, <1>3, LockConstants DEF Typed
<1>5. \A x \in All : IF x = p THEN at'[x] = "polling" /\ fd'[x] = f ELSE at'[x] = at[x] /\ fd'[x] = fd[x]
  BY <1>0, <1>1, <1>2 DEF Typed
<1>6. Held'
  BY <1>0, <1>2, <1>3, <1>5, LockConstants DEF Held, All, Typed
<1>7. Met'
  BY <1>0, <1>2, <1>5, LockConstants DEF Met, All, Typed
<1>8. Busy' = Busy /\ Opened' = Opened \cup {f}
  <2>1. Busy' = Busy
    BY <1>5, LockConstants DEF Busy, All
  <2>2. Opened' = Opened \cup {f}
    BY <1>2, <1>5 DEF Opened, All
  <2> QED BY <2>1, <2>2
<1>9. Few'
  <2>1. CASE named = f
    BY <1>0, <1>1, <1>2, <1>8, <2>1, FewQuiet
  <2>2. CASE named = 0 /\ f = made + 1
    <3>1. named \notin old /\ named' \notin old'
      BY <1>0, <1>1, <1>2, <2>2 DEF Typed
    <3>2. 0 \notin Opened
      BY <1>0 DEF Opened, Held, All
    <3>3. f \notin Opened
      BY <1>0, <2>2 DEF Opened, Typed, All
    <3>4. InUse = Opened \cup {0} /\ InUse' = Opened \cup {f}
      BY <1>1, <1>8, <2>2 DEF InUse
    <3>5. IsFiniteSet(InUse) /\ Cardinality(InUse) + Cardinality(Busy) <= 1 + Cardinality(Janitors)
      BY <1>0, <3>1 DEF Few
    <3>6. IsFiniteSet(Opened) /\ Cardinality(Opened) \in Nat
      BY <3>4, <3>5, FS_Subset, FS_CardinalityType
    <3>7. IsFiniteSet(InUse') /\ Cardinality(InUse') = Cardinality(InUse)
      <4>1. Cardinality(Opened \cup {0}) = Cardinality(Opened) + 1
        BY <3>2, <3>6, FS_AddElement
      <4>2. IsFiniteSet(Opened \cup {f}) /\ Cardinality(Opened \cup {f}) = Cardinality(Opened) + 1
        BY <3>3, <3>6, FS_AddElement
      <4> QED BY <3>4, <4>1, <4>2
    <3> QED BY <1>8, <3>1, <3>5, <3>7 DEF Few
  <2> QED BY <1>1, <2>1, <2>2
<1> QED BY <1>4, <1>6, <1>7, <1>9 DEF LockInv

LEMMA TakeKeeps ==
  ASSUME LockInv, NEW p \in Procs, Take(p)
  PROVE  LockInv'
<1>0. Typed /\ Held /\ Few /\ Met /\ p \in All
  BY DEF LockInv, All
<1>1. /\ at[p] = "polling" /\ at' = [at EXCEPT ![p] = "locked"]
      /\ holder[fd[p]] = NoHolder /\ holder' = [holder EXCEPT ![fd[p]] = p]
      /\ UNCHANGED <<named, made, old, fd, before>>
  BY DEF Take, To
<1>2. fd[p] \in Files
  BY <1>0, <1>1, LockConstants DEF Held, Typed, Files
<1>3. \A x \in All : at'[x] = IF x = p THEN "locked" ELSE at[x]
  BY <1>0, <1>1 DEF Typed
<1>4. \A f \in Files : holder'[f] = IF f = fd[p] THEN p ELSE holder[f]
  BY <1>0, <1>1 DEF Typed
<1>5. Typed'
  BY <1>0, <1>1, <1>2 DEF Typed
<1>6. Held'
  <2>1. p # NoHolder /\ p \notin Janitors /\ fd[p] > 0
    BY <1>0, <1>1, LockConstants DEF NoHolder, Held
  <2>2. \A q \in Procs : at'[q] = "locked" => holder'[fd[q]] = q
    <3> SUFFICES ASSUME NEW q \in Procs, at'[q] = "locked", q # p PROVE holder'[fd[q]] = q
      BY <1>2, <1>4
    <3>1. q \in All /\ at[q] = "locked" /\ holder[fd[q]] = q /\ q # NoHolder
      BY <1>0, <1>3, LockConstants DEF Held, All, NoHolder
    <3>2. fd[q] \in Files /\ fd[q] # fd[p]
      BY <1>0, <1>1, <3>1, LockConstants DEF Held, Typed, Files
    <3> QED BY <1>4, <3>1, <3>2
  <2>3. \A f \in Files : holder'[f] # NoHolder => fd[holder'[f]] = f /\ at'[holder'[f]] \in {"locked", "trying"}
    BY <1>0, <1>1, <1>3, <1>4, <2>1 DEF Held, Typed
  <2> QED BY <1>0, <1>1, <1>3, <2>1, <2>2, <2>3 DEF Held, All
<1>7. Met'
  BY <1>0, <1>1, <1>3, LockConstants DEF Met, All, Typed
<1>8. Busy' = Busy /\ Opened' = Opened
  BY <1>1, <1>3, LockConstants DEF Busy, Opened, All
<1>9. Few'
  BY <1>0, <1>1, <1>8, FewQuiet
<1> QED BY <1>5, <1>6, <1>7, <1>9 DEF LockInv

LEMMA GiveUpKeeps ==
  ASSUME LockInv, NEW p \in Procs, GiveUp(p)
  PROVE  LockInv'
<1>0. Typed /\ Held /\ Few /\ Met /\ p \in All
  BY DEF LockInv, All
<1>1. /\ at[p] = "polling" /\ at' = [at EXCEPT ![p] = "unlocked"]
      /\ UNCHANGED <<named, made, old, holder, fd, before>>
  BY DEF GiveUp, To
<1>3. \A x \in All : at'[x] = IF x = p THEN "unlocked" ELSE at[x]
  BY <1>0, <1>1 DEF Typed
<1>5. Typed'
  BY <1>0, <1>1 DEF Typed
<1>6. Held'
  BY <1>0, <1>1, <1>3, LockConstants DEF Held, All, Typed
<1>7. Met'
  BY <1>0, <1>1, <1>3, LockConstants DEF Met, All, Typed
<1>8. Busy' = Busy /\ Opened' = Opened
  BY <1>1, <1>3, LockConstants DEF Busy, Opened, All
<1>9. Few'
  BY <1>0, <1>1, <1>8, FewQuiet
<1> QED BY <1>5, <1>6, <1>7, <1>9 DEF LockInv

\* What a process or a sweep held is free, and nothing else is.
LEMMA FreedDoes ==
  ASSUME Typed, NEW x \in All
  PROVE  /\ Freed(x) \in [Files -> All \cup {NoHolder}]
         /\ \A f \in Files : Freed(x)[f] = IF holder[f] = x THEN NoHolder ELSE holder[f]
BY DEF Typed, Freed

LEMMA LeaveKeeps ==
  ASSUME LockInv, NEW p \in Procs, Leave(p)
  PROVE  LockInv'
<1>0. Typed /\ Held /\ Few /\ Met /\ p \in All
  BY DEF LockInv, All
<1>1. /\ at' = [at EXCEPT ![p] = "idle"] /\ fd' = [fd EXCEPT ![p] = 0] /\ holder' = Freed(p)
      /\ before' = [j \in Janitors |-> before[j] \ {p}]
      /\ UNCHANGED <<named, made, old>>
  BY DEF Leave, To, Close
<1>2. /\ holder' \in [Files -> All \cup {NoHolder}]
      /\ \A f \in Files : holder'[f] = IF holder[f] = p THEN NoHolder ELSE holder[f]
  BY <1>0, <1>1, FreedDoes
<1>3. \A x \in All : IF x = p THEN at'[x] = "idle" /\ fd'[x] = 0 ELSE at'[x] = at[x] /\ fd'[x] = fd[x]
  BY <1>0, <1>1 DEF Typed
<1>5. Typed'
  BY <1>0, <1>1, <1>2 DEF Typed
<1>6. Held'
  <2>1. \A q \in Procs : at'[q] = "locked" => holder'[fd'[q]] = q
    <3> SUFFICES ASSUME NEW q \in Procs, at'[q] = "locked" PROVE holder'[fd'[q]] = q
      OBVIOUS
    <3>1. q # p /\ q \in All /\ at[q] = "locked" /\ fd'[q] = fd[q] /\ holder[fd[q]] = q
      BY <1>0, <1>3 DEF Held, All
    <3>2. fd[q] \in Files
      BY <1>0, <3>1, LockConstants DEF Held, Typed, Files
    <3> QED BY <1>2, <3>1, <3>2
  <2>2. \A f \in Files : holder'[f] # NoHolder => fd'[holder'[f]] = f /\ at'[holder'[f]] \in {"locked", "trying"}
    BY <1>0, <1>2, <1>3 DEF Held, Typed
  <2> QED BY <1>0, <1>3, <2>1, <2>2, LockConstants DEF Held, All
<1>7. Met'
  BY <1>0, <1>1, <1>3, LockConstants DEF Met, All, Typed
<1>8. Busy' = Busy /\ Opened' \subseteq Opened
  <2>1. Busy' = Busy
    BY <1>3, LockConstants DEF Busy, All
  <2>2. Opened' \subseteq Opened
    BY <1>3 DEF Opened, All
  <2> QED BY <2>1, <2>2
<1>9. Few'
  BY <1>0, <1>1, <1>8, FewQuiet
<1> QED BY <1>5, <1>6, <1>7, <1>9 DEF LockInv

(***************************************************************************)
(* A sweep.                                                                *)
(***************************************************************************)
LEMMA ProbeKeeps ==
  ASSUME LockInv, NEW j \in Janitors, Probe(j)
  PROVE  LockInv'
<1>0. Typed /\ Held /\ Few /\ Met /\ j \in All
  BY DEF LockInv, All
<1>1. /\ at' = [at EXCEPT ![j] = "probing"] /\ fd' = [fd EXCEPT ![j] = named]
      /\ before' = [before EXCEPT ![j] = {p \in Procs : holder[named] = p}]
      /\ at[j] = "idle" /\ named \in old /\ UNCHANGED <<named, made, old, holder>>
  BY DEF Probe, To
<1>2. named \in Files /\ named \in 0..made
  BY <1>0, <1>1, LockConstants DEF Typed, Files
<1>3. \A x \in All : IF x = j THEN at'[x] = "probing" /\ fd'[x] = named ELSE at'[x] = at[x] /\ fd'[x] = fd[x]
  BY <1>0, <1>1 DEF Typed
<1>5. Typed'
  BY <1>0, <1>1, <1>2 DEF Typed
<1>6. Held'
  BY <1>0, <1>1, <1>2, <1>3, LockConstants DEF Held, All, Typed, Files
<1>7. Met'
  <2>1. \A p \in Procs : holder[named] = p => at[p] = "locked" /\ fd[p] = named
    BY <1>0, <1>2, LockConstants DEF Held, NoHolder
  <2>2. \A i \in Janitors \ {j} : before'[i] = before[i] /\ at'[i] = at[i] /\ fd'[i] = fd[i]
    BY <1>0, <1>1, <1>3 DEF Typed, All
  <2>3. before'[j] = {p \in Procs : holder[named] = p} /\ at'[j] = "probing" /\ fd'[j] = named
    BY <1>0, <1>1, <1>3 DEF Typed
  <2>4. \A p \in Procs : at'[p] = at[p] /\ fd'[p] = fd[p]
    BY <1>3, LockConstants DEF All
  <2> QED BY <1>0, <2>1, <2>2, <2>3, <2>4 DEF Met, Typed
<1>8. Opened' = Opened
  BY <1>3, LockConstants DEF Opened, All
<1>9. Few'
  BY <1>0, <1>1, <1>8, FewQuiet
<1> QED BY <1>5, <1>6, <1>7, <1>9 DEF LockInv

LEMMA TryKeeps ==
  ASSUME LockInv, NEW j \in Janitors, Try(j)
  PROVE  LockInv'
<1>0. Typed /\ Held /\ Few /\ Met /\ j \in All
  BY DEF LockInv, All
<1>1. at[j] = "probing" /\ UNCHANGED <<named, made, old, before>> /\ fd[j] \in Files
  BY <1>0, LockConstants DEF Try, Held, Typed, Files
<1>2. CASE holder[fd[j]] = NoHolder
  <2>1. at' = [at EXCEPT ![j] = "trying"] /\ holder' = [holder EXCEPT ![fd[j]] = j] /\ fd' = fd
    BY <1>2 DEF Try, To
  <2>2. \A x \in All : at'[x] = IF x = j THEN "trying" ELSE at[x]
    BY <1>0, <2>1 DEF Typed
  <2>3. \A f \in Files : holder'[f] = IF f = fd[j] THEN j ELSE holder[f]
    BY <1>0, <2>1 DEF Typed
  <2>4. Typed'
    BY <1>0, <1>1, <2>1 DEF Typed
  <2>5. j # NoHolder /\ j \notin Procs
    BY LockConstants DEF NoHolder
  <2>6. Held'
    <3>1. \A q \in Procs : at'[q] = "locked" => holder'[fd[q]] = q
      <4> SUFFICES ASSUME NEW q \in Procs, at'[q] = "locked" PROVE holder'[fd[q]] = q
        OBVIOUS
      <4>1. q \in All /\ at[q] = "locked" /\ holder[fd[q]] = q /\ q # NoHolder
        BY <1>0, <2>2, <2>5, LockConstants DEF Held, All, NoHolder
      <4>2. fd[q] \in Files /\ fd[q] # fd[j]
        BY <1>0, <1>2, <4>1, LockConstants DEF Held, Typed, Files
      <4> QED BY <2>3, <4>1, <4>2
    <3>2. \A f \in Files : holder'[f] # NoHolder => fd[holder'[f]] = f /\ at'[holder'[f]] \in {"locked", "trying"}
      BY <1>0, <1>1, <2>2, <2>3, <2>5 DEF Held, Typed
    <3> QED BY <1>0, <1>1, <2>1, <2>2, <2>5, <3>1, <3>2 DEF Held, All
  <2>7. Met'
    <3>1. before[j] = {}
      <4> SUFFICES ASSUME NEW p \in before[j] PROVE FALSE
        OBVIOUS
      <4>1. p \in Procs /\ at[p] = "locked" /\ fd[p] = fd[j]
        BY <1>0, <1>1 DEF Met, Typed
      <4> QED BY <1>0, <1>2, <4>1, LockConstants DEF Held, NoHolder
    <3> QED BY <1>0, <1>1, <2>1, <2>2, <2>5, <3>1 DEF Met, All, Typed
  <2>8. Busy' = Busy /\ Opened' = Opened
    BY <1>1, <2>1, <2>2, <2>5 DEF Busy, Opened, All
  <2>9. Few'
    BY <1>0, <1>1, <2>8, FewQuiet
  <2> QED BY <2>4, <2>6, <2>7, <2>9 DEF LockInv
<1>3. CASE holder[fd[j]] # NoHolder
  <2>1. at' = [at EXCEPT ![j] = "idle"] /\ fd' = [fd EXCEPT ![j] = 0] /\ holder' = holder
    BY <1>3 DEF Try, To, Close
  <2>2. \A x \in All : IF x = j THEN at'[x] = "idle" /\ fd'[x] = 0 ELSE at'[x] = at[x] /\ fd'[x] = fd[x]
    BY <1>0, <2>1 DEF Typed
  <2>3. j # NoHolder /\ j \notin Procs
    BY LockConstants DEF NoHolder
  <2>4. Typed'
    BY <1>0, <1>1, <2>1 DEF Typed
  <2>5. Held'
    BY <1>0, <1>1, <2>1, <2>2, <2>3 DEF Held, All, Typed
  <2>6. Met'
    BY <1>0, <1>1, <2>1, <2>2, <2>3 DEF Met, All, Typed
  <2>7. Busy' \subseteq Busy /\ Opened' = Opened
    BY <1>1, <2>2, <2>3 DEF Busy, Opened, All
  <2>8. Few'
    BY <1>0, <1>1, <2>7, FewQuiet
  <2> QED BY <2>4, <2>5, <2>6, <2>8 DEF LockInv
<1> QED BY <1>2, <1>3

LEMMA GiveBackKeeps ==
  ASSUME LockInv, NEW j \in Janitors, GiveBack(j)
  PROVE  LockInv'
<1>0. Typed /\ Held /\ Few /\ Met /\ j \in All
  BY DEF LockInv, All
<1>1. /\ at[j] = "trying" /\ at' = [at EXCEPT ![j] = "unlinking"] /\ fd' = [fd EXCEPT ![j] = 0]
      /\ holder' = Freed(j) /\ UNCHANGED <<named, made, old, before>>
  BY DEF GiveBack, To, Close
<1>2. /\ holder' \in [Files -> All \cup {NoHolder}]
      /\ \A f \in Files : holder'[f] = IF holder[f] = j THEN NoHolder ELSE holder[f]
  BY <1>0, <1>1, FreedDoes
<1>3. \A x \in All : IF x = j THEN at'[x] = "unlinking" /\ fd'[x] = 0 ELSE at'[x] = at[x] /\ fd'[x] = fd[x]
  BY <1>0, <1>1 DEF Typed
<1>4. j \notin Procs
  BY LockConstants
<1>5. Typed'
  BY <1>0, <1>1, <1>2 DEF Typed
<1>6. Held'
  <2>1. \A q \in Procs : at'[q] = "locked" => holder'[fd'[q]] = q
    <3> SUFFICES ASSUME NEW q \in Procs, at'[q] = "locked" PROVE holder'[fd'[q]] = q
      OBVIOUS
    <3>1. q # j /\ q \in All /\ at[q] = "locked" /\ fd'[q] = fd[q] /\ holder[fd[q]] = q
      BY <1>0, <1>3, <1>4 DEF Held, All
    <3>2. fd[q] \in Files
      BY <1>0, <3>1, LockConstants DEF Held, Typed, Files
    <3> QED BY <1>2, <3>1, <3>2
  <2>2. \A f \in Files : holder'[f] # NoHolder => fd'[holder'[f]] = f /\ at'[holder'[f]] \in {"locked", "trying"}
    BY <1>0, <1>2, <1>3 DEF Held, Typed
  <2> QED BY <1>0, <1>3, <1>4, <2>1, <2>2 DEF Held, All
<1>7. Met'
  BY <1>0, <1>1, <1>3, <1>4 DEF Met, All, Typed
<1>8. Busy' = Busy /\ Opened' = Opened
  BY <1>1, <1>3, <1>4 DEF Busy, Opened, All
<1>9. Few'
  BY <1>0, <1>1, <1>8, FewQuiet
<1> QED BY <1>5, <1>6, <1>7, <1>9 DEF LockInv

(* The removal makes room for one more file, and uses up one sweep.        *)
LEMMA UnlinkKeeps ==
  ASSUME LockInv, NEW j \in Janitors, Unlink(j)
  PROVE  LockInv'
<1>0. Typed /\ Held /\ Few /\ Met /\ j \in All
  BY DEF LockInv, All
<1>1. /\ at[j] = "unlinking" /\ at' = [at EXCEPT ![j] = "idle"] /\ named' = 0
      /\ UNCHANGED <<made, old, holder, fd, before>>
  BY DEF Unlink, To
<1>3. \A x \in All : at'[x] = IF x = j THEN "idle" ELSE at[x]
  BY <1>0, <1>1 DEF Typed
<1>4. j \notin Procs
  BY LockConstants
<1>5. Typed'
  BY <1>0, <1>1 DEF Typed
<1>6. Held'
  BY <1>0, <1>1, <1>3, <1>4 DEF Held, All, Typed
<1>7. Met'
  BY <1>0, <1>1, <1>3, <1>4 DEF Met, All, Typed
<1>8. Busy' = Busy \ {j} /\ j \in Busy /\ Opened' = Opened /\ named' \notin old'
  BY <1>0, <1>1, <1>3, <1>4 DEF Busy, Opened, All, Typed
<1>9. InUse' = Opened \cup {0}
  BY <1>1, <1>8 DEF InUse
<1>10. /\ IsFiniteSet(Busy) /\ Cardinality(Busy) \in Nat /\ Cardinality(Busy) <= Cardinality(Janitors)
       /\ Cardinality(Janitors) \in Nat /\ Cardinality(Busy') = Cardinality(Busy) - 1
  <2>1. Busy \in SUBSET Janitors
    BY DEF Busy
  <2> QED BY <1>8, <2>1, BusyFinite, FS_RemoveElement
<1>11. Few'
  <2>1. CASE named \in old
    <3>1. InUse' \subseteq {named} \cup {0}
      BY <1>0, <1>9, <2>1 DEF Few
    <3>2. IsFiniteSet({named} \cup {0}) /\ Cardinality({named} \cup {0}) <= 2
      <4>1. IsFiniteSet({named}) /\ Cardinality({named}) = 1
        BY FS_Singleton
      <4> QED BY <4>1, FS_AddElement
    <3>3. IsFiniteSet(InUse') /\ Cardinality(InUse') <= 2 /\ Cardinality(InUse') \in Nat
      BY <3>1, <3>2, FS_Subset, FS_CardinalityType
    <3> QED BY <1>8, <1>10, <3>3 DEF Few
  <2>2. CASE named \notin old
    <3>1. IsFiniteSet(InUse) /\ Cardinality(InUse) + Cardinality(Busy) <= 1 + Cardinality(Janitors)
      BY <1>0, <2>2 DEF Few
    <3>2. /\ IsFiniteSet(InUse \cup {0}) /\ Cardinality(InUse \cup {0}) <= Cardinality(InUse) + 1
          /\ Cardinality(InUse) \in Nat /\ Cardinality(InUse \cup {0}) \in Nat
      BY <3>1, FS_AddElement, FS_CardinalityType
    <3>3. InUse' \subseteq InUse \cup {0}
      BY <1>9 DEF InUse
    <3>4. IsFiniteSet(InUse') /\ Cardinality(InUse') <= Cardinality(InUse \cup {0}) /\ Cardinality(InUse') \in Nat
      BY <3>2, <3>3, FS_Subset, FS_CardinalityType
    <3> QED BY <1>8, <1>10, <3>1, <3>2, <3>4 DEF Few
  <2> QED BY <2>1, <2>2
<1> QED BY <1>5, <1>6, <1>7, <1>11 DEF LockInv

LEMMA DayKeeps ==
  ASSUME LockInv, DayPasses
  PROVE  LockInv'
<1>0. Typed /\ Held /\ Few /\ Met
  BY DEF LockInv
<1>1. /\ named # 0 /\ \A x \in All : at[x] = "idle"
      /\ old' = old \cup {named} /\ UNCHANGED <<named, made, holder, at, fd, before>>
  BY DEF DayPasses, All
<1>2. Typed'
  BY <1>0, <1>1 DEF Typed
<1>3. Held' /\ Met'
  BY <1>0, <1>1 DEF Held, Met
<1>4. Opened' = {} /\ named' \in old'
  BY <1>1 DEF Opened, All
<1>5. Few'
  BY <1>4 DEF Few
<1> QED BY <1>2, <1>3, <1>5 DEF LockInv

LEMMA StepKeeps == LockInv /\ [LockNext]_lockVars => LockInv'
<1> SUFFICES ASSUME LockInv, [LockNext]_lockVars PROVE LockInv'
  OBVIOUS
<1>1. ASSUME NEW p \in Procs, Open(p) \/ Take(p) \/ GiveUp(p) \/ Leave(p) PROVE LockInv'
  BY <1>1, OpenKeeps, TakeKeeps, GiveUpKeeps, LeaveKeeps
<1>2. ASSUME NEW j \in Janitors, Probe(j) \/ Try(j) \/ GiveBack(j) \/ Unlink(j) PROVE LockInv'
  BY <1>2, ProbeKeeps, TryKeeps, GiveBackKeeps, UnlinkKeeps
<1>3. CASE DayPasses
  BY <1>3, DayKeeps
<1>4. CASE UNCHANGED lockVars
  BY <1>4 DEF lockVars, LockInv, Typed, Held, Few, Met, InUse, Opened, Busy
<1> QED BY <1>1, <1>2, <1>3, <1>4 DEF LockNext

\* Processes in the body hold different files.
LEMMA FewInside == LockInv => HoldersBounded
<1> SUFFICES ASSUME LockInv PROVE HoldersBounded
  OBVIOUS
<1>0. Typed /\ Held /\ Few
  BY DEF LockInv
<1> DEFINE f == [p \in Inside |-> fd[p]]
<1>1. f \in Injection(Inside, Opened)
  <2>1. \A p \in Inside : fd[p] \in Opened /\ holder[fd[p]] = p
    BY <1>0 DEF Inside, Opened, Held
  <2> QED BY <2>1 DEF Injection, IsInjective
<1> HIDE DEF f
<1>2. IsFiniteSet(Opened) /\ Cardinality(Opened) \in Nat /\ Cardinality(Opened) <= 1 + Cardinality(Janitors)
  <2>1. Cardinality(Janitors) \in Nat
    BY LockConstants, FS_CardinalityType
  <2>2. CASE named \in old
    <3>1. Opened \subseteq {named}
      BY <1>0, <2>2 DEF Few
    <3>2. IsFiniteSet(Opened) /\ Cardinality(Opened) <= 1
      <4>1. IsFiniteSet({named}) /\ Cardinality({named}) = 1
        BY FS_Singleton
      <4> QED BY <3>1, <4>1, FS_Subset
    <3> QED BY <2>1, <3>2, FS_CardinalityType
  <2>3. CASE named \notin old
    <3>1. IsFiniteSet(InUse) /\ Cardinality(InUse) + Cardinality(Busy) <= 1 + Cardinality(Janitors)
      BY <1>0, <2>3 DEF Few
    <3>2. Opened \in SUBSET InUse /\ Busy \in SUBSET Janitors
      BY DEF InUse, Busy
    <3>3. IsFiniteSet(Opened) /\ Cardinality(Opened) <= Cardinality(InUse)
          /\ Cardinality(Opened) \in Nat /\ Cardinality(InUse) \in Nat
      BY <3>1, <3>2, FS_Subset, FS_CardinalityType
    <3>4. Cardinality(Busy) \in Nat
      BY <3>2, BusyFinite
    <3> QED BY <2>1, <3>1, <3>3, <3>4
  <2> QED BY <2>2, <2>3
<1>3. IsFiniteSet(Inside) /\ Cardinality(Inside) <= Cardinality(Opened)
  BY <1>1, <1>2, FS_Injection
<1>4. Cardinality(Inside) \in Nat /\ Cardinality(Janitors) \in Nat
  BY <1>3, LockConstants, FS_CardinalityType
<1> QED BY <1>2, <1>3, <1>4 DEF HoldersBounded

-----------------------------------------------------------------------------
(* A process that was in the body when a sweep opened its file, and is in  *)
(* it still, keeps the file; and at most one process more than there are   *)
(* sweeps is in the body, however they open, poll, give up and die.        *)
THEOREM LockAlwaysHolds == LockSpec => LockHolds
<1>1. LockInv /\ [LockNext]_lockVars => [HolderSpared /\ HoldersBounded']_lockVars
  <2> SUFFICES ASSUME LockInv, LockNext PROVE HolderSpared /\ HoldersBounded'
    OBVIOUS
  <2>1. HoldersBounded'
    <3>1. LockInv'
      BY StepKeeps
    <3>2. LockInv' => HoldersBounded'
      BY FewInside, PTL
    <3> QED BY <3>1, <3>2
  <2>2. HolderSpared
    BY DEF HolderSpared, LockInv, Met
  <2> QED BY <2>1, <2>2
<1> QED BY <1>1, Started, StepKeeps, PTL DEF LockSpec, LockHolds

-----------------------------------------------------------------------------
(***************************************************************************)
(* What hooks and users of the records may lose of them.  A hook whose copy *)
(* was not overtaken has all the row has, so its save loses no mark; the   *)
(* counter is ahead of every number given out, so that no two findings get *)
(* the same one.                                                           *)
(***************************************************************************)
Marks == Hooks \cup {"old"}
Finding == [by : Users \cup {"old"}, open : BOOLEAN]
HookStates == [pc : {"idle", "missed", "loaded", "dropped", "done"}, copy : SUBSET Marks, stale : BOOLEAN]

RecordsTyped ==
  /\ row = NoRow \/ row \subseteq Marks
  /\ hook \in [Hooks -> HookStates]
  /\ finds \in [DOMAIN finds -> Finding] /\ counter \in Nat /\ moves \in Nat
  /\ minted \subseteq [id : Nat, by : Users \cup {"old"}]
  /\ spoiled \in BOOLEAN

(* A copy that nothing was stored past has what the row has.               *)
CopiesFresh ==
  \A h \in Hooks : ~hook[h].stale =>
    /\ hook[h].pc = "missed" => row = NoRow
    /\ hook[h].pc = "loaded" /\ row # NoRow => row \subseteq hook[h].copy

(* The numbers given out are the findings there are, and the counter is    *)
(* ahead of them.                                                          *)
Numbered ==
  moves = 0 /\ ~spoiled =>
    /\ DOMAIN finds = {m.id : m \in minted} /\ DOMAIN finds \subseteq 1..counter
    /\ closed \subseteq DOMAIN finds

RecordsInv ==
  RecordsTyped /\ CopiesFresh /\ Numbered /\ ActivityKept /\ OneFindingPerNumber /\ FindingsKept

LEMMA RecordsStarted == RecordsInit => RecordsInv
<1> SUFFICES ASSUME RecordsInit PROVE RecordsInv
  OBVIOUS
<1>1. HookIdle \in HookStates /\ HookIdle.pc = "idle"
  BY DEF HookIdle, HookStates
<1>2. DOMAIN finds = {} /\ finds \in [DOMAIN finds -> Finding]
  BY DEF RecordsInit
<1>3. RecordsTyped
  BY <1>1, <1>2 DEF RecordsInit, RecordsTyped
<1>4. CopiesFresh /\ ActivityKept
  BY <1>1 DEF RecordsInit, CopiesFresh, ActivityKept
<1>5. Numbered /\ OneFindingPerNumber /\ FindingsKept
  BY <1>2 DEF RecordsInit, Numbered, OneFindingPerNumber, FindingsKept
<1> QED BY <1>3, <1>4, <1>5 DEF RecordsInv

(* The ledger and the findings have the file in common, and nothing else.  *)
LEMMA FindingsAlone ==
  ASSUME RecordsInv, UNCHANGED <<finds, counter, minted, closed, moves>>, spoiled => spoiled'
  PROVE  Numbered' /\ OneFindingPerNumber' /\ FindingsKept'
BY DEF RecordsInv, Numbered, OneFindingPerNumber, FindingsKept

LEMMA LedgerAlone ==
  ASSUME RecordsInv, UNCHANGED <<row, acts, hook, moves>>
  PROVE  CopiesFresh' /\ ActivityKept' /\ MarksKept
BY DEF RecordsInv, CopiesFresh, ActivityKept, MarksKept

(* Whoever stores makes the copies of the others stale.                    *)
LEMMA OthersStale ==
  ASSUME RecordsTyped, NEW h \in Hooks
  PROVE  /\ StaleHooks(h) \in [Hooks -> HookStates]
         /\ \A g \in Hooks : /\ StaleHooks(h)[g].pc = hook[g].pc /\ StaleHooks(h)[g].copy = hook[g].copy
                             /\ g # h /\ hook[g].pc \in {"missed", "loaded"} => StaleHooks(h)[g].stale
         /\ StaleHooks(h)[h].stale = hook[h].stale
<1>1. \A g \in Hooks : hook[g] \in HookStates
  BY DEF RecordsTyped
<1> DEFINE stale(g) == hook[g].stale \/ (g # h /\ hook[g].pc \in {"missed", "loaded"})
<1>2. \A g \in Hooks : StaleHooks(h)[g] = [hook[g] EXCEPT !.stale = stale(g)]
  BY DEF StaleHooks
<1>3. \A g \in Hooks : stale(g) \in BOOLEAN
  BY <1>1 DEF HookStates
<1>4. \A g \in Hooks :
        LET st == StaleHooks(h)[g] IN
        st \in HookStates /\ st.pc = hook[g].pc /\ st.copy = hook[g].copy /\ st.stale = stale(g)
  <2> SUFFICES ASSUME NEW g \in Hooks
               PROVE  LET st == StaleHooks(h)[g] IN
                      st \in HookStates /\ st.pc = hook[g].pc /\ st.copy = hook[g].copy /\ st.stale = stale(g)
    OBVIOUS
  <2> DEFINE b == stale(g)
             k == hook[g]
  <2>1. k \in HookStates /\ b \in BOOLEAN /\ StaleHooks(h)[g] = [k EXCEPT !.stale = b]
    BY <1>1, <1>2, <1>3
  <2> HIDE DEF b, k, stale
  <2>2. LET st == [k EXCEPT !.stale = b] IN
        st \in HookStates /\ st.pc = k.pc /\ st.copy = k.copy /\ st.stale = b
    BY <2>1 DEF HookStates
  <2> QED BY <2>1, <2>2 DEF b, k
<1>5. StaleHooks(h) \in [Hooks -> HookStates]
  BY <1>4 DEF StaleHooks
<1>6. stale(h) = hook[h].stale
  BY <1>1 DEF HookStates
<1>7. \A g \in Hooks : g # h /\ hook[g].pc \in {"missed", "loaded"} => stale(g)
  OBVIOUS
<1> HIDE DEF stale
<1> QED BY <1>4, <1>5, <1>6, <1>7

LEMMA LoadsKeep ==
  ASSUME RecordsInv, NEW h \in Hooks, NEW fails \in BOOLEAN, HookLoads(h, fails)
  PROVE  RecordsInv' /\ MarksKept
<1>0. RecordsTyped /\ CopiesFresh /\ ActivityKept
  BY DEF RecordsInv
<1> DEFINE missing == fails \/ (row = NoRow /\ acts = {})
           new == [pc |-> IF missing THEN "missed" ELSE "loaded", stale |-> fails,
                   copy |-> IF missing \/ row = NoRow THEN {} ELSE row]
<1>1. hook[h].pc = "idle" /\ hook' = [hook EXCEPT ![h] = new]
      /\ UNCHANGED <<row, acts, finds, counter, user, minted, closed, moves, spoiled>>
  BY DEF HookLoads, fvars
<1>2. new \in HookStates
  BY <1>0 DEF RecordsTyped, HookStates
<1>3. /\ new.pc \in {"missed", "loaded"}
      /\ ~new.stale /\ new.pc = "missed" => row = NoRow
      /\ new.pc = "loaded" /\ row # NoRow => new.copy = row
  OBVIOUS
<1> HIDE DEF new
<1>4. hook'[h] = new /\ hook' \in [Hooks -> HookStates] /\ \A g \in Hooks \ {h} : hook'[g] = hook[g]
  BY <1>0, <1>1, <1>2 DEF RecordsTyped
<1>5. RecordsTyped'
  BY <1>0, <1>1, <1>4 DEF RecordsTyped
<1>6. CopiesFresh'
  BY <1>0, <1>1, <1>3, <1>4 DEF CopiesFresh
<1>7. ActivityKept'
  BY <1>0, <1>1, <1>3, <1>4 DEF ActivityKept
<1>8. MarksKept
  BY <1>1 DEF MarksKept
<1> QED BY <1>1, <1>5, <1>6, <1>7, <1>8, FindingsAlone DEF RecordsInv

LEMMA ImportsKeep ==
  ASSUME RecordsInv, NEW h \in Hooks, HookImports(h)
  PROVE  RecordsInv' /\ MarksKept
<1>0. RecordsTyped /\ CopiesFresh /\ ActivityKept
  BY DEF RecordsInv
<1>1. hook[h].pc = "missed" /\ UNCHANGED <<acts, finds, counter, user, minted, closed, moves>>
  BY DEF HookImports, fvars
<1>2. CASE LegacyLedger
  <2>1. /\ row' = OldRow /\ spoiled' = (spoiled \/ row # NoRow)
        /\ hook' = [StaleHooks(h) EXCEPT ![h].pc = "loaded", ![h].copy = OldRow]
    BY <1>2 DEF HookImports
  <2>2. OldRow \subseteq Marks
    BY DEF OldRow, Marks
  <2> DEFINE others == StaleHooks(h)
             mine == [others[h] EXCEPT !.pc = "loaded", !.copy = OldRow]
  <2>a. others \in [Hooks -> HookStates]
    BY <1>0, OthersStale
  <2> HIDE DEF others
  <2>b. mine \in HookStates /\ mine.pc = "loaded" /\ mine.copy = OldRow
    BY <2>a, <2>2 DEF HookStates
  <2>c. hook' = [others EXCEPT ![h] = mine]
    BY <2>1, <2>a DEF others, HookStates
  <2>3. /\ hook' \in [Hooks -> HookStates] /\ hook'[h].pc = "loaded" /\ hook'[h].copy = OldRow
        /\ \A g \in Hooks \ {h} : hook'[g] = StaleHooks(h)[g]
    <3> HIDE DEF mine
    <3> QED BY <2>a, <2>b, <2>c DEF others
  <2>4. \A g \in Hooks \ {h} : hook'[g].pc = hook[g].pc /\ (hook[g].pc \in {"missed", "loaded"} => hook'[g].stale)
    BY <1>0, <2>3, OthersStale
  <2>5. RecordsTyped'
    BY <1>0, <1>1, <2>1, <2>2, <2>3 DEF RecordsTyped
  <2>6. CopiesFresh'
    BY <2>1, <2>3, <2>4 DEF CopiesFresh
  <2>7. ActivityKept'
    BY <1>0, <1>1, <2>3, <2>4 DEF ActivityKept
  <2>8. MarksKept
    BY <2>1 DEF MarksKept
  <2> QED BY <1>1, <2>1, <2>5, <2>6, <2>7, <2>8, FindingsAlone DEF RecordsInv
<1>3. CASE ~LegacyLedger
  <2>1. hook' = [hook EXCEPT ![h].pc = "loaded"] /\ UNCHANGED <<row, spoiled>>
    BY <1>3 DEF HookImports
  <2>2. /\ hook' \in [Hooks -> HookStates] /\ hook'[h].pc = "loaded" /\ hook'[h].stale = hook[h].stale
        /\ \A g \in Hooks \ {h} : hook'[g] = hook[g]
    BY <1>0, <2>1 DEF RecordsTyped, HookStates
  <2>3. RecordsTyped'
    BY <1>0, <1>1, <2>1, <2>2 DEF RecordsTyped
  <2>4. CopiesFresh'
    BY <1>0, <1>1, <2>1, <2>2 DEF CopiesFresh
  <2>5. ActivityKept'
    BY <1>0, <1>1, <2>2 DEF ActivityKept
  <2>6. MarksKept
    BY <2>1 DEF MarksKept
  <2> QED BY <1>1, <2>1, <2>3, <2>4, <2>5, <2>6, FindingsAlone DEF RecordsInv
<1> QED BY <1>2, <1>3

(* A save keeps what is in the row unless its copy is stale.               *)
LEMMA SavesKeep ==
  ASSUME RecordsInv, NEW h \in Hooks, HookSaves(h)
  PROVE  RecordsInv' /\ MarksKept
<1>0. RecordsTyped /\ CopiesFresh /\ ActivityKept
  BY DEF RecordsInv
<1>1. /\ hook[h].pc = "loaded" /\ row' = hook[h].copy \cup {h} /\ acts' = acts \cup {h}
      /\ hook' = [StaleHooks(h) EXCEPT ![h].pc = "done"]
      /\ UNCHANGED <<finds, counter, user, minted, closed, moves, spoiled>>
  BY DEF HookSaves, fvars
<1>2. hook[h].copy \subseteq Marks /\ row' \subseteq Marks
  BY <1>0, <1>1 DEF RecordsTyped, HookStates, Marks
<1>3. /\ hook' \in [Hooks -> HookStates] /\ hook'[h].pc = "done"
      /\ \A g \in Hooks \ {h} : hook'[g] = StaleHooks(h)[g]
  BY <1>0, <1>1, OthersStale DEF HookStates
<1>4. \A g \in Hooks \ {h} : hook'[g].pc = hook[g].pc /\ (hook[g].pc \in {"missed", "loaded"} => hook'[g].stale)
  BY <1>0, <1>3, OthersStale
<1>5. RecordsTyped'
  BY <1>0, <1>1, <1>2, <1>3 DEF RecordsTyped
<1>6. CopiesFresh'
  BY <1>3, <1>4 DEF CopiesFresh
<1>7. ActivityKept'
  BY <1>0, <1>1, <1>3, <1>4 DEF ActivityKept
<1>8. row' # NoRow
  BY <1>2, RecordsConstants DEF Marks
<1>9. MarksKept
  BY <1>0, <1>1, <1>3, <1>8 DEF CopiesFresh, MarksKept
<1> QED BY <1>1, <1>5, <1>6, <1>7, <1>9, FindingsAlone DEF RecordsInv

(* What is dropped changes no row, and the hook no longer saves its copy,  *)
(* or has one of the old file where it had none.                           *)
LEMMA DropsKeep ==
  ASSUME RecordsInv, NEW h \in Hooks, HookDrops(h)
  PROVE  RecordsInv' /\ MarksKept
<1>0. RecordsTyped /\ CopiesFresh /\ ActivityKept
  BY DEF RecordsInv
<1>1. UNCHANGED <<row, acts, finds, counter, user, minted, closed, moves, spoiled>>
  BY DEF HookDrops, fvars
<1>2. /\ hook' \in [Hooks -> HookStates] /\ hook'[h].pc \in {"loaded", "dropped"}
      /\ hook'[h].stale = hook[h].stale /\ (hook'[h].pc = "loaded" => hook[h].pc = "missed")
      /\ \A g \in Hooks \ {h} : hook'[g] = hook[g]
  <2>1. OldRow \subseteq Marks /\ hook[h] \in HookStates
    BY <1>0 DEF OldRow, Marks, RecordsTyped
  <2> DEFINE imported == [hook[h] EXCEPT !.pc = "loaded", !.copy = OldRow]
             dropped == [hook[h] EXCEPT !.pc = "dropped"]
  <2>2. /\ imported \in HookStates /\ imported.pc = "loaded" /\ imported.stale = hook[h].stale
        /\ dropped \in HookStates /\ dropped.pc = "dropped" /\ dropped.stale = hook[h].stale
    BY <2>1 DEF HookStates
  <2>3. \/ hook[h].pc = "missed" /\ hook' = [hook EXCEPT ![h] = imported]
        \/ hook' = [hook EXCEPT ![h] = dropped]
    BY <1>0 DEF HookDrops, RecordsTyped, HookStates
  <2> HIDE DEF imported, dropped
  <2> QED BY <1>0, <2>2, <2>3 DEF RecordsTyped
<1>3. RecordsTyped'
  BY <1>0, <1>1, <1>2 DEF RecordsTyped
<1>4. CopiesFresh'
  BY <1>0, <1>1, <1>2 DEF CopiesFresh
<1>5. ActivityKept'
  BY <1>0, <1>1, <1>2 DEF ActivityKept
<1>6. MarksKept
  BY <1>1 DEF MarksKept
<1> QED BY <1>1, <1>3, <1>4, <1>5, <1>6, FindingsAlone DEF RecordsInv

(* Findings.                                                               *)
LEMMA NumbersOf ==
  ASSUME NEW given, NEW x
  PROVE  {m.id : m \in given \cup {x}} = {m.id : m \in given} \cup {x.id}
OBVIOUS

LEMMA FindingsImportKeeps ==
  ASSUME RecordsInv, NEW u \in Users, UserImports(u)
  PROVE  RecordsInv' /\ MarksKept
<1>0. RecordsTyped /\ Numbered /\ OneFindingPerNumber /\ FindingsKept
  BY DEF RecordsInv
<1>1. UNCHANGED <<row, acts, hook, moves, closed>>
  BY DEF UserImports, lvars
<1>2. CASE LegacyFindings
  <2>1. /\ finds' = OldFinds /\ counter' = 1 /\ spoiled' = (spoiled \/ counter # 0)
        /\ minted' = minted \cup {[id |-> 1, by |-> "old"]}
    BY <1>2 DEF UserImports
  <2>2. /\ DOMAIN finds' = {1} /\ finds'[1] = [by |-> "old", open |-> TRUE]
        /\ finds' \in [DOMAIN finds' -> Finding]
    BY <2>1 DEF OldFinds, Finding
  <2>3. RecordsTyped'
    <3>1. minted' \subseteq [id : Nat, by : Users \cup {"old"}]
      BY <1>0, <2>1 DEF RecordsTyped
    <3>2. spoiled' \in BOOLEAN /\ counter' \in Nat
      BY <1>0, <2>1 DEF RecordsTyped
    <3> QED BY <1>0, <1>1, <2>2, <3>1, <3>2 DEF RecordsTyped
  <2>4. ASSUME moves' = 0, ~spoiled'
        PROVE  minted' = {[id |-> 1, by |-> "old"]} /\ closed' = {} /\ counter' = 1
    <3>1. moves = 0 /\ ~spoiled /\ counter = 0
      BY <1>1, <2>1, <2>4
    <3>2. DOMAIN finds = {m.id : m \in minted} /\ DOMAIN finds \subseteq 1..0 /\ closed \subseteq DOMAIN finds
      BY <1>0, <3>1 DEF Numbered
    <3>3. DOMAIN finds = {}
      BY <3>2
    <3>4. minted = {} /\ closed = {}
      BY <3>2, <3>3
    <3> QED BY <1>1, <2>1, <3>4
  <2>5. Numbered'
    <3> SUFFICES ASSUME moves' = 0, ~spoiled' PROVE Numbered'
      BY DEF Numbered
    <3> DEFINE first == [id |-> 1, by |-> "old"]
    <3>0. first.id = 1
      OBVIOUS
    <3> HIDE DEF first
    <3>1. {m.id : m \in minted'} = {1}
      BY <2>4, <3>0, \A m : m \in {first} <=> m = first DEF first
    <3> QED BY <2>2, <2>4, <3>1 DEF Numbered
  <2>6. OneFindingPerNumber' /\ FindingsKept'
    BY <2>2, <2>4 DEF OneFindingPerNumber, FindingsKept
  <2> QED BY <1>1, <2>3, <2>5, <2>6, LedgerAlone DEF RecordsInv
<1>3. CASE ~LegacyFindings
  <2>1. UNCHANGED <<finds, counter, minted, spoiled>>
    BY <1>3 DEF UserImports
  <2>2. RecordsTyped'
    BY <1>0, <1>1, <2>1 DEF RecordsTyped
  <2> QED BY <1>1, <2>1, <2>2, FindingsAlone, LedgerAlone DEF RecordsInv
<1> QED BY <1>2, <1>3

LEMMA AddKeeps ==
  ASSUME RecordsInv, NEW u \in Users, UserAdds(u)
  PROVE  RecordsInv' /\ MarksKept
<1>0. RecordsTyped /\ Numbered /\ OneFindingPerNumber /\ FindingsKept
  BY DEF RecordsInv
<1> DEFINE n == counter + 1
           new == [by |-> u, open |-> TRUE]
<1>1. UNCHANGED <<row, acts, hook, moves, closed, spoiled>>
  BY DEF UserAdds, lvars
<1>2. CASE n \in DOMAIN finds
  <2>1. UNCHANGED <<finds, counter, minted>>
    BY <1>2 DEF UserAdds
  <2>2. RecordsTyped'
    BY <1>0, <1>1, <2>1 DEF RecordsTyped
  <2> QED BY <1>1, <2>1, <2>2, FindingsAlone, LedgerAlone DEF RecordsInv
<1>3. CASE n \notin DOMAIN finds
  <2>1. /\ counter' = n /\ minted' = minted \cup {[id |-> n, by |-> u]}
        /\ finds' = [i \in DOMAIN finds \cup {n} |-> IF i = n THEN new ELSE finds[i]]
    BY <1>3 DEF UserAdds, Inserted
  <2>2. /\ DOMAIN finds' = DOMAIN finds \cup {n} /\ finds'[n] = new
        /\ \A i \in DOMAIN finds : finds'[i] = finds[i]
    BY <1>3, <2>1
  <2>3. new \in Finding /\ n \in Nat
    BY <1>0 DEF Finding, RecordsTyped
  <2>4. finds' \in [DOMAIN finds' -> Finding]
    <3>1. \A i \in DOMAIN finds' : finds'[i] \in Finding
      BY <1>0, <2>2, <2>3 DEF RecordsTyped
    <3>2. finds' = [i \in DOMAIN finds' |-> finds'[i]]
      BY <2>1
    <3> QED BY <3>1, <3>2
  <2>5. RecordsTyped'
    <3>1. minted' \subseteq [id : Nat, by : Users \cup {"old"}]
      BY <1>0, <2>1, <2>3 DEF RecordsTyped
    <3>2. counter' \in Nat
      BY <2>1, <2>3
    <3> QED BY <1>0, <1>1, <2>4, <3>1, <3>2 DEF RecordsTyped
  <2>10. n \in Nat /\ counter < n
    BY <1>0 DEF RecordsTyped
  <2> HIDE DEF n
  <2>6. moves = 0 /\ ~spoiled => \A m \in minted : m.id # n /\ m.id \in DOMAIN finds
    BY <1>0, <1>3 DEF Numbered
  <2>7. Numbered'
    <3> SUFFICES ASSUME moves = 0, ~spoiled PROVE Numbered'
      BY <1>1 DEF Numbered
    <3>1. DOMAIN finds = {m.id : m \in minted} /\ DOMAIN finds \subseteq 1..counter /\ closed \subseteq DOMAIN finds
      BY <1>0 DEF Numbered
    <3>2. DOMAIN finds' = {m.id : m \in minted'}
      <4> DEFINE given == [id |-> n, by |-> u]
      <4>1. given.id = n
        OBVIOUS
      <4>2. minted' = minted \cup {given}
        BY <2>1
      <4> HIDE DEF given
      <4>3. {m.id : m \in minted'} = {m.id : m \in minted} \cup {n}
        BY <4>1, <4>2, NumbersOf
      <4> QED BY <2>2, <3>1, <4>3
    <3>3. DOMAIN finds' \subseteq 1..counter'
      BY <1>0, <2>1, <2>2, <2>10, <3>1 DEF RecordsTyped
    <3>4. closed' \subseteq DOMAIN finds'
      BY <1>1, <2>2, <3>1
    <3> QED BY <3>2, <3>3, <3>4 DEF Numbered
  <2>8. OneFindingPerNumber'
    BY <1>0, <1>1, <2>1, <2>6 DEF OneFindingPerNumber
  <2>9. FindingsKept'
    <3> SUFFICES ASSUME moves = 0, ~spoiled
                 PROVE  /\ \A m \in minted' : m.id \in DOMAIN finds' /\ finds'[m.id].by = m.by
                        /\ \A id \in closed' : ~finds'[id].open
      BY <1>1 DEF FindingsKept
    <3>1. \A m \in minted : m.id \in DOMAIN finds /\ finds[m.id].by = m.by
      BY <1>0 DEF FindingsKept
    <3>2. \A id \in closed : id \in DOMAIN finds /\ ~finds[id].open
      BY <1>0 DEF FindingsKept, Numbered
    <3> QED BY <1>1, <2>1, <2>2, <3>1, <3>2
  <2> QED BY <1>1, <2>5, <2>7, <2>8, <2>9, LedgerAlone DEF RecordsInv
<1> QED BY <1>2, <1>3

LEMMA CloseKeeps ==
  ASSUME RecordsInv, NEW u \in Users, UserCloses(u)
  PROVE  RecordsInv' /\ MarksKept
<1>0. RecordsTyped /\ Numbered /\ OneFindingPerNumber /\ FindingsKept
  BY DEF RecordsInv
<1> DEFINE id == user[u].id
<1>1. UNCHANGED <<row, acts, hook, moves, counter, minted, spoiled>>
  BY DEF UserCloses, lvars
<1>2. CASE id \notin DOMAIN finds
  <2>1. UNCHANGED <<finds, closed>>
    BY <1>2 DEF UserCloses
  <2>2. RecordsTyped'
    BY <1>0, <1>1, <2>1 DEF RecordsTyped
  <2> QED BY <1>1, <2>1, <2>2, FindingsAlone, LedgerAlone DEF RecordsInv
<1>3. CASE id \in DOMAIN finds
  <2>1. finds' = [finds EXCEPT ![id].open = FALSE] /\ closed' = closed \cup {id}
    BY <1>3 DEF UserCloses
  <2> HIDE DEF id
  <2>2. \A i \in DOMAIN finds : finds[i] \in Finding
    BY <1>0 DEF RecordsTyped
  <2>3. /\ DOMAIN finds' = DOMAIN finds
        /\ \A i \in DOMAIN finds \ {id} : finds'[i] = finds[i]
        /\ finds'[id] \in Finding /\ finds'[id].by = finds[id].by /\ ~finds'[id].open
    BY <1>3, <2>1, <2>2 DEF Finding
  <2>4. finds' \in [DOMAIN finds' -> Finding]
    BY <1>0, <1>3, <2>1, <2>2, <2>3 DEF RecordsTyped
  <2>5. RecordsTyped'
    BY <1>0, <1>1, <2>4 DEF RecordsTyped
  <2>6. Numbered' /\ OneFindingPerNumber'
    BY <1>0, <1>1, <1>3, <2>1, <2>3 DEF Numbered, OneFindingPerNumber
  <2>7. FindingsKept'
    <3> SUFFICES ASSUME moves = 0, ~spoiled
                 PROVE  /\ \A m \in minted' : m.id \in DOMAIN finds' /\ finds'[m.id].by = m.by
                        /\ \A i \in closed' : ~finds'[i].open
      BY <1>1 DEF FindingsKept
    <3>1. \A m \in minted : m.id \in DOMAIN finds /\ finds[m.id].by = m.by
      BY <1>0 DEF FindingsKept
    <3>2. \A i \in closed : i \in DOMAIN finds /\ ~finds[i].open
      BY <1>0 DEF FindingsKept, Numbered
    <3> QED BY <1>1, <2>1, <2>3, <3>1, <3>2
  <2> QED BY <1>1, <2>5, <2>6, <2>7, LedgerAlone DEF RecordsInv
<1> QED BY <1>2, <1>3

LEMMA MoveKeeps == ASSUME RecordsInv, MovedAside PROVE RecordsInv' /\ MarksKept
<1>0. RecordsTyped /\ CopiesFresh
  BY DEF RecordsInv
<1>1. /\ moves' = moves + 1 /\ row' = NoRow /\ acts' = {} /\ finds' = <<>> /\ counter' = 0
      /\ UNCHANGED <<hook, user, failures, minted, closed, spoiled>>
  BY DEF MovedAside
<1>2. moves' \in Nat /\ moves' > moves /\ moves' # 0
  BY <1>0, <1>1 DEF RecordsTyped
<1>3. finds' \in [DOMAIN finds' -> Finding]
  BY <1>1
<1>4. RecordsTyped'
  BY <1>0, <1>1, <1>2, <1>3 DEF RecordsTyped
<1>5. CopiesFresh'
  BY <1>0, <1>1 DEF CopiesFresh
<1>6. Numbered' /\ ActivityKept' /\ OneFindingPerNumber' /\ FindingsKept'
  BY <1>2 DEF Numbered, ActivityKept, OneFindingPerNumber, FindingsKept
<1>7. MarksKept
  BY <1>2 DEF MarksKept
<1> QED BY <1>4, <1>5, <1>6, <1>7 DEF RecordsInv

LEMMA RecordsStep ==
  ASSUME RecordsInv, [RecordsNext]_recordVars
  PROVE  RecordsInv' /\ [MarksKept /\ (ActivityKept /\ OneFindingPerNumber /\ FindingsKept)']_recordVars
<1> SUFFICES RecordsInv' /\ (MarksKept \/ UNCHANGED recordVars)
  BY DEF RecordsInv
<1>1. ASSUME NEW h \in Hooks, NEW fails \in BOOLEAN, HookLoads(h, fails) PROVE RecordsInv' /\ MarksKept
  BY <1>1, LoadsKeep
<1>2. ASSUME NEW h \in Hooks, HookImports(h) \/ HookSaves(h) \/ HookDrops(h) PROVE RecordsInv' /\ MarksKept
  BY <1>2, ImportsKeep, SavesKeep, DropsKeep
<1>3. ASSUME NEW u \in Users, NEW op \in {"add", "close"}, NEW fails \in BOOLEAN,
             UserLooks(u, op, fails) \/ UserDrops(u)
      PROVE  RecordsInv' /\ MarksKept
  <2>1. UNCHANGED <<row, acts, hook, finds, counter, moves, minted, closed, spoiled>>
    BY <1>3 DEF UserLooks, UserDrops, lvars
  <2>2. RecordsTyped'
    BY <2>1 DEF RecordsInv, RecordsTyped
  <2> QED BY <2>1, <2>2, FindingsAlone, LedgerAlone DEF RecordsInv
<1>4. ASSUME NEW u \in Users, UserImports(u) \/ UserAdds(u) \/ UserCloses(u) PROVE RecordsInv' /\ MarksKept
  BY <1>4, FindingsImportKeeps, AddKeeps, CloseKeeps
<1>5. CASE MovedAside
  BY <1>5, MoveKeeps
<1>6. CASE UNCHANGED recordVars
  <2>1. UNCHANGED <<row, acts, hook, finds, counter, moves, minted, closed, spoiled>>
    BY <1>6 DEF recordVars
  <2>2. RecordsTyped'
    BY <2>1 DEF RecordsInv, RecordsTyped
  <2> QED BY <2>1, <2>2, FindingsAlone, LedgerAlone DEF RecordsInv
<1> QED BY <1>1, <1>2, <1>3, <1>4, <1>5, <1>6 DEF RecordsNext, LedgerNext, FindingsNext

(***************************************************************************)
(* Activity, marks and findings once stored stay, however hooks and users  *)
(* load and save at once and fail to, but for the losses that failed       *)
(* reads, overtaken saves, imports and a file moved aside account for (db, *)
(* ledger, findings).                                                      *)
(***************************************************************************)
THEOREM RecordsAlwaysKept == RecordsSpec => RecordsKept
<1>1. RecordsInit => RecordsInv
  BY RecordsStarted
<1>2. RecordsInv /\ [RecordsNext]_recordVars
        => RecordsInv' /\ [MarksKept /\ (ActivityKept /\ OneFindingPerNumber /\ FindingsKept)']_recordVars
  BY RecordsStep
<1> QED BY <1>1, <1>2, PTL DEF RecordsSpec, RecordsKept
-----------------------------------------------------------------------------
(***************************************************************************)
(* The transcript, for any texts, lengths, budgets and settings.           *)
(*                                                                         *)
(* Sequences of which one begins with the other flatten to such sequences. *)
(***************************************************************************)
Begins(s, t) == Len(s) <= Len(t) /\ \A k \in 1..Len(s) : t[k] = s[k]

LEMMA BeginsOn ==
  ASSUME NEW S, NEW x \in Seq(S), NEW u \in Seq(S), NEW v \in Seq(S), Begins(x, u)
  PROVE  Begins(x, u \o v)
<1>1. Len(x) \in Nat /\ Len(u) \in Nat /\ Len(v) \in Nat
  OBVIOUS
<1>2. Len(u \o v) = Len(u) + Len(v)
  BY ConcatProperties
<1>3. ASSUME NEW k \in 1..Len(x) PROVE (u \o v)[k] = x[k]
  <2>1. k \in 1..Len(u) /\ k \in 1..(Len(u) + Len(v)) /\ u[k] = x[k]
    BY <1>1 DEF Begins
  <2>2. (u \o v)[k] = IF k <= Len(u) THEN u[k] ELSE v[k - Len(u)]
    BY <2>1, ConcatProperties
  <2> QED BY <2>1, <2>2
<1> QED BY <1>1, <1>2, <1>3 DEF Begins

LEMMA FlattenBegins ==
  ASSUME NEW S, NEW s \in Seq(Seq(S)), NEW t \in Seq(Seq(S)), Begins(s, t)
  PROVE  FlattenSeq(s) \in Seq(S) /\ FlattenSeq(t) \in Seq(S) /\ Begins(FlattenSeq(s), FlattenSeq(t))
<1>1. Len(s) \in Nat /\ Len(t) \in Nat /\ Len(s) <= Len(t) /\ \A k \in 1..Len(s) : t[k] = s[k]
  BY DEF Begins
<1>2. CASE Len(s) = 0
  <2>1. FlattenSeq(s) = s /\ s = << >>
    BY <1>2 DEF FlattenSeq
  <2>2. FlattenSeq(t) \in Seq(S)
    <3>1. CASE Len(t) = 0
      <4>1. FlattenSeq(t) = t /\ t = << >>
        BY <3>1 DEF FlattenSeq
      <4> QED BY <4>1
    <3>2. CASE Len(t) # 0
      <4>1. PICK g : JoinsUpTo(t, Len(t), g) /\ FlattenSeq(t) = g[Len(t)]
        BY <3>2, <1>1, FlattenIs
      <4> QED BY <4>1, <3>2, <1>1, JoinsTyped
    <3> QED BY <3>1, <3>2
  <2>3. Len(FlattenSeq(s)) = 0 /\ FlattenSeq(s) \in Seq(S)
    BY <2>1, <1>2
  <2>4. Len(FlattenSeq(t)) \in Nat
    BY <2>2
  <2> QED BY <2>2, <2>3, <2>4 DEF Begins
<1>3. CASE Len(s) # 0
  <2>1. PICK f : JoinsUpTo(s, Len(s), f) /\ FlattenSeq(s) = f[Len(s)]
    BY <1>3, <1>1, FlattenIs
  <2>2. PICK g : JoinsUpTo(t, Len(t), g) /\ FlattenSeq(t) = g[Len(t)]
    BY <1>3, <1>1, FlattenIs
  <2>3. (\A i \in 1..Len(s) : f[i] \in Seq(S)) /\ (\A i \in 1..Len(t) : g[i] \in Seq(S))
    BY <2>1, <2>2, JoinsTyped
  <2>4. /\ \A i \in 1..Len(s) : f[i] = IF i = 1 THEN s[i] ELSE f[i - 1] \o s[i]
        /\ \A i \in 1..Len(t) : g[i] = IF i = 1 THEN t[i] ELSE g[i - 1] \o t[i]
    BY <2>1, <2>2 DEF JoinsUpTo
  <2> DEFINE T == {n \in Nat : n \in 1..Len(s) => g[n] = f[n]}
             U == {n \in Nat : Len(s) + n <= Len(t) => Begins(f[Len(s)], g[Len(s) + n])}
  <2>5. T = Nat
    <3>1. 0 \in T
      OBVIOUS
    <3>2. ASSUME NEW n \in T PROVE n + 1 \in T
      <4>1. SUFFICES ASSUME n + 1 \in 1..Len(s) PROVE g[n + 1] = f[n + 1]
        OBVIOUS
      <4>2. n + 1 \in 1..Len(t) /\ t[n + 1] = s[n + 1] /\ (n # 0 => g[n] = f[n])
        BY <4>1, <1>1
      <4> QED BY <4>1, <4>2, <2>4
    <3> HIDE DEF T
    <3>3. T \in SUBSET Nat
      BY DEF T
    <3> QED BY <3>1, <3>2, <3>3, Induction
  <2>6. U = Nat
    <3>1. 0 \in U
      <4>1. g[Len(s)] = f[Len(s)] /\ f[Len(s)] \in Seq(S)
        BY <1>1, <1>3, <2>3, <2>5
      <4> QED BY <4>1, <1>1 DEF Begins
    <3>2. ASSUME NEW n \in U PROVE n + 1 \in U
      <4> DEFINE i == Len(s) + n
      <4>1. SUFFICES ASSUME i + 1 <= Len(t) PROVE Begins(f[Len(s)], g[i + 1])
        BY <1>1
      <4>2. /\ i \in 1..Len(t) /\ i + 1 \in 1..Len(t) /\ i + 1 # 1
            /\ Begins(f[Len(s)], g[i])
        BY <4>1, <1>1, <1>3
      <4> HIDE DEF i, U
      <4>3. g[i + 1] = g[i] \o t[i + 1] /\ g[i] \in Seq(S) /\ t[i + 1] \in Seq(S) /\ f[Len(s)] \in Seq(S)
        <5>1. (i + 1) - 1 = i /\ t[i + 1] \in Seq(S) /\ Len(s) \in 1..Len(s)
          BY <4>2, <1>1, <1>3
        <5> QED BY <5>1, <4>2, <2>3, <2>4
      <4> QED BY <4>2, <4>3, BeginsOn
    <3> HIDE DEF U
    <3>3. U \in SUBSET Nat
      BY DEF U
    <3> QED BY <3>1, <3>2, <3>3, Induction
  <2>7. Len(t) - Len(s) \in U
    <3> HIDE DEF U
    <3> QED BY <2>6, <1>1
  <2>8. Begins(f[Len(s)], g[Len(t)])
    <3>1. Len(s) + (Len(t) - Len(s)) = Len(t)
      BY <1>1
    <3> QED BY <2>7, <3>1, <1>1
  <2> QED BY <2>1, <2>2, <2>3, <2>8, <1>1, <1>3
<1> QED BY <1>2, <1>3

(***************************************************************************)
(* Where the window begins: it keeps at most the budget and, once it drops *)
(* something, more than the budget less a chunk; and a longer text moves   *)
(* it by whole chunks.                                                     *)
(***************************************************************************)
LEMMA StepsCover ==
  ASSUME NEW o \in Nat \ {0}, Chunk # 0
  PROVE  /\ Steps(o) \in Nat \ {0}
         /\ Steps(o) * Chunk \in Nat
         /\ o <= Steps(o) * Chunk /\ Steps(o) * Chunk < o + Chunk
<1> DEFINE a == o + Chunk - 1
           q == a \div Chunk
<1>1. Chunk \in Nat \ {0} /\ a \in Nat
  BY RetentionConstants
<1>2. q \in Int /\ Chunk * q <= a /\ a < Chunk * q + Chunk
  <2>1. a \in Nat /\ Chunk \in Nat \ {0}
    BY <1>1
  <2> HIDE DEF a
  <2> QED BY <2>1, Z3
<1> QED BY <1>1, <1>2 DEF Steps

LEMMA StartBounds ==
  ASSUME NEW n \in Nat
  PROVE  /\ StickyStart(n) \in 0..n
         /\ n - StickyStart(n) <= Budget
         /\ StickyStart(n) > 0 => n - StickyStart(n) > Budget - Chunk \/ (Chunk = 0 /\ n - StickyStart(n) = Budget)
<1>1. Budget \in Nat \ {0} /\ Chunk \in Nat /\ Chunk <= Budget
  BY RetentionConstants
<1>2. CASE n <= Budget
  BY <1>1, <1>2 DEF StickyStart
<1>3. CASE n > Budget /\ Chunk = 0
  BY <1>1, <1>3 DEF StickyStart
<1>4. CASE n > Budget /\ Chunk # 0
  <2> DEFINE start == Steps(n - Budget) * Chunk
  <2>1. start \in Nat /\ n - Budget <= start /\ start < n - Budget + Chunk
    BY <1>1, <1>4, StepsCover
  <2>2. StickyStart(n) = start
    BY <2>1, <1>1, <1>4 DEF StickyStart
  <2> HIDE DEF start
  <2> QED BY <2>1, <2>2, <1>1, <1>4
<1> QED BY <1>1, <1>2, <1>3, <1>4

LEMMA StartMoves ==
  ASSUME NEW m \in Nat, NEW n \in Nat, m <= n
  PROVE  StickyStart(n) = StickyStart(m) \/ StickyStart(n) >= StickyStart(m) + Chunk
<1>1. Budget \in Nat \ {0} /\ Chunk \in Nat /\ Chunk <= Budget
  BY RetentionConstants
<1>2. CASE n <= Budget
  BY <1>1, <1>2 DEF StickyStart
<1>3. CASE n > Budget /\ Chunk = 0
  BY <1>1, <1>3 DEF StickyStart
<1>4. CASE n > Budget /\ Chunk # 0
  <2> DEFINE j == Steps(n - Budget)
             i == Steps(m - Budget)
  <2>1. /\ j \in Nat \ {0} /\ j * Chunk \in Nat
        /\ n - Budget <= j * Chunk /\ j * Chunk < n - Budget + Chunk
    BY <1>1, <1>4, StepsCover
  <2>2. StickyStart(n) = j * Chunk
    BY <2>1, <1>1, <1>4 DEF StickyStart
  <2>3. CASE m <= Budget
    <3>1. StickyStart(m) = 0
      BY <2>3 DEF StickyStart
    <3> HIDE DEF j
    <3>2. j * Chunk >= Chunk
      BY <2>1, <1>1, Z3
    <3> QED BY <2>2, <3>1, <3>2, <1>1
  <2>4. CASE m > Budget
    <3>1. /\ i \in Nat \ {0} /\ i * Chunk \in Nat
          /\ m - Budget <= i * Chunk /\ i * Chunk < m - Budget + Chunk
      BY <1>1, <1>4, <2>4, StepsCover
    <3>2. StickyStart(m) = i * Chunk
      BY <3>1, <1>1, <1>4, <2>4 DEF StickyStart
    <3> HIDE DEF i, j
    <3>3. i * Chunk < j * Chunk + Chunk
      BY <2>1, <3>1, <1>1
    <3>4. j >= i
      <4> SUFFICES ASSUME j + 1 <= i PROVE FALSE
        BY <2>1, <3>1
      <4>1. (j + 1) * Chunk <= i * Chunk
        BY <2>1, <3>1, <1>1, Z3
      <4>2. (j + 1) * Chunk = j * Chunk + Chunk
        BY <2>1, <1>1, Z3
      <4> QED BY <4>1, <4>2, <3>3, <2>1, <3>1, <1>1
    <3>5. CASE j = i
      BY <3>5, <2>2, <3>2
    <3>6. CASE j >= i + 1
      <4>1. (i + 1) * Chunk <= j * Chunk
        BY <2>1, <3>1, <3>6, <1>1, Z3
      <4>2. (i + 1) * Chunk = i * Chunk + Chunk
        BY <3>1, <1>1, Z3
      <4> QED BY <4>1, <4>2, <2>2, <3>2
    <3> QED BY <3>4, <3>5, <3>6, <2>1, <3>1
  <2> QED BY <1>1, <2>3, <2>4
<1> QED BY <1>1, <1>2, <1>3, <1>4

LEMMA FittedBounded ==
  ASSUME NEW prefix \in Nat, NEW body \in Nat, NEW suffix \in Nat
  PROVE  Fitted(prefix, body, suffix) <= MaxSize
BY RetentionConstants DEF Fitted, Capped

LEMMA RetainedIs ==
  ASSUME NEW S, NEW text \in Seq(S)
  PROVE  /\ Retained(text) \in Seq(S)
         /\ Len(Retained(text)) = Len(text) - StickyStart(Len(text))
         /\ \A k \in 1..Len(Retained(text)) : Retained(text)[k] = text[StickyStart(Len(text)) + k]
<1> DEFINE n == Len(text)
           m == StickyStart(n) + 1
<1>1. n \in Nat /\ StickyStart(n) \in 0..n
  BY StartBounds
<1>2. \A i \in m..n : text[i] \in S
  BY <1>1
<1>3. /\ SubSeq(text, m, n) \in Seq(S)
      /\ Len(SubSeq(text, m, n)) = IF m <= n THEN n - m + 1 ELSE 0
      /\ \A i \in 1 .. n - m + 1 : SubSeq(text, m, n)[i] = text[m + i - 1]
  BY <1>1, <1>2, SubSeqProperties
<1>4. Len(Retained(text)) = n - StickyStart(n)
  BY <1>1, <1>3 DEF Retained
<1>5. ASSUME NEW k \in 1..Len(Retained(text)) PROVE Retained(text)[k] = text[StickyStart(n) + k]
  <2>1. k \in 1 .. n - m + 1 /\ m + k - 1 = StickyStart(n) + k
    BY <1>1, <1>4
  <2> QED BY <2>1, <1>3 DEF Retained
<1> QED BY <1>3, <1>4, <1>5 DEF Retained

LEMMA BeginsPrefix ==
  ASSUME NEW S, NEW s \in Seq(S), NEW t \in Seq(S), Begins(s, t)
  PROVE  IsPrefix(s, t)
<1> DEFINE n == Len(s)
           a == SubSeq(s, 1, n)
           b == SubSeq(t, 1, n)
<1>1. n \in Nat /\ n <= Len(t) /\ \A k \in 1..n : t[k] = s[k] /\ s[k] \in S
  BY DEF Begins
<1>2. a \in Seq(S) /\ Len(a) = n /\ \A i \in 1..n : a[i] = s[i]
  <2>1. /\ a \in Seq(S) /\ Len(a) = IF 1 <= n THEN n - 1 + 1 ELSE 0
        /\ \A i \in 1 .. n - 1 + 1 : a[i] = s[1 + i - 1]
    BY <1>1, SubSeqProperties
  <2> QED BY <2>1, <1>1
<1>3. b \in Seq(S) /\ Len(b) = n /\ \A i \in 1..n : b[i] = t[i]
  <2>1. /\ b \in Seq(S) /\ Len(b) = IF 1 <= n THEN n - 1 + 1 ELSE 0
        /\ \A i \in 1 .. n - 1 + 1 : b[i] = t[1 + i - 1]
    BY <1>1, SubSeqProperties
  <2> QED BY <2>1, <1>1
<1>4. a = b
  <2> HIDE DEF a, b
  <2> QED BY <1>1, <1>2, <1>3, SeqEqual
<1> QED BY <1>1, <1>4 DEF IsPrefix

LEMMA RetainedBegins ==
  ASSUME NEW S, NEW s \in Seq(S), NEW t \in Seq(S), Begins(s, t),
         StickyStart(Len(s)) = StickyStart(Len(t))
  PROVE  IsPrefix(Retained(s), Retained(t))
<1>1. /\ Retained(s) \in Seq(S) /\ Len(Retained(s)) = Len(s) - StickyStart(Len(s))
      /\ \A k \in 1..Len(Retained(s)) : Retained(s)[k] = s[StickyStart(Len(s)) + k]
  BY RetainedIs
<1>2. /\ Retained(t) \in Seq(S) /\ Len(Retained(t)) = Len(t) - StickyStart(Len(t))
      /\ \A k \in 1..Len(Retained(t)) : Retained(t)[k] = t[StickyStart(Len(t)) + k]
  BY RetainedIs
<1>3. Len(s) \in Nat /\ Len(t) \in Nat /\ StickyStart(Len(s)) \in 0..Len(s)
  <2>1. Len(s) \in Nat /\ Len(t) \in Nat
    OBVIOUS
  <2> QED BY <2>1, StartBounds
<1>4. ASSUME NEW k \in 1..Len(Retained(s)) PROVE Retained(t)[k] = Retained(s)[k]
  <2>1. k \in 1..Len(Retained(t)) /\ StickyStart(Len(s)) + k \in 1..Len(s)
    BY <1>1, <1>2, <1>3 DEF Begins
  <2> QED BY <2>1, <1>1, <1>2 DEF Begins
<1>5. Begins(Retained(s), Retained(t))
  BY <1>1, <1>2, <1>3, <1>4 DEF Begins
<1> QED BY <1>1, <1>2, <1>5, BeginsPrefix

(***************************************************************************)
(* What is rendered: with compaction off, the text of the lines that were  *)
(* written whole stays the beginning of what later readers make of it.     *)
(***************************************************************************)
Chars == Nat \X {"raw", "compact", "whole"} \X Nat
Wholes(n) == FlattenSeq([i \in 1..n |-> TextOf(i, "whole", Whole)])
Written == IF half THEN Len(lines) - 1 ELSE Len(lines)

LEMMA TextTyped ==
  ASSUME NEW i \in Nat, NEW form \in {"raw", "compact", "whole"}, NEW n \in Nat
  PROVE  TextOf(i, form, n) \in Seq(Chars)
<1>1. \A k \in 1..n : <<i, form, k>> \in Chars
  BY DEF Chars
<1> HIDE DEF Chars
<1> QED BY <1>1 DEF TextOf

LEMMA RenderedTyped ==
  ASSUME Len(lines) \in Nat
  PROVE  /\ [i \in 1..Len(lines) |-> Rendered(i)] \in Seq(Seq(Chars))
         /\ Len([i \in 1..Len(lines) |-> Rendered(i)]) = Len(lines)
         /\ Stripped \in Seq(Chars)
<1> DEFINE s == [i \in 1..Len(lines) |-> Rendered(i)]
<1>1. ASSUME NEW i \in 1..Len(lines) PROVE Rendered(i) \in Seq(Chars)
  <2>1. i \in Nat /\ 1 \in Nat /\ Short \in Nat /\ Whole \in Nat
    BY TranscriptConstants
  <2>2. TextOf(i, "raw", 1) \in Seq(Chars)
    BY <2>1, TextTyped
  <2>3. TextOf(i, "compact", Short) \in Seq(Chars)
    BY <2>1, TextTyped
  <2>4. TextOf(i, "whole", Whole) \in Seq(Chars)
    BY <2>1, TextTyped
  <2> QED BY <2>2, <2>3, <2>4 DEF Rendered
<1>2. s \in Seq(Seq(Chars)) /\ Len(s) = Len(lines)
  BY <1>1
<1>3. Begins(s, s)
  BY <1>2 DEF Begins
<1>4. FlattenSeq(s) \in Seq(Chars)
  <2> HIDE DEF s
  <2> QED BY <1>2, <1>3, FlattenBegins
<1> QED BY <1>2, <1>4 DEF Stripped

LEMMA WholesBegin ==
  ASSUME recent = 0, Len(lines) \in Nat, half \in BOOLEAN, NEW n \in 0..Written
  PROVE  Wholes(n) \in Seq(Chars) /\ Begins(Wholes(n), Stripped)
<1> DEFINE s == [i \in 1..n |-> TextOf(i, "whole", Whole)]
           t == [i \in 1..Len(lines) |-> Rendered(i)]
<1>1. n \in Nat /\ n <= Len(lines) /\ (half => n < Len(lines))
  BY DEF Written
<1>2. \A i \in 1..n : TextOf(i, "whole", Whole) \in Seq(Chars)
  BY <1>1, TranscriptConstants, TextTyped
<1>3. s \in Seq(Seq(Chars)) /\ Len(s) = n
  BY <1>1, <1>2
<1>4. t \in Seq(Seq(Chars)) /\ Len(t) = Len(lines)
  BY RenderedTyped
<1>5. \A i \in 1..n : t[i] = s[i]
  BY <1>1 DEF Rendered, Compacted
<1>6. Begins(s, t)
  <2> HIDE DEF s, t
  <2> QED BY <1>1, <1>3, <1>4, <1>5 DEF Begins
<1>7. FlattenSeq(s) \in Seq(Chars) /\ Begins(FlattenSeq(s), FlattenSeq(t))
  <2> HIDE DEF s, t
  <2> QED BY <1>3, <1>4, <1>6, FlattenBegins
<1> QED BY <1>7 DEF Wholes, Stripped

LEMMA StrippedWhole ==
  ASSUME recent = 0, ~half, Len(lines) \in Nat
  PROVE  Stripped = Wholes(Len(lines))
<1>1. \A i \in 1..Len(lines) : Rendered(i) = TextOf(i, "whole", Whole)
  BY DEF Rendered, Compacted
<1>2. [i \in 1..Len(lines) |-> Rendered(i)] = [i \in 1..Len(lines) |-> TextOf(i, "whole", Whole)]
  BY <1>1
<1> QED BY <1>2 DEF Stripped, Wholes

(***************************************************************************)
(* The invariant.  Without compaction, what a judge was last shown is the  *)
(* window of the lines that were whole then, and they are whole still.     *)
(***************************************************************************)
LastShown ==
  recent = 0 /\ ~shown.half =>
    \E n \in 0..Written : shown.start = StickyStart(Len(Wholes(n))) /\ shown.text = Retained(Wholes(n))

ReadsInv ==
  /\ lines \in Seq(Kinds) /\ half \in BOOLEAN /\ (half => lines # << >>)
  /\ shown.text \in Seq(Chars) /\ shown.start \in Nat
  /\ LastShown /\ WindowBounded

LEMMA ReadsInvInit == TranscriptInit => ReadsInv
<1> SUFFICES ASSUME TranscriptInit PROVE ReadsInv
  OBVIOUS
<1>1. lines = << >> /\ ~half /\ half \in BOOLEAN
  BY DEF TranscriptInit
<1>2. shown.start = 0 /\ shown.text = << >> /\ shown.half = FALSE /\ shown.size = 0
  BY DEF TranscriptInit
<1>3. Len(lines) = 0 /\ Written = 0
  BY <1>1 DEF Written
<1>4. Wholes(0) = << >>
  BY DEF Wholes, FlattenSeq
<1>5. StickyStart(0) = 0 /\ Retained(<< >>) = << >>
  BY RetentionConstants DEF StickyStart, Retained
<1>6. LastShown
  BY <1>2, <1>3, <1>4, <1>5 DEF LastShown
<1>7. WindowBounded
  BY <1>2, RetentionConstants DEF WindowBounded
<1> QED BY <1>1, <1>2, <1>6, <1>7 DEF ReadsInv

(***************************************************************************)
(* What a judge call shows is bounded, and continues what the last showed. *)
(***************************************************************************)
LEMMA ShowsSteady ==
  ASSUME ReadsInv, NEW prefix \in Wrappers, NEW suffix \in Wrappers, Shows(prefix, suffix)
  PROVE  ReadsInv' /\ PrefixKept
<1> DEFINE text == Stripped
           n == Len(text)
<1>1. Len(lines) \in Nat /\ half \in BOOLEAN
  BY DEF ReadsInv
<1>2. text \in Seq(Chars) /\ n \in Nat
  BY <1>1, RenderedTyped
<1>3. /\ shown'.start = StickyStart(n) /\ shown'.text = Retained(text) /\ shown'.half = half
      /\ shown'.size = Fitted(prefix, Len(Retained(text)), suffix)
      /\ UNCHANGED <<lines, half, recent>>
  BY DEF Shows
<1>4. /\ Retained(text) \in Seq(Chars) /\ Len(Retained(text)) = n - StickyStart(n)
      /\ StickyStart(n) \in 0..n /\ n - StickyStart(n) <= Budget
      /\ StickyStart(n) > 0 => n - StickyStart(n) > Budget - Chunk \/ (Chunk = 0 /\ n - StickyStart(n) = Budget)
  BY <1>2, RetainedIs, StartBounds
<1> HIDE DEF text, n
<1>5. WindowBounded'
  <2>1. prefix \in Nat /\ suffix \in Nat /\ Len(Retained(text)) \in Nat
    BY <1>2, <1>4, TranscriptConstants
  <2>2. shown'.size <= MaxSize
    BY <2>1, <1>3, FittedBounded
  <2> QED BY <2>2, <1>3, <1>4 DEF WindowBounded
<1>6. LastShown'
  <2> SUFFICES ASSUME recent = 0, ~half
               PROVE  \E k \in 0..Written' : /\ shown'.start = StickyStart(Len(Wholes(k)))
                                             /\ shown'.text = Retained(Wholes(k))
    BY <1>3 DEF LastShown, Wholes, TextOf
  <2>1. text = Wholes(Len(lines))
    BY <1>1, StrippedWhole DEF text
  <2>2. Written' = Len(lines) /\ Len(lines) \in 0..Len(lines)
    BY <1>1, <1>3 DEF Written
  <2> QED BY <2>1, <2>2, <1>3 DEF n
<1>7. PrefixKept
  <2> SUFFICES ASSUME recent = 0, ~shown.half
               PROVE  /\ SamePrefix
                      /\ shown'.start = shown.start \/ shown'.start >= shown.start + Chunk
    BY DEF PrefixKept
  <2>1. PICK k \in 0..Written : /\ shown.start = StickyStart(Len(Wholes(k)))
                                /\ shown.text = Retained(Wholes(k))
    BY DEF ReadsInv, LastShown
  <2>2. Wholes(k) \in Seq(Chars) /\ Begins(Wholes(k), text)
    BY <1>1, WholesBegin DEF text
  <2>3. Len(Wholes(k)) \in Nat /\ Len(Wholes(k)) <= n
    BY <2>2 DEF Begins, n
  <2>4. shown'.start = shown.start \/ shown'.start >= shown.start + Chunk
    BY <2>1, <2>3, <1>2, <1>3, StartMoves
  <2>5. SamePrefix
    BY <2>1, <2>2, <1>2, <1>3, RetainedBegins DEF SamePrefix, n
  <2> QED BY <2>4, <2>5
<1> QED BY <1>3, <1>4, <1>5, <1>6, <1>7, ReadsInv DEF ReadsInv

(***************************************************************************)
(* What the host writes leaves what was shown alone.                       *)
(***************************************************************************)
LEMMA WritesSteady ==
  ASSUME ReadsInv, UNCHANGED <<shown, recent>>, lines' \in Seq(Kinds), half' \in BOOLEAN,
         half' => lines' # << >>, Written <= Written'
  PROVE  ReadsInv' /\ PrefixKept
<1>1. LastShown'
  <2> SUFFICES ASSUME recent = 0, ~shown.half
               PROVE  \E k \in 0..Written' : /\ shown.start = StickyStart(Len(Wholes(k)))
                                             /\ shown.text = Retained(Wholes(k))
    BY DEF LastShown, Wholes, TextOf
  <2>1. PICK k \in 0..Written : /\ shown.start = StickyStart(Len(Wholes(k)))
                                /\ shown.text = Retained(Wholes(k))
    BY DEF ReadsInv, LastShown
  <2>2. Written \in Int /\ Written' \in Int
    BY DEF ReadsInv, Written
  <2> QED BY <2>1, <2>2
<1>2. WindowBounded'
  BY DEF ReadsInv, WindowBounded
<1>3. PrefixKept
  <2>1. IsPrefix(shown.text, shown.text)
    BY BeginsPrefix DEF ReadsInv, Begins
  <2> QED BY <2>1 DEF PrefixKept, SamePrefix, ReadsInv
<1> QED BY <1>1, <1>2, <1>3 DEF ReadsInv

(***************************************************************************)
(* The lineage is the last prompt written whole; there is a last one.      *)
(***************************************************************************)
WholePrompts == {i \in 1 .. Len(lines) : ~(half /\ i = Len(lines)) /\ IsPrompt(i)}

LEMMA LineageStays ==
  ASSUME Len(lines) \in Nat, WholePrompts' = WholePrompts, \A i \in WholePrompts : lines'[i] = lines[i]
  PROVE  Fingerprint' = Fingerprint
<1>1. Fingerprint = IF WholePrompts = {} THEN "" ELSE lines[CHOOSE i \in WholePrompts : \A j \in WholePrompts : j <= i]
  BY DEF Fingerprint, WholePrompts
<1>2. Fingerprint' = IF WholePrompts' = {} THEN ""
                     ELSE lines'[CHOOSE i \in WholePrompts' : \A j \in WholePrompts' : j <= i]
  BY DEF Fingerprint, WholePrompts
<1>3. WholePrompts # {} => \E i \in WholePrompts : \A j \in WholePrompts : j <= i
  BY GreatestExists DEF WholePrompts
<1> QED BY <1>1, <1>2, <1>3

(***************************************************************************)
(* Every step of the host and every judge call keeps the window within its *)
(* limits and in its place, and the lineage with the prompts.              *)
(***************************************************************************)
LEMMA StepSteady ==
  ASSUME ReadsInv, [TranscriptNext]_transcriptVars
  PROVE  ReadsInv' /\ PrefixKept /\ LineageFollowsPrompts
<1>1. lines \in Seq(Kinds) /\ Len(lines) \in Nat /\ half \in BOOLEAN
  BY DEF ReadsInv
<1>2. ASSUME NEW kind \in Kinds, Writes(kind) PROVE ReadsInv' /\ PrefixKept /\ LineageFollowsPrompts
  <2>1. /\ ~half /\ lines' = Append(lines, kind) /\ half' \in BOOLEAN /\ UNCHANGED <<shown, recent>>
    BY <1>2 DEF Writes
  <2>2. /\ lines' \in Seq(Kinds) /\ Len(lines') = Len(lines) + 1 /\ lines'[Len(lines) + 1] = kind
        /\ \A i \in 1..Len(lines) : lines'[i] = lines[i]
    BY <2>1, <1>1
  <2>3. lines' # << >>
    BY <2>2, <1>1
  <2>4. Written <= Written'
    BY <2>1, <2>2, <1>1 DEF Written
  <2>5. LineageFollowsPrompts
    <3>1. CASE ~half' /\ kind \in Prompts
      BY <3>1, <2>2, <1>1 DEF LineageFollowsPrompts
    <3>2. CASE half' \/ kind \notin Prompts
      <4>1. WholePrompts' = WholePrompts
        BY <3>2, <2>1, <2>2, <1>1 DEF WholePrompts, IsPrompt
      <4>2. Fingerprint' = Fingerprint
        BY <4>1, <2>2, <1>1, LineageStays DEF WholePrompts
      <4> QED BY <4>2 DEF LineageFollowsPrompts
    <3> QED BY <3>1, <3>2, <2>1
  <2> QED BY <2>1, <2>2, <2>3, <2>4, <2>5, WritesSteady
<1>3. CASE Completes
  <2>1. half /\ half' = FALSE /\ UNCHANGED <<lines, recent, shown>> /\ lines # << >>
    BY <1>3 DEF Completes, ReadsInv
  <2>2. Written <= Written'
    BY <2>1, <1>1 DEF Written
  <2>3. LineageFollowsPrompts
    <3>1. CASE lines[Len(lines)] \in Prompts
      BY <3>1, <2>1 DEF LineageFollowsPrompts
    <3>2. CASE lines[Len(lines)] \notin Prompts
      <4>1. WholePrompts' = WholePrompts
        BY <3>2, <2>1, <1>1 DEF WholePrompts, IsPrompt
      <4>2. Fingerprint' = Fingerprint
        BY <4>1, <2>1, <1>1, LineageStays
      <4> QED BY <4>2 DEF LineageFollowsPrompts
    <3> QED BY <3>1, <3>2
  <2> QED BY <2>1, <2>2, <2>3, <1>1, WritesSteady
<1>4. ASSUME NEW prefix \in Wrappers, NEW suffix \in Wrappers, Shows(prefix, suffix)
      PROVE  ReadsInv' /\ PrefixKept /\ LineageFollowsPrompts
  <2>1. ReadsInv' /\ PrefixKept
    BY <1>4, ShowsSteady
  <2>2. UNCHANGED <<lines, half>>
    BY <1>4 DEF Shows
  <2>3. Fingerprint' = Fingerprint
    BY <2>2 DEF Fingerprint, IsPrompt
  <2> QED BY <2>1, <2>3 DEF LineageFollowsPrompts
<1>5. CASE UNCHANGED transcriptVars
  <2>1. UNCHANGED <<lines, half, recent, shown>>
    BY <1>5 DEF transcriptVars
  <2>2. Written' = Written /\ Written \in Int
    BY <2>1, <1>1 DEF Written
  <2>3. Fingerprint' = Fingerprint
    BY <2>1 DEF Fingerprint, IsPrompt
  <2>4. ReadsInv' /\ PrefixKept
    BY <2>1, <2>2, WritesSteady DEF ReadsInv
  <2> QED BY <2>3, <2>4 DEF LineageFollowsPrompts
<1> QED BY <1>2, <1>3, <1>4, <1>5 DEF TranscriptNext

(***************************************************************************)
(* A transcript that grows while it is read gives each reader a window     *)
(* within its bounds that later ones extend, and one task at a time.       *)
(***************************************************************************)
THEOREM ReadsAlwaysSteady == TranscriptSpec => ReadsSteady
<1>1. TranscriptInit => ReadsInv
  BY ReadsInvInit
<1>2. ReadsInv /\ [TranscriptNext]_transcriptVars => ReadsInv'
  BY StepSteady
<1>3. ReadsInv /\ [TranscriptNext]_transcriptVars =>
        [PrefixKept /\ LineageFollowsPrompts /\ WindowBounded']_transcriptVars
  BY StepSteady DEF ReadsInv
<1> QED BY <1>1, <1>2, <1>3, PTL DEF TranscriptSpec, ReadsSteady

-----------------------------------------------------------------------------
(***************************************************************************)
(* What the ledger knows counts once and opens the gate, for any paths,    *)
(* markers, URLs, hooks and imported cites.                                *)
(***************************************************************************)
Document == [harness : SUBSET Paths, agent : SUBSET Imported, prior : SUBSET Urls]
Activity == [read : SUBSET Paths, fetched : SUBSET Urls]
Hook ==
  [at : {"idle", "loaded", "judging"}, mem : Document, act : Activity,
   verdict : {"none", "open", "closed"}, due : BOOLEAN]

EvidenceTyped ==
  /\ files \in SUBSET Paths
  /\ ledger \in Activity /\ did \in Activity
  /\ doc \in Document
  /\ post = None \/ post \in Activity
  /\ gate \in [Gates -> Hook]

(* No copy of the document cites a source twice.                           *)
Distinct(d) == \A u, v \in d.prior : Key[u] = Key[v] => u = v
CopiesDistinct == Distinct(doc) /\ \A h \in Gates : Distinct(gate[h].mem)

(***************************************************************************)
(* What a hook that is due an open gate can count on until it judges.  The *)
(* stored document cites some file it knows of if its copy does, and the   *)
(* URLs of its copy, so that a hook that finds nothing to save leaves a    *)
(* document that will do.  That it has every cite of the copy whose file   *)
(* is there would be too much: a file may be gone, lose its cite to        *)
(* another hook, and come back.                                            *)
(***************************************************************************)
Clear ==
  /\ (doc.harness \cup doc.agent \cup ledger.read) \cap Marked = {}
  /\ doc.agent \subseteq ledger.read
  /\ post # None => post.read \cap Marked = {}

CanSave(g) ==
  /\ \E f \in g.act.read \cap files : f \in g.mem.harness => f \in doc.harness
  /\ g.act.fetched # {}
  /\ g.mem.agent = doc.agent
  /\ (g.mem.harness \cup g.act.read) \cap Marked = {}
  /\ g.mem.prior \subseteq doc.prior

Saved == doc.harness \cap files # {} /\ doc.prior # {}

Promise(g) ==
  g.due /\ g.at # "idle" =>
    /\ Clear
    /\ g.at = "loaded" => CanSave(g)
    /\ g.at = "judging" => Saved

Promises ==
  \A h \in Gates :
    /\ Promise(gate[h])
    /\ gate[h].verdict = "closed" => ~gate[h].due /\ gate[h].at = "idle"

EvidenceInv == EvidenceTyped /\ CopiesDistinct /\ Promises

(***************************************************************************)
(* Hygiene.                                                                *)
(***************************************************************************)
LEMMA HygieneDoes ==
  ASSUME NEW d \in Document, NEW act \in Activity, NEW e \in Hygiene(d, act), files \in SUBSET Paths
  PROVE  /\ e \in Document /\ e.agent = d.agent
         /\ e.harness = (d.harness \cap files) \cup (act.read \cap files)
         /\ d.prior \subseteq e.prior /\ e.prior \subseteq d.prior \cup act.fetched
         /\ act.fetched # {} => e.prior # {}
         /\ Distinct(d) => Distinct(e)
<1> DEFINE s == Sanitized(d)
<1>1. s = [d EXCEPT !.harness = d.harness \cap files]
  BY DEF Sanitized
<1>2. s \in Document /\ s.harness = d.harness \cap files /\ s.agent = d.agent /\ s.prior = d.prior
  BY <1>1 DEF Document
<1> HIDE DEF s
<1>3. PICK p \in OneOfEach(act.fetched, d.prior) :
        e = [s EXCEPT !.harness = s.harness \cup (act.read \cap files), !.prior = p]
  BY <1>2 DEF Hygiene, Synced, s
<1>4. PICK new \in SUBSET act.fetched :
        /\ Keys(new) = Keys(act.fetched) \ Keys(d.prior)
        /\ \A u, v \in new : Key[u] = Key[v] => u = v
        /\ p = d.prior \cup new
  BY <1>3 DEF OneOfEach
<1>5. p \subseteq Urls
  BY <1>4 DEF Document, Activity
<1>6. e \in Document /\ e.agent = d.agent /\ e.prior = p
      /\ e.harness = (d.harness \cap files) \cup (act.read \cap files)
  BY <1>2, <1>3, <1>5 DEF Document
<1>7. act.fetched # {} => p # {}
  BY <1>4 DEF Keys
<1>8. ASSUME Distinct(d), NEW u \in p, NEW v \in p, Key[u] = Key[v]
      PROVE  u = v
  <2>1. \A a \in d.prior, b \in new : Key[a] # Key[b]
    BY <1>4 DEF Keys
  <2> QED BY <1>4, <1>8, <2>1 DEF Distinct
<1>9. Distinct(d) => Distinct(e)
  BY <1>6, <1>8 DEF Distinct
<1> QED BY <1>4, <1>6, <1>7, <1>9

(***************************************************************************)
(* The invariant.                                                          *)
(***************************************************************************)
LEMMA EvidenceStarts == EvidenceInit => EvidenceInv
<1> SUFFICES ASSUME EvidenceInit PROVE EvidenceInv
  OBVIOUS
<1>1. Nothing \in Activity /\ Blank \in Document
  BY DEF Nothing, Blank, Activity, Document
<1>2. Nothing.read = {} /\ Nothing.fetched = {} /\ Blank.harness = {} /\ Blank.prior = {}
  BY DEF Nothing, Blank
<1>3. doc \in Document /\ doc.harness = {} /\ doc.prior = {}
  BY <1>1 DEF EvidenceInit, Blank, Document
<1>4. \A h \in Gates : /\ gate[h] \in Hook /\ gate[h].mem = Blank /\ gate[h].act = Nothing
                       /\ gate[h].verdict = "none" /\ gate[h].at = "idle"
  BY <1>1 DEF EvidenceInit, Hook
<1>5. gate \in [Gates -> Hook]
  BY <1>1 DEF EvidenceInit, Hook
<1>6. EvidenceTyped
  BY <1>1, <1>3, <1>5 DEF EvidenceInit, EvidenceTyped
<1>7. CopiesDistinct
  BY <1>2, <1>3, <1>4 DEF EvidenceInit, CopiesDistinct, Distinct
<1>8. Promises
  BY <1>4 DEF Promises, Promise
<1> QED BY <1>6, <1>7, <1>8 DEF EvidenceInv

\* What Undue takes away from the hooks.
LEMMA UndueDoes ==
  ASSUME EvidenceTyped, NEW bad \in BOOLEAN, gate' = Undue(bad)
  PROVE  /\ gate' \in [Gates -> Hook]
         /\ \A h \in Gates :
              /\ gate'[h].at = gate[h].at /\ gate'[h].mem = gate[h].mem /\ gate'[h].act = gate[h].act
              /\ gate'[h].verdict = gate[h].verdict
              /\ gate'[h].due => gate[h].due /\ ~bad
<1>1. gate \in [Gates -> Hook]
  BY DEF EvidenceTyped
<1>2. \A h \in Gates : gate[h] \in Hook /\ gate'[h] = [gate[h] EXCEPT !.due = gate[h].due /\ ~bad]
  BY <1>1 DEF Undue
<1>3. ASSUME NEW h \in Gates
      PROVE  /\ gate'[h] \in Hook
             /\ gate'[h].at = gate[h].at /\ gate'[h].mem = gate[h].mem /\ gate'[h].act = gate[h].act
             /\ gate'[h].verdict = gate[h].verdict
             /\ gate'[h].due = (gate[h].due /\ ~bad)
  <2> DEFINE g == gate[h]
             on == g.due /\ ~bad
  <2>1. g \in Hook /\ gate'[h] = [g EXCEPT !.due = on]
    BY <1>2
  <2>2. on \in BOOLEAN
    OBVIOUS
  <2> HIDE DEF g, on
  <2>3. /\ [g EXCEPT !.due = on] \in Hook /\ [g EXCEPT !.due = on].due = on
        /\ [g EXCEPT !.due = on].at = g.at /\ [g EXCEPT !.due = on].mem = g.mem
        /\ [g EXCEPT !.due = on].act = g.act /\ [g EXCEPT !.due = on].verdict = g.verdict
    BY <2>1, <2>2 DEF Hook
  <2> QED BY <2>1, <2>3 DEF g, on
<1>4. gate' \in [Gates -> Hook]
  BY <1>3 DEF Undue
<1> QED BY <1>3, <1>4

(* Whatever a call is taken to have read, the hook that logs it knows no   *)
(* less, and a marked path undoes what the hooks were due.                 *)
LEMMA ReadKeeps ==
  ASSUME EvidenceInv, NEW f \in Paths, NEW failed \in BOOLEAN, NEW really \in BOOLEAN,
         ReadCall(f, failed, really)
  PROVE  EvidenceInv'
<1>1. EvidenceTyped /\ CopiesDistinct /\ Promises
  BY DEF EvidenceInv
<1> DEFINE bad == ~failed /\ f \in Marked
<1>2. ledger' \in Activity /\ did' \in Activity /\ ledger.read \subseteq ledger'.read
      /\ ledger'.read \subseteq IF failed THEN ledger.read ELSE ledger.read \cup {f}
  BY <1>1 DEF EvidenceTyped, Activity, ReadCall, LogRead
<1>3. post' = ledger' /\ UNCHANGED <<files, doc>> /\ bad \in BOOLEAN /\ gate' = Undue(bad)
  BY DEF ReadCall
<1>4. /\ gate' \in [Gates -> Hook]
      /\ \A h \in Gates :
           /\ gate'[h].at = gate[h].at /\ gate'[h].mem = gate[h].mem /\ gate'[h].act = gate[h].act
           /\ gate'[h].verdict = gate[h].verdict
           /\ gate'[h].due => gate[h].due /\ ~bad
  <2> HIDE DEF bad
  <2> QED BY <1>1, <1>3, UndueDoes
<1>5. EvidenceTyped'
  BY <1>1, <1>2, <1>3, <1>4 DEF EvidenceTyped
<1>6. CopiesDistinct'
  BY <1>1, <1>3, <1>4 DEF CopiesDistinct, Distinct
<1>7. Clear /\ ~bad => Clear'
  BY <1>2, <1>3 DEF Clear
<1>8. \A h \in Gates : (CanSave(gate[h]) => CanSave(gate[h])')
  BY <1>3, <1>4 DEF CanSave
<1>9. Saved => Saved'
  BY <1>3 DEF Saved
<1> HIDE DEF bad
<1>10. Promises'
  BY <1>1, <1>4, <1>7, <1>8, <1>9 DEF Promises, Promise
<1> QED BY <1>5, <1>6, <1>10 DEF EvidenceInv

LEMMA FetchKeeps ==
  ASSUME EvidenceInv, NEW u \in Urls, NEW failed \in BOOLEAN, NEW really \in BOOLEAN,
         FetchCall(u, failed, really)
  PROVE  EvidenceInv'
<1>1. EvidenceTyped /\ CopiesDistinct /\ Promises
  BY DEF EvidenceInv
<1>2. ledger' \in Activity /\ did' \in Activity /\ ledger'.read = ledger.read
  BY <1>1 DEF EvidenceTyped, Activity, FetchCall, LogFetch
<1>3. post' = ledger' /\ UNCHANGED <<files, doc, gate>>
  BY DEF FetchCall
<1>4. EvidenceTyped'
  BY <1>1, <1>2, <1>3 DEF EvidenceTyped
<1>5. CopiesDistinct'
  BY <1>1, <1>3 DEF CopiesDistinct, Distinct
<1>6. Clear => Clear'
  BY <1>2, <1>3 DEF Clear
<1>7. Promises'
  BY <1>1, <1>3, <1>6 DEF Promises, Promise, CanSave, Saved
<1> QED BY <1>4, <1>5, <1>7 DEF EvidenceInv

(* Citing cites no source twice, and no cite of a file that is there or of *)
(* a URL goes.                                                             *)
LEMMA PostCitesKeeps ==
  ASSUME EvidenceInv, PostCites
  PROVE  EvidenceInv'
<1>1. EvidenceTyped /\ CopiesDistinct /\ Promises
  BY DEF EvidenceInv
<1>2. post \in Activity /\ post # None /\ post' = None /\ doc' \in Hygiene(doc, post)
      /\ UNCHANGED <<files, ledger, gate, did>>
  BY <1>1 DEF EvidenceTyped, PostCites
<1>3. /\ doc' \in Document /\ doc'.agent = doc.agent
      /\ doc'.harness = (doc.harness \cap files) \cup (post.read \cap files)
      /\ doc.prior \subseteq doc'.prior /\ doc'.prior \subseteq doc.prior \cup post.fetched
      /\ Distinct(doc) => Distinct(doc')
  BY <1>1, <1>2, HygieneDoes DEF EvidenceTyped
<1>4. EvidenceTyped'
  BY <1>1, <1>2, <1>3 DEF EvidenceTyped
<1>5. Distinct(doc)'
  BY <1>1, <1>3 DEF CopiesDistinct, Distinct
<1>7. CopiesDistinct'
  BY <1>1, <1>2, <1>5 DEF CopiesDistinct, Distinct
<1>8. Clear => Clear'
  BY <1>2, <1>3 DEF Clear
<1>9. \A h \in Gates : (CanSave(gate[h]) => CanSave(gate[h])')
  BY <1>2, <1>3 DEF CanSave
<1>10. Saved => Saved'
  BY <1>2, <1>3 DEF Saved
<1>11. Promises'
  BY <1>1, <1>2, <1>8, <1>9, <1>10 DEF Promises, Promise
<1> QED BY <1>4, <1>7, <1>11 DEF EvidenceInv

LEMMA PostDiesKeeps ==
  ASSUME EvidenceInv, PostDies
  PROVE  EvidenceInv'
<1>1. EvidenceTyped /\ CopiesDistinct /\ Promises
  BY DEF EvidenceInv
<1>2. post' = None /\ UNCHANGED <<files, ledger, gate, did, doc>>
  BY DEF PostDies
<1>3. EvidenceTyped' /\ CopiesDistinct'
  BY <1>1, <1>2 DEF EvidenceTyped, CopiesDistinct, Distinct
<1>4. Promises'
  BY <1>1, <1>2 DEF Promises, Promise, Clear, CanSave, Saved
<1> QED BY <1>3, <1>4 DEF EvidenceInv

(* A hook that is due holds a copy that will do.                           *)
LEMMA LoadsKeeps ==
  ASSUME EvidenceInv, NEW h \in Gates, Loads(h)
  PROVE  EvidenceInv'
<1>1. EvidenceTyped /\ CopiesDistinct /\ Promises
  BY DEF EvidenceInv
<1> DEFINE new == [at |-> "loaded", mem |-> doc, act |-> ledger, verdict |-> "none", due |-> Due]
<1>2. gate' = [gate EXCEPT ![h] = new] /\ UNCHANGED <<files, ledger, doc, post, did>>
  BY DEF Loads
<1>3. new \in Hook /\ new.at = "loaded" /\ new.mem = doc /\ new.act = ledger /\ new.verdict = "none"
      /\ (new.due => Due)
  BY <1>1 DEF EvidenceTyped, Hook, Due
<1> HIDE DEF new
<1>4. gate'[h] = new /\ \A g \in Gates \ {h} : gate'[g] = gate[g]
  BY <1>1, <1>2 DEF EvidenceTyped
<1>5. EvidenceTyped'
  BY <1>1, <1>2, <1>3 DEF EvidenceTyped
<1>6. CopiesDistinct'
  BY <1>1, <1>2, <1>3, <1>4 DEF CopiesDistinct, Distinct
<1>7. Due => Clear /\ CanSave(new)
  BY <1>3 DEF Due, Clear, CanSave
<1>8. UNCHANGED <<Clear, Saved>>
  BY <1>2 DEF Clear, Saved
<1>9. \A g \in Gates \ {h} : Promise(gate[g])' /\ (gate'[g].verdict = "closed" => ~gate'[g].due /\ gate'[g].at = "idle")
  BY <1>1, <1>2, <1>4, <1>8 DEF Promises, Promise, CanSave
<1>10. Promise(gate[h])' /\ gate'[h].verdict # "closed"
  <2>1. CanSave(new) => CanSave(gate[h])'
    BY <1>2, <1>4 DEF CanSave
  <2> QED BY <1>3, <1>4, <1>7, <1>8, <2>1 DEF Promise
<1>11. Promises'
  BY <1>9, <1>10 DEF Promises
<1> QED BY <1>5, <1>6, <1>11 DEF EvidenceInv

(* A hook saves a document that will do, or finds that the stored one does; *)
(* and when it saves over what the others count on, they are due no more.   *)
LEMMA SavesKeeps ==
  ASSUME EvidenceInv, NEW h \in Gates, Saves(h)
  PROVE  EvidenceInv'
<1>1. EvidenceTyped /\ CopiesDistinct /\ Promises
  BY DEF EvidenceInv
<1> DEFINE mem == gate[h].mem
           act == gate[h].act
<1>2. mem \in Document /\ act \in Activity /\ gate[h] \in Hook /\ gate[h].at = "loaded" /\ files \in SUBSET Paths
      /\ Distinct(mem)
  BY <1>1 DEF EvidenceTyped, Hook, Saves, CopiesDistinct
<1>3. PICK d \in Hygiene(mem, act) : doc' = IF d = mem THEN doc ELSE d
  BY DEF Saves
<1>4. /\ d \in Document /\ d.agent = mem.agent
      /\ d.harness = (mem.harness \cap files) \cup (act.read \cap files)
      /\ mem.prior \subseteq d.prior /\ d.prior \subseteq mem.prior \cup act.fetched
      /\ act.fetched # {} => d.prior # {}
      /\ Distinct(mem) => Distinct(d)
  BY <1>2, <1>3, HygieneDoes
<1>5. UNCHANGED <<files, ledger, post, did>>
  BY DEF Saves
<1>6. /\ gate' = [g \in Gates |-> IF g = h THEN [gate[h] EXCEPT !.at = "judging", !.mem = Blank, !.act = Nothing]
                                  ELSE [gate[g] EXCEPT !.due = @ /\ doc' = doc]]
  BY DEF Saves
<1>7. Nothing \in Activity /\ Blank \in Document
  BY DEF Nothing, Blank, Activity, Document
<1>8. /\ gate'[h] \in Hook /\ gate'[h].at = "judging" /\ gate'[h].mem = Blank /\ gate'[h].act = Nothing
      /\ gate'[h].verdict = gate[h].verdict /\ gate'[h].due = gate[h].due
  BY <1>2, <1>6, <1>7 DEF Hook
<1>9. \A g \in Gates \ {h} :
        /\ gate'[g] \in Hook /\ gate'[g].at = gate[g].at /\ gate'[g].mem = gate[g].mem /\ gate'[g].act = gate[g].act
        /\ gate'[g].verdict = gate[g].verdict
        /\ gate'[g].due => gate[g].due /\ doc' = doc
  BY <1>1, <1>6 DEF EvidenceTyped, Hook
<1>10. gate' \in [Gates -> Hook]
  <2>1. DOMAIN gate' = Gates /\ gate' = [g \in Gates |-> gate'[g]]
    BY <1>6
  <2> QED BY <1>8, <1>9, <2>1
<1> HIDE DEF mem, act
<1>11. EvidenceTyped'
  BY <1>1, <1>3, <1>4, <1>5, <1>10 DEF EvidenceTyped
<1>13. CopiesDistinct'
  <2>1. Distinct(Blank)
    BY DEF Distinct, Blank
  <2>2. Distinct(doc)'
    BY <1>1, <1>2, <1>3, <1>4 DEF CopiesDistinct, Distinct
  <2> QED BY <1>1, <1>8, <1>9, <2>1, <2>2 DEF CopiesDistinct, Distinct
<1>14. ASSUME gate[h].due PROVE Clear' /\ Saved'
  <2>1. Clear /\ CanSave(gate[h])
    BY <1>1, <1>2, <1>14 DEF Promises, Promise
  <2>2. /\ \E f \in act.read \cap files : f \in mem.harness => f \in doc.harness
        /\ act.fetched # {} /\ mem.agent = doc.agent /\ (mem.harness \cup act.read) \cap Marked = {}
        /\ mem.prior \subseteq doc.prior
    BY <2>1 DEF CanSave, mem, act
  <2>3. Clear'
    BY <1>3, <1>4, <1>5, <2>1, <2>2 DEF Clear
  <2>4. doc'.prior # {}
    BY <1>3, <1>4, <2>2
  <2>5. doc'.harness \cap files # {}
    BY <1>3, <1>4, <2>2
  <2> QED BY <1>5, <2>3, <2>4, <2>5 DEF Saved
<1>15. doc' = doc => UNCHANGED <<Clear, Saved>>
  BY <1>5 DEF Clear, Saved
<1>16. \A g \in Gates \ {h} : doc' = doc /\ CanSave(gate[g]) => CanSave(gate[g])'
  BY <1>5, <1>9 DEF CanSave
<1>17. gate[h].verdict # "closed"
  BY <1>1, <1>2 DEF Promises
<1>18. Promises'
  <2>1. Promise(gate[h])'
    BY <1>8, <1>14 DEF Promise
  <2>2. \A g \in Gates \ {h} : Promise(gate[g])'
    BY <1>1, <1>9, <1>15, <1>16 DEF Promises, Promise
  <2>3. \A g \in Gates : gate'[g].verdict = "closed" => ~gate'[g].due /\ gate'[g].at = "idle"
    BY <1>1, <1>8, <1>9, <1>17 DEF Promises
  <2> QED BY <2>1, <2>2, <2>3 DEF Promises
<1> QED BY <1>11, <1>13, <1>18 DEF EvidenceInv

(* What a hook that is due counts on is what opens the gate.               *)
LEMMA JudgesKeeps ==
  ASSUME EvidenceInv, NEW h \in Gates, Judges(h)
  PROVE  EvidenceInv'
<1>1. EvidenceTyped /\ CopiesDistinct /\ Promises
  BY DEF EvidenceInv
<1>2. /\ gate' = [gate EXCEPT ![h].at = "idle", ![h].verdict = IF Opens(doc, ledger) THEN "open" ELSE "closed"]
      /\ gate[h].at = "judging" /\ UNCHANGED <<files, ledger, doc, post, did>>
  BY DEF Judges
<1>3. /\ gate' \in [Gates -> Hook]
      /\ gate'[h].at = "idle" /\ gate'[h].mem = gate[h].mem /\ gate'[h].act = gate[h].act
      /\ gate'[h].due = gate[h].due
      /\ gate'[h].verdict = IF Opens(doc, ledger) THEN "open" ELSE "closed"
      /\ \A g \in Gates \ {h} : gate'[g] = gate[g]
  BY <1>1, <1>2 DEF EvidenceTyped, Hook
<1>4. EvidenceTyped'
  BY <1>1, <1>2, <1>3 DEF EvidenceTyped
<1>5. CopiesDistinct'
  BY <1>1, <1>2, <1>3 DEF CopiesDistinct, Distinct
<1>6. gate[h].due => Opens(doc, ledger)
  <2>1. gate[h].due => Clear /\ Saved
    BY <1>1, <1>2 DEF Promises, Promise
  <2>2. Clear /\ Saved => WellFormed(doc)
    BY DEF Clear, Saved, WellFormed
  <2>3. Clear => Unbacked(doc, ledger) = {}
    BY DEF Clear, Unbacked
  <2> QED BY <2>1, <2>2, <2>3 DEF Opens
<1>7. UNCHANGED <<Clear, Saved>> /\ \A g \in Gates \ {h} : CanSave(gate[g]) => CanSave(gate[g])'
  BY <1>2, <1>3 DEF Clear, Saved, CanSave
<1>8. Promises'
  BY <1>1, <1>3, <1>6, <1>7 DEF Promises, Promise
<1> QED BY <1>4, <1>5, <1>8 DEF EvidenceInv

LEMMA CreatedKeeps ==
  ASSUME EvidenceInv, NEW f \in Paths, Created(f)
  PROVE  EvidenceInv'
<1>1. EvidenceTyped /\ CopiesDistinct /\ Promises
  BY DEF EvidenceInv
<1>2. files' = files \cup {f} /\ UNCHANGED <<ledger, doc, post, gate, did>>
  BY DEF Created
<1>3. EvidenceTyped' /\ CopiesDistinct'
  BY <1>1, <1>2 DEF EvidenceTyped, CopiesDistinct, Distinct
<1>4. (Clear => Clear') /\ (Saved => Saved') /\ \A g \in Gates : CanSave(gate[g]) => CanSave(gate[g])'
  BY <1>2 DEF Clear, Saved, CanSave
<1>5. Promises'
  BY <1>1, <1>2, <1>4 DEF Promises, Promise
<1> QED BY <1>3, <1>5 DEF EvidenceInv

LEMMA RemovedKeeps ==
  ASSUME EvidenceInv, NEW f \in Paths, Removed(f)
  PROVE  EvidenceInv'
<1>1. EvidenceTyped /\ CopiesDistinct /\ Promises
  BY DEF EvidenceInv
<1>2. files' = files \ {f} /\ gate' = Undue(TRUE) /\ UNCHANGED <<ledger, doc, post, did>>
  BY DEF Removed
<1>3. /\ gate' \in [Gates -> Hook]
      /\ \A h \in Gates :
           /\ gate'[h].at = gate[h].at /\ gate'[h].mem = gate[h].mem /\ gate'[h].act = gate[h].act
           /\ gate'[h].verdict = gate[h].verdict /\ ~gate'[h].due
  BY <1>1, <1>2, UndueDoes
<1>4. EvidenceTyped'
  BY <1>1, <1>2, <1>3 DEF EvidenceTyped
<1>5. CopiesDistinct'
  <2>1. ASSUME NEW h \in Gates PROVE Distinct(gate'[h].mem)
    BY <1>1, <1>3 DEF CopiesDistinct
  <2> QED BY <1>1, <1>2, <2>1 DEF CopiesDistinct, Distinct
<1>6. Promises'
  BY <1>1, <1>3 DEF Promises, Promise
<1> QED BY <1>4, <1>5, <1>6 DEF EvidenceInv

(* An empty ledger backs no agent's cite, and needs to back none of the    *)
(* harness's.                                                              *)
LEMMA RekeyedKeeps ==
  ASSUME EvidenceInv, Rekeyed
  PROVE  EvidenceInv'
<1>1. EvidenceTyped /\ CopiesDistinct /\ Promises
  BY DEF EvidenceInv
<1> DEFINE bad == doc.agent # {}
<1>2. ledger' = Nothing /\ bad \in BOOLEAN /\ gate' = Undue(bad) /\ UNCHANGED <<files, doc, post, did>>
  BY DEF Rekeyed
<1>3. /\ gate' \in [Gates -> Hook]
      /\ \A h \in Gates :
           /\ gate'[h].at = gate[h].at /\ gate'[h].mem = gate[h].mem /\ gate'[h].act = gate[h].act
           /\ gate'[h].verdict = gate[h].verdict
           /\ gate'[h].due => gate[h].due /\ doc.agent = {}
  <2> HIDE DEF bad
  <2>1. /\ gate' \in [Gates -> Hook]
        /\ \A h \in Gates :
             /\ gate'[h].at = gate[h].at /\ gate'[h].mem = gate[h].mem /\ gate'[h].act = gate[h].act
             /\ gate'[h].verdict = gate[h].verdict
             /\ gate'[h].due => gate[h].due /\ ~bad
    BY <1>1, <1>2, UndueDoes
  <2> QED BY <2>1 DEF bad
<1>4. ledger' \in Activity /\ ledger'.read = {} /\ ledger'.fetched = {}
  BY <1>2 DEF Nothing, Activity
<1>5. EvidenceTyped' /\ CopiesDistinct'
  BY <1>1, <1>2, <1>3, <1>4 DEF EvidenceTyped, CopiesDistinct, Distinct
<1>6. (Clear /\ doc.agent = {} => Clear') /\ UNCHANGED Saved
      /\ \A g \in Gates : CanSave(gate[g]) => CanSave(gate[g])'
  BY <1>2, <1>3, <1>4 DEF Clear, Saved, CanSave
<1>7. Promises'
  BY <1>1, <1>3, <1>6 DEF Promises, Promise
<1> QED BY <1>5, <1>7 DEF EvidenceInv

LEMMA EvidenceStep == EvidenceInv /\ [EvidenceNext]_evidenceVars => EvidenceInv'
<1> SUFFICES ASSUME EvidenceInv, [EvidenceNext]_evidenceVars PROVE EvidenceInv'
  OBVIOUS
<1>1. ASSUME NEW f \in Paths, Created(f) \/ Removed(f) PROVE EvidenceInv'
  BY <1>1, CreatedKeeps, RemovedKeeps
<1>2. ASSUME NEW failed \in BOOLEAN, NEW really \in BOOLEAN,
             \/ \E f \in Paths : ReadCall(f, failed, really)
             \/ \E u \in Urls : FetchCall(u, failed, really)
      PROVE  EvidenceInv'
  BY <1>2, ReadKeeps, FetchKeeps
<1>3. CASE PostCites \/ PostDies \/ Rekeyed
  BY <1>3, PostCitesKeeps, PostDiesKeeps, RekeyedKeeps
<1>4. ASSUME NEW h \in Gates, Loads(h) \/ Saves(h) \/ Judges(h) PROVE EvidenceInv'
  BY <1>4, LoadsKeeps, SavesKeeps, JudgesKeeps
<1>5. CASE UNCHANGED evidenceVars
  <2>1. EvidenceTyped' /\ CopiesDistinct'
    BY <1>5 DEF evidenceVars, EvidenceInv, EvidenceTyped, CopiesDistinct, Distinct
  <2>2. Promises'
    BY <1>5 DEF evidenceVars, EvidenceInv, Promises, Promise, Clear, CanSave, Saved
  <2> QED BY <2>1, <2>2 DEF EvidenceInv
<1> QED BY <1>1, <1>2, <1>3, <1>4, <1>5 DEF EvidenceNext

-----------------------------------------------------------------------------
(* Whatever the hooks load, save over each other and judge, and whatever   *)
(* files come and go, no source is cited twice; and a hook that knows of a *)
(* file that is there and of a URL, with nothing in the way, finds the     *)
(* gate open (citations.py, spec_hygiene.py, spec_validation.py).          *)
THEOREM EvidenceAlwaysFair == EvidenceSpec => []EvidenceFair
<1>1. EvidenceInit => EvidenceInv
  BY EvidenceStarts
<1>2. EvidenceInv /\ [EvidenceNext]_evidenceVars => EvidenceInv'
  BY EvidenceStep
<1>3. EvidenceInv => EvidenceFair
  BY DEF EvidenceInv, EvidenceFair, OncePerSource, EvidenceOpens, CopiesDistinct, Distinct, Promises
<1> QED BY <1>1, <1>2, <1>3, PTL DEF EvidenceSpec

-----------------------------------------------------------------------------
(***************************************************************************)
(* Calls of the judge, for any callers, timeouts, numbers of attempts and  *)
(* numbers of refreshes.                                                   *)
(***************************************************************************)
Places == {"idle", "auth", "refresh", "minted", "opened", "written", "connect", "asked", "done"}
Progress == [pc : Places, t : Nat, attempt : Nat, forced : BOOLEAN, doc : Nat, new : Nat]

LEMMA IdleProgress == Idle \in Progress
BY DEF Idle, Progress, Places

(***************************************************************************)
(* Time.  The last attempt to begin begins Floor before the deadline; one  *)
(* rejection adds a second refresh and a second handshake to it.           *)
(***************************************************************************)
Begun == Timeout - Floor
Round(c) == IF c.forced THEN Refreshing + Shaking ELSE 0
Most == Larger(Timeout + Shaking, Timeout + 2 * (Refreshing + Shaking) - Floor)

InTime(c) ==
  /\ c.pc \in {"auth", "refresh"} => c.t <= Begun + Round(c)
  /\ c.pc \in {"minted", "opened", "written", "connect"} => c.t <= Begun + Round(c) + Refreshing
  /\ c.pc = "asked" => c.t <= Begun + Round(c) + Refreshing + Shaking
  /\ c.pc \in {"idle", "done"} => c.t <= Most
Timely == call \in [Callers -> Progress] /\ \A p \in Callers : InTime(call[p])

LEMMA Bounds ==
  /\ Timeout \in Nat /\ Floor \in Nat /\ Refreshing \in Nat /\ Shaking \in Nat /\ Attempts \in Nat
  /\ Begun \in Nat /\ Begun <= Timeout /\ Most \in Nat
  /\ Timeout + Shaking <= Most
  /\ Begun + (Refreshing + Shaking) + Refreshing + Shaking <= Most
BY JudgeCallConstants DEF JudgeCallConstants, Begun, Most, Larger

LEMMA Rounds == ASSUME NEW c \in Progress PROVE Round(c) \in Nat /\ Round(c) <= Refreshing + Shaking
BY Bounds DEF Round, Progress

LEMMA InTimeBounded == ASSUME NEW c \in Progress, InTime(c) PROVE c.t <= Most
<1>1. c.t \in Nat /\ c.pc \in Places
  BY DEF Progress
<1> QED BY <1>1, Rounds, Bounds DEF InTime, Places

\* A failure ends the call, or begins an attempt while there is time for one.
LEMMA FailsInTime ==
  ASSUME Timely, NEW p \in Callers, NEW c \in Progress, c.t <= Most, Fails(p, c)
  PROVE  Timely'
<1>1. CASE ~c.forced /\ Again(p, c)
  <2> DEFINE d == [c EXCEPT !.pc = "auth", !.attempt = @ + 1, !.new = 0]
  <2>1. call' = [call EXCEPT ![p] = d]
    BY <1>1 DEF Fails, Goes
  <2>2. d \in Progress /\ d.pc = "auth" /\ d.t = c.t
    <3>1. c.attempt + 1 \in Nat
      BY DEF Progress
    <3>2. d = [c EXCEPT !.pc = "auth", !.attempt = c.attempt + 1, !.new = 0]
      OBVIOUS
    <3> QED BY <3>1, <3>2 DEF Progress, Places
  <2>3. c.t <= Begun
    BY <1>1, Bounds DEF Again, Begun, Progress
  <2>4. InTime(d)
    BY <2>2, <2>3, Bounds DEF InTime, Round, Progress
  <2> HIDE DEF d
  <2> QED BY <2>1, <2>2, <2>4 DEF Timely
<1>2. CASE ~(~c.forced /\ Again(p, c))
  <2> DEFINE d == [c EXCEPT !.pc = "done"]
  <2>1. call' = [call EXCEPT ![p] = d]
    BY <1>2 DEF Fails, Goes
  <2>2. d \in Progress /\ InTime(d)
    BY DEF Progress, Places, InTime
  <2> HIDE DEF d
  <2> QED BY <2>1, <2>2 DEF Timely
<1> QED BY <1>1, <1>2

LEMMA GoesInTime ==
  ASSUME Timely, NEW p \in Callers, NEW c \in Progress, InTime(c), Goes(p, c)
  PROVE  Timely'
BY DEF Timely, Goes

LEMMA LaterTimes ==
  ASSUME Timely, NEW p \in Callers, NEW d \in Nat, NEW pc \in Places
  PROVE  /\ Later(p, d, pc) \in Progress
         /\ Later(p, d, pc).t = call[p].t + d /\ Later(p, d, pc).pc = pc
         /\ Later(p, d, pc).forced = call[p].forced
         /\ Later(p, d, pc).doc = call[p].doc /\ Later(p, d, pc).new = call[p].new
<1>1. call[p] \in Progress
  BY DEF Timely
<1>2. call[p].t + d \in Nat
  BY <1>1 DEF Progress
<1> QED BY <1>1, <1>2 DEF Later, Progress

Tokens == live \in Nat /\ file \in Nat /\ temp \in Nat \cup {Nobody} /\ lost \in Nat

\* The steps of one caller, by where they are and how long they take.
LEMMA CallerStep ==
  ASSUME Tokens, Timely, NEW p \in Callers,
         \/ Begin(p) \/ ReadLogin(p) \/ OpenTemp(p) \/ WriteTemp(p) \/ Replace(p) \/ Ends(p) \/ Killed(p)
  PROVE  Timely'
<1> USE DEF Places
<1>0. call[p] \in Progress /\ InTime(call[p]) /\ call[p].t <= Most /\ call[p].t \in Nat /\ call[p].forced \in BOOLEAN
  BY InTimeBounded DEF Timely, Progress
<1>1. CASE Begin(p)
  <2> DEFINE e == [Idle EXCEPT !.pc = "auth"]
  <2>1. e \in Progress /\ e.pc = "auth" /\ e.t = 0 /\ e.forced = FALSE
    BY DEF Idle, Progress
  <2>2. Goes(p, e)
    BY <1>1 DEF Begin
  <2> HIDE DEF e
  <2>3. InTime(e)
    BY <2>1, Bounds DEF InTime, Round
  <2> QED BY <2>1, <2>2, <2>3, GoesInTime
<1>2. CASE ReadLogin(p) /\ file = 0
  BY <1>0, <1>2, FailsInTime DEF ReadLogin
<1>3. CASE ReadLogin(p) /\ file # 0
  <2>1. PICK place \in {"refresh", "connect"} :
          Goes(p, [call[p] EXCEPT !.doc = file, !.pc = place])
    BY <1>3 DEF ReadLogin
  <2>2. call[p].pc = "auth"
    BY <1>3 DEF ReadLogin, Is
  <2>3. [call[p] EXCEPT !.doc = file, !.pc = place] \in Progress
    BY <1>0 DEF Progress, Tokens
  <2>4. InTime([call[p] EXCEPT !.doc = file, !.pc = place])
    BY <1>0, <2>2, Bounds DEF InTime, Round, Progress
  <2> QED BY <2>1, <2>3, <2>4, GoesInTime
<1>4. CASE OpenTemp(p)
  <2> DEFINE e == Later(p, 0, "opened")
  <2>1. Goes(p, e) /\ call[p].pc \in {"minted", "opened"}
    BY <1>4 DEF OpenTemp, Is
  <2>2. e \in Progress /\ e.t = call[p].t + 0 /\ e.pc = "opened" /\ e.forced = call[p].forced
    BY LaterTimes
  <2> HIDE DEF e
  <2>3. Round(e) = Round(call[p]) /\ e.t = call[p].t
    BY <1>0, <2>2 DEF Round
  <2>4. call[p].t <= Begun + Round(call[p]) + Refreshing
    BY <1>0, <2>1 DEF InTime
  <2>5. InTime(e)
    BY <2>2, <2>3, <2>4 DEF InTime
  <2> QED BY <2>1, <2>2, <2>5, GoesInTime
<1>5. CASE WriteTemp(p)
  <2> DEFINE e == Later(p, 0, "written")
  <2>1. Goes(p, e) /\ call[p].pc \in {"minted", "opened"}
    BY <1>5 DEF WriteTemp, Is
  <2>2. e \in Progress /\ e.t = call[p].t + 0 /\ e.pc = "written" /\ e.forced = call[p].forced
    BY LaterTimes
  <2> HIDE DEF e
  <2>3. Round(e) = Round(call[p]) /\ e.t = call[p].t
    BY <1>0, <2>2 DEF Round
  <2>4. call[p].t <= Begun + Round(call[p]) + Refreshing
    BY <1>0, <2>1 DEF InTime
  <2>5. InTime(e)
    BY <2>2, <2>3, <2>4 DEF InTime
  <2> QED BY <2>1, <2>2, <2>5, GoesInTime
<1>6. CASE Replace(p)
  <2> DEFINE c == Later(p, 0, "connect")
             e == [c EXCEPT !.doc = call[p].new, !.new = 0]
  <2>1. c \in Progress /\ c.pc = "connect" /\ c.t = call[p].t /\ c.forced = call[p].forced
    BY <1>0, LaterTimes
  <2>2. call[p].pc = "written" /\ Goes(p, e)
    BY <1>6 DEF Replace, Is
  <2> HIDE DEF c
  <2>3. e \in Progress /\ e.pc = "connect" /\ e.t = call[p].t /\ e.forced = call[p].forced
    BY <1>0, <2>1 DEF Progress
  <2> HIDE DEF e
  <2>4. InTime(e)
    BY <1>0, <2>2, <2>3, Bounds DEF InTime, Round
  <2> QED BY <2>2, <2>3, <2>4, GoesInTime
<1>7. CASE Ends(p) \/ Killed(p)
  <2>1. InTime(Idle)
    BY Bounds DEF Idle, InTime
  <2> QED BY <1>7, <2>1, IdleProgress, GoesInTime DEF Ends, Killed
<1> QED BY <1>1, <1>2, <1>3, <1>4, <1>5, <1>6, <1>7

LEMMA RefreshStep ==
  ASSUME Tokens, Timely, NEW p \in Callers, NEW d \in Durations(Refreshing),
         Mint(p, d) \/ MintLost(p, d) \/ Refused(p, d)
  PROVE  Timely'
<1> USE DEF Places
<1>0. call[p] \in Progress /\ InTime(call[p]) /\ call[p].t \in Nat /\ call[p].forced \in BOOLEAN
  BY DEF Timely, Progress
<1>1. d \in Nat /\ d <= Refreshing /\ call[p].pc = "refresh"
  BY Bounds DEF Durations, Mint, MintLost, Refused, Is
<1>2. call[p].t + d <= Begun + Round(call[p]) + Refreshing
  BY <1>0, <1>1, Bounds DEF InTime, Round
<1>3. CASE Mint(p, d)
  <2> DEFINE c == Later(p, d, "minted")
             e == [c EXCEPT !.new = live + 1]
  <2>1. c \in Progress /\ c.pc = "minted" /\ c.t = call[p].t + d /\ c.forced = call[p].forced
    BY <1>1, LaterTimes
  <2>2. Goes(p, e)
    BY <1>3 DEF Mint
  <2> HIDE DEF c
  <2>3. e \in Progress /\ e.pc = "minted" /\ e.t = call[p].t + d /\ e.forced = call[p].forced
    BY <2>1 DEF Progress, Tokens
  <2> HIDE DEF e
  <2>4. InTime(e)
    BY <1>2, <2>3 DEF InTime, Round
  <2> QED BY <2>2, <2>3, <2>4, GoesInTime
<1>4. CASE MintLost(p, d) \/ Refused(p, d)
  <2>1. Later(p, d, "refresh") \in Progress /\ Later(p, d, "refresh").t = call[p].t + d
    BY <1>1, LaterTimes
  <2>2. Later(p, d, "refresh").t <= Most
    BY <1>0, <1>1, <1>2, <2>1, Rounds, Bounds
  <2> QED BY <1>4, <2>1, <2>2, FailsInTime DEF MintLost, Refused
<1> QED BY <1>3, <1>4

LEMMA ConnectStep ==
  ASSUME Timely, NEW p \in Callers, NEW d \in Durations(Shaking),
         Connects(p, d) \/ Rejected(p, d) \/ Breaks(p, d)
  PROVE  Timely'
<1> USE DEF Places
<1>0. call[p] \in Progress /\ InTime(call[p]) /\ call[p].t \in Nat /\ call[p].forced \in BOOLEAN
  BY DEF Timely, Progress
<1>1. d \in Nat /\ d <= Shaking
  BY Bounds DEF Durations
<1>2. call[p].pc = "connect" => call[p].t + d <= Begun + Round(call[p]) + Refreshing + Shaking
  BY <1>0, <1>1, Bounds DEF InTime, Round
<1>3. CASE Connects(p, d)
  <2>1. Later(p, d, "asked") \in Progress /\ InTime(Later(p, d, "asked"))
    BY <1>1, <1>2, <1>3, LaterTimes DEF Connects, Is, InTime, Round
  <2> QED BY <1>3, <2>1, GoesInTime DEF Connects
<1>4. CASE Rejected(p, d)
  <2> DEFINE c == Later(p, d, "auth")
  <2>1. c \in Progress /\ c.pc = "auth" /\ c.t = call[p].t + d /\ c.forced = call[p].forced
    BY <1>1, LaterTimes
  <2>2. call[p].pc = "connect"
        /\ IF c.forced THEN Goes(p, [c EXCEPT !.pc = "done"]) ELSE Goes(p, [c EXCEPT !.forced = TRUE])
    BY <1>4 DEF Rejected, Is
  <2> HIDE DEF c
  <2>3. CASE c.forced
    <3>1. [c EXCEPT !.pc = "done"] \in Progress /\ InTime([c EXCEPT !.pc = "done"])
      BY <1>0, <1>2, <2>1, <2>2, <2>3, Bounds DEF Progress, InTime, Round
    <3> QED BY <2>2, <2>3, <3>1, GoesInTime
  <2>4. CASE ~c.forced
    <3> DEFINE e == [c EXCEPT !.forced = TRUE]
    <3>1. e \in Progress /\ e.pc = "auth" /\ e.t = c.t /\ e.forced
      BY <2>1 DEF Progress
    <3>2. Goes(p, e)
      BY <2>2, <2>4
    <3> HIDE DEF e
    <3>3. c.t <= Begun + Refreshing + Shaking
      BY <1>0, <1>2, <2>1, <2>2, <2>4, Bounds DEF Round
    <3>4. InTime(e)
      BY <2>1, <3>1, <3>3, Bounds DEF InTime, Round
    <3> QED BY <3>1, <3>2, <3>4, GoesInTime
  <2> QED BY <2>3, <2>4
<1>5. CASE Breaks(p, d)
  <2>1. call[p].t + d <= Most
    BY <1>0, <1>1, <1>2, <1>5, Bounds DEF Breaks, Is, Round
  <2>2. Later(p, d, "done") \in Progress /\ InTime(Later(p, d, "done"))
    BY <1>1, <2>1, LaterTimes DEF InTime
  <2> QED BY <1>5, <2>2, GoesInTime DEF Breaks
<1> QED BY <1>3, <1>4, <1>5

LEMMA AnswerStep ==
  ASSUME Timely, NEW p \in Callers, NEW d \in 0..(Timeout + Shaking),
         Answered(p, d) \/ Malformed(p, d) \/ Unanswered(p, d)
  PROVE  Timely'
<1> USE DEF Places
<1>0. call[p] \in Progress /\ call[p].t \in Nat /\ call[p].t <= Most /\ d \in Nat
  BY InTimeBounded, Bounds DEF Timely, Progress
<1>1. ASSUME NEW place \in Places, Reads(p, d)
      PROVE  Later(p, d, place) \in Progress /\ Later(p, d, place).t <= Most
             /\ Later(p, d, place).pc = place
  <2>1. call[p].t + d < Timeout + Shaking
    BY <1>1 DEF Reads
  <2>2. call[p].t + d <= Most
    BY <1>0, <2>1, Bounds
  <2> QED BY <1>0, <2>2, LaterTimes
<1>2. CASE Answered(p, d)
  <2>1. InTime(Later(p, d, "done"))
    BY <1>1, <1>2 DEF Answered, InTime
  <2> QED BY <1>1, <1>2, <2>1, GoesInTime DEF Answered
<1>3. CASE Malformed(p, d)
  <2> DEFINE c == Later(p, d, "asked")
             e == [c EXCEPT !.forced = FALSE]
  <2>1. c \in Progress /\ c.t <= Most /\ Fails(p, e)
    BY <1>1, <1>3 DEF Malformed
  <2> HIDE DEF c
  <2>2. e \in Progress /\ e.t <= Most
    BY <2>1 DEF Progress
  <2> HIDE DEF e
  <2> QED BY <2>1, <2>2, FailsInTime
<1>4. CASE Unanswered(p, d)
  BY <1>0, <1>1, <1>4, FailsInTime DEF Unanswered
<1> QED BY <1>2, <1>3, <1>4

LEMMA StepTimely == Tokens /\ Timely /\ [Next]_vars => Timely'
<1> SUFFICES ASSUME Tokens, Timely, [Next]_vars PROVE Timely'
  OBVIOUS
<1>1. CASE CliRefreshes \/ (\E n \in 1..MaxTokens : Expires(n)) \/ UNCHANGED vars
  BY <1>1 DEF CliRefreshes, Expires, vars, Timely
<1> QED BY <1>1, CallerStep, RefreshStep, ConnectStep, AnswerStep DEF Next

LEMMA StepTokens == Tokens /\ Timely /\ [Next]_vars => Tokens'
<1> SUFFICES ASSUME Tokens, Timely, [Next]_vars PROVE Tokens'
  OBVIOUS
<1> USE DEF Tokens
<1>0. \A p \in Callers : call[p].doc \in Nat /\ call[p].new \in Nat
  BY DEF Timely, Progress
<1>1. ASSUME NEW p \in Callers,
             \/ Begin(p) \/ ReadLogin(p) \/ OpenTemp(p) \/ WriteTemp(p) \/ Replace(p) \/ Ends(p) \/ Killed(p)
      PROVE  Tokens'
  BY <1>0, <1>1 DEF Begin, ReadLogin, OpenTemp, WriteTemp, Replace, Ends, Killed, login
<1>2. ASSUME NEW p \in Callers, NEW d \in Durations(Refreshing),
             Mint(p, d) \/ MintLost(p, d) \/ Refused(p, d)
      PROVE  Tokens'
  BY <1>2 DEF Mint, MintLost, Refused, login
<1>3. ASSUME NEW p \in Callers, NEW d,
             \/ Connects(p, d) \/ Rejected(p, d) \/ Breaks(p, d)
             \/ Answered(p, d) \/ Malformed(p, d) \/ Unanswered(p, d)
      PROVE  Tokens'
  BY <1>3 DEF Connects, Rejected, Breaks, Reads, Answered, Malformed, Unanswered, login
<1>4. CASE CliRefreshes \/ (\E n \in 1..MaxTokens : Expires(n)) \/ UNCHANGED vars
  BY <1>4 DEF CliRefreshes, Expires, vars
<1> QED BY <1>1, <1>2, <1>3, <1>4 DEF Next

LEMMA InitTimely == Init => Tokens /\ Timely
<1> SUFFICES ASSUME Init PROVE Tokens /\ Timely
  OBVIOUS
<1>1. InTime(Idle)
  BY Bounds DEF Idle, InTime
<1> QED BY <1>1, IdleProgress DEF Init, Tokens, Timely

\* A call outlasts its deadline by no more than the last read, or than what a
\* last attempt begun in time and rejected once takes: no order of refreshes,
\* rejections and malformed answers adds a round to that.
THEOREM CallAlwaysBounded == Spec => []CallBounded
<1>1. Tokens /\ Timely => CallBounded
  BY InTimeBounded DEF Timely, CallBounded, Most
<1>2. Tokens /\ Timely /\ [Next]_vars => Tokens' /\ Timely'
  BY StepTokens, StepTimely
<1> QED BY <1>1, <1>2, InitTimely, PTL DEF Spec

(***************************************************************************)
(* The login.  While no token was lost, the live one is in the file or in  *)
(* the hand of one caller, who is on the way to write it, and nobody knows *)
(* a newer one than the file.                                              *)
(***************************************************************************)
Writing == {"minted", "opened", "written"}
OneHand ==
  /\ \A p \in Callers : call[p].new # 0 <=> call[p].pc \in Writing
  /\ \A p \in Callers : call[p].new # 0 => call[p].new = live /\ file < live
  /\ \A p, q \in Callers : call[p].new # 0 /\ call[q].new # 0 => p = q
  /\ (\A p \in Callers : call[p].new = 0) => file = live
  /\ \A p \in Callers : call[p].doc <= file
  /\ \A p \in Callers : call[p].pc = "written" => temp = call[p].new
  /\ file # 0
Passed == Tokens /\ Timely /\ (lost = 0 => OneHand)

\* A step of a caller that has no new token, takes none and learns of none.
LEMMA PlainStep ==
  ASSUME Passed, lost = 0, NEW p \in Callers, NEW c, Goes(p, c), UNCHANGED login,
         call[p].new = 0, c.new = 0, c.pc \notin Writing, c.doc <= file
  PROVE  OneHand'
<1>1. \A q \in Callers : call'[q] = IF q = p THEN c ELSE call[q]
  BY DEF Goes, Passed, Timely
<1> QED BY <1>1 DEF Passed, OneHand, login, Writing

LEMMA FailsPlain ==
  ASSUME Passed, NEW p \in Callers, NEW c \in Progress, c.new = 0, Fails(p, c)
  PROVE  \E e : Goes(p, e) /\ e.new = 0 /\ e.pc \notin Writing /\ e.doc = c.doc
<1>1. CASE ~c.forced /\ Again(p, c)
  <2> DEFINE e == [c EXCEPT !.pc = "auth", !.attempt = @ + 1, !.new = 0]
  <2>1. Goes(p, e) /\ e.new = 0 /\ e.pc = "auth" /\ e.doc = c.doc
    BY <1>1 DEF Fails, Progress
  <2> QED BY <2>1 DEF Writing
<1>2. CASE ~(~c.forced /\ Again(p, c))
  <2> DEFINE e == [c EXCEPT !.pc = "done"]
  <2>1. Goes(p, e) /\ e.new = 0 /\ e.pc = "done" /\ e.doc = c.doc
    BY <1>2 DEF Fails, Progress
  <2> QED BY <2>1 DEF Writing
<1> QED BY <1>1, <1>2

LEMMA FailsKeepsLogin ==
  ASSUME Passed, lost = 0, NEW p \in Callers, NEW c \in Progress, Fails(p, c), UNCHANGED login,
         call[p].new = 0, c.new = 0, c.doc = call[p].doc
  PROVE  OneHand'
<1>1. PICK e : Goes(p, e) /\ e.new = 0 /\ e.pc \notin Writing /\ e.doc = c.doc
  BY FailsPlain
<1>2. e.doc <= file
  BY <1>1 DEF Passed, OneHand
<1> QED BY <1>1, <1>2, PlainStep

LEMMA CallerKeepsLogin ==
  ASSUME Passed, lost = 0, lost' = 0, NEW p \in Callers,
         Begin(p) \/ ReadLogin(p) \/ Ends(p) \/ Killed(p)
  PROVE  OneHand'
<1>0. /\ call[p] \in Progress /\ call[p].doc <= file /\ file \in Nat
      /\ call[p].pc \notin Writing => call[p].new = 0
  BY DEF Passed, OneHand, Timely, Tokens
<1>1. CASE Begin(p)
  <2> DEFINE e == [Idle EXCEPT !.pc = "auth"]
  <2>1. Goes(p, e) /\ e.new = 0 /\ e.pc \notin Writing /\ e.doc <= file /\ UNCHANGED login
    BY <1>0, <1>1 DEF Begin, Idle, Writing
  <2>2. call[p].new = 0
    BY <1>0, <1>1 DEF Begin, Is, Writing
  <2> HIDE DEF e
  <2> QED BY <2>1, <2>2, PlainStep
<1>2. CASE ReadLogin(p)
  <2>1. file # 0
    BY DEF Passed, OneHand
  <2>2. PICK place \in {"refresh", "connect"} :
          Goes(p, [call[p] EXCEPT !.doc = file, !.pc = place])
    BY <1>2, <2>1 DEF ReadLogin
  <2>3. call[p].new = 0 /\ UNCHANGED login
    BY <1>0, <1>2 DEF ReadLogin, Is, Writing
  <2> DEFINE e == [call[p] EXCEPT !.doc = file, !.pc = place]
  <2>4. e.new = 0 /\ e.pc \notin Writing /\ e.doc <= file
    BY <1>0, <2>3 DEF Progress, Writing
  <2> HIDE DEF e
  <2>5. Goes(p, e)
    BY <2>2 DEF e
  <2> QED BY <2>3, <2>4, <2>5, PlainStep
<1>3. CASE Ends(p) \/ Killed(p)
  <2>1. Idle.new = 0 /\ Idle.pc \notin Writing /\ Idle.doc <= file
    BY <1>0 DEF Idle, Writing
  <2>2. call[p].new = 0 /\ Goes(p, Idle) /\ UNCHANGED login
    BY <1>0, <1>3 DEF Ends, Killed, Is, Writing, login
  <2> QED BY <2>1, <2>2, PlainStep
<1> QED BY <1>1, <1>2, <1>3

LEMMA WriterKeepsLogin ==
  ASSUME Passed, lost = 0, NEW p \in Callers,
         OpenTemp(p) \/ WriteTemp(p) \/ Replace(p)
  PROVE  OneHand'
<1>0. call[p] \in Progress
  BY DEF Passed, Timely
<1>1. CASE OpenTemp(p) \/ WriteTemp(p)
  <2>1. PICK place \in {"opened", "written"} :
          /\ Goes(p, Later(p, 0, place)) /\ (place = "written" => temp' = call[p].new)
          /\ UNCHANGED <<live, expired, file, lost>>
    BY <1>1 DEF OpenTemp, WriteTemp
  <2>2. /\ Later(p, 0, place).pc = place
        /\ Later(p, 0, place).doc = call[p].doc /\ Later(p, 0, place).new = call[p].new
    BY LaterTimes DEF Passed, Places
  <2>3. call[p].pc \in Writing
    BY <1>1 DEF OpenTemp, WriteTemp, Is, Writing
  <2>4. \A q \in Callers : call'[q] = IF q = p THEN Later(p, 0, place) ELSE call[q]
    BY <2>1 DEF Goes, Passed, Timely
  <2>5. \A q \in Callers \ {p} : call[q].pc \notin Writing
    BY <2>3 DEF Passed, OneHand
  <2> QED BY <2>1, <2>2, <2>3, <2>4, <2>5 DEF Passed, OneHand, Writing
<1>2. CASE Replace(p)
  <2> DEFINE c == Later(p, 0, "connect")
             e == [c EXCEPT !.doc = call[p].new, !.new = 0]
  <2>1. c \in Progress /\ c.pc = "connect"
    BY LaterTimes DEF Passed, Places
  <2>2. /\ call[p].pc = "written" /\ Goes(p, e) /\ file' = temp /\ temp' = Nobody
        /\ UNCHANGED <<live, expired, lost>>
    BY <1>2 DEF Replace, Is
  <2> HIDE DEF c
  <2>3. e.pc = "connect" /\ e.new = 0 /\ e.doc = call[p].new
    BY <2>1 DEF Progress
  <2> HIDE DEF e
  <2>4. \A q \in Callers : call'[q] = IF q = p THEN e ELSE call[q]
    BY <2>2 DEF Goes, Passed, Timely
  <2>5. call[p].new # 0 /\ call[p].new = live /\ temp = live /\ file < live
    BY <2>2 DEF Passed, OneHand, Writing
  <2>6. \A q \in Callers \ {p} : call[q].new = 0 /\ call[q].pc \notin Writing
    BY <2>5 DEF Passed, OneHand
  <2>7. \A q \in Callers : call[q].doc \in Nat /\ call[q].doc <= file
    BY DEF Passed, OneHand, Timely, Progress
  <2>8. file' = live /\ live' = live /\ live \in Nat /\ file \in Nat /\ live # 0
    BY <2>2, <2>5 DEF Passed, Tokens
  <2>9. \A q \in Callers : call'[q].new = 0 /\ call'[q].pc \notin Writing /\ call'[q].doc <= file'
    <3> SUFFICES ASSUME NEW q \in Callers
                 PROVE  call'[q].new = 0 /\ call'[q].pc \notin Writing /\ call'[q].doc <= file'
      OBVIOUS
    <3>1. CASE q = p
      BY <2>3, <2>4, <2>5, <2>8, <3>1 DEF Writing
    <3>2. CASE q # p
      BY <2>4, <2>5, <2>6, <2>7, <2>8, <3>2
    <3> QED BY <3>1, <3>2
  <2> QED BY <2>8, <2>9 DEF OneHand, Writing
<1> QED BY <1>1, <1>2

LEMMA RefreshKeepsLogin ==
  ASSUME Passed, lost = 0, lost' = 0, NEW p \in Callers, NEW d \in Durations(Refreshing),
         Mint(p, d) \/ MintLost(p, d) \/ Refused(p, d)
  PROVE  OneHand'
<1>0. d \in Nat /\ call[p] \in Progress
  BY Bounds DEF Durations, Passed, Timely
<1>1. call[p].pc = "refresh" /\ call[p].new = 0
  BY DEF Mint, MintLost, Refused, Is, Passed, OneHand, Writing
<1>2. CASE Mint(p, d)
  <2> DEFINE c == Later(p, d, "minted")
             e == [c EXCEPT !.new = live + 1]
  <2>1. c \in Progress /\ c.pc = "minted" /\ c.doc = call[p].doc
    BY <1>0, LaterTimes DEF Passed, Places
  <2>2. /\ Goes(p, e) /\ live' = live + 1 /\ call[p].doc = live
        /\ UNCHANGED <<expired, file, temp, lost>>
    BY <1>2 DEF Mint
  <2> HIDE DEF c
  <2>3. e.pc = "minted" /\ e.new = live + 1 /\ e.doc = call[p].doc
    BY <2>1 DEF Progress
  <2> HIDE DEF e
  <2>4. \A q \in Callers : call'[q] = IF q = p THEN e ELSE call[q]
    BY <2>2 DEF Goes, Passed, Timely
  <2>5. live \in Nat /\ file \in Nat /\ live <= file
    BY <2>2 DEF Passed, OneHand, Tokens
  <2>6. \A q \in Callers : call[q].new = 0 /\ call[q].pc \notin Writing
    BY <2>5 DEF Passed, OneHand
  <2>7. file = live
    BY <2>6 DEF Passed, OneHand
  <2> QED BY <2>2, <2>3, <2>4, <2>5, <2>6, <2>7 DEF Passed, OneHand, Writing
<1>3. CASE MintLost(p, d)
  BY <1>3 DEF MintLost, Passed, Tokens
<1>4. CASE Refused(p, d)
  <2>1. /\ Later(p, d, "refresh") \in Progress /\ Later(p, d, "refresh").doc = call[p].doc
        /\ Later(p, d, "refresh").new = call[p].new
    BY <1>0, LaterTimes DEF Passed, Places
  <2> QED BY <1>1, <1>4, <2>1, FailsKeepsLogin DEF Refused
<1> QED BY <1>2, <1>3, <1>4

LEMMA ConnectKeepsLogin ==
  ASSUME Passed, lost = 0, NEW p \in Callers, NEW d \in Durations(Shaking),
         Connects(p, d) \/ Rejected(p, d) \/ Breaks(p, d)
  PROVE  OneHand'
<1>0. d \in Nat /\ call[p] \in Progress /\ call[p].doc <= file
  BY Bounds DEF Durations, Passed, Timely, OneHand
<1>1. call[p].new = 0 /\ UNCHANGED login
  BY DEF Connects, Rejected, Breaks, Is, Passed, OneHand, Writing
<1>2. CASE Rejected(p, d)
  <2> DEFINE c == Later(p, d, "auth")
  <2>1. c \in Progress /\ c.pc = "auth" /\ c.doc = call[p].doc /\ c.new = 0
    BY <1>0, <1>1, LaterTimes DEF Passed, Places
  <2>2. IF c.forced THEN Goes(p, [c EXCEPT !.pc = "done"]) ELSE Goes(p, [c EXCEPT !.forced = TRUE])
    BY <1>2 DEF Rejected
  <2> HIDE DEF c
  <2>3. PICK e : Goes(p, e) /\ e.new = 0 /\ e.pc \in {"auth", "done"} /\ e.doc = call[p].doc
    BY <2>1, <2>2 DEF Progress
  <2> QED BY <1>0, <1>1, <2>3, PlainStep DEF Writing
<1>3. CASE Connects(p, d) \/ Breaks(p, d)
  <2>1. PICK place \in {"asked", "done"} : Goes(p, Later(p, d, place))
    BY <1>3 DEF Connects, Breaks
  <2>2. /\ Later(p, d, place).pc = place /\ Later(p, d, place).doc = call[p].doc
        /\ Later(p, d, place).new = 0
    BY <1>0, <1>1, LaterTimes DEF Passed, Places
  <2> QED BY <1>0, <1>1, <2>1, <2>2, PlainStep DEF Writing
<1> QED BY <1>2, <1>3

LEMMA AnswerKeepsLogin ==
  ASSUME Passed, lost = 0, NEW p \in Callers, NEW d \in 0..(Timeout + Shaking),
         Answered(p, d) \/ Malformed(p, d) \/ Unanswered(p, d)
  PROVE  OneHand'
<1>0. d \in Nat /\ call[p] \in Progress /\ call[p].doc <= file
  BY Bounds DEF Passed, Timely, OneHand
<1>1. call[p].pc = "asked" /\ call[p].new = 0 /\ UNCHANGED login
  BY DEF Answered, Malformed, Unanswered, Reads, Is, Passed, OneHand, Writing
<1>2. ASSUME NEW place \in Places
      PROVE  /\ Later(p, d, place) \in Progress /\ Later(p, d, place).pc = place
             /\ Later(p, d, place).doc = call[p].doc /\ Later(p, d, place).new = 0
  BY <1>0, <1>1, LaterTimes DEF Passed
<1>3. CASE Answered(p, d)
  <2>1. "done" \in Places /\ "done" \notin Writing
    BY DEF Places, Writing
  <2> QED BY <1>0, <1>1, <1>2, <1>3, <2>1, PlainStep DEF Answered
<1>4. CASE Malformed(p, d)
  <2> DEFINE c == Later(p, d, "asked")
             e == [c EXCEPT !.forced = FALSE]
  <2>1. c \in Progress /\ c.doc = call[p].doc /\ c.new = 0 /\ Fails(p, e)
    BY <1>2, <1>4 DEF Malformed, Places
  <2> HIDE DEF c
  <2>2. e \in Progress /\ e.doc = call[p].doc /\ e.new = 0
    BY <2>1 DEF Progress
  <2> HIDE DEF e
  <2> QED BY <1>1, <2>1, <2>2, FailsKeepsLogin
<1>5. CASE Unanswered(p, d)
  BY <1>0, <1>1, <1>2, <1>5, FailsKeepsLogin DEF Unanswered, Places
<1> QED BY <1>3, <1>4, <1>5

LEMMA StepPassed == Passed /\ [Next]_vars => Passed'
<1> SUFFICES ASSUME Passed, [Next]_vars PROVE Passed'
  OBVIOUS
<1>1. Tokens' /\ Timely'
  BY StepTokens, StepTimely DEF Passed
<1>2. SUFFICES ASSUME lost' = 0 PROVE OneHand'
  BY <1>1 DEF Passed
<1>3. lost = 0
  <2>1. lost \in Nat
    BY DEF Passed, Tokens
  <2>2. ASSUME NEW p \in Callers,
               \/ Begin(p) \/ ReadLogin(p) \/ OpenTemp(p) \/ WriteTemp(p) \/ Replace(p) \/ Ends(p) \/ Killed(p)
        PROVE  lost = 0
    BY <1>2, <2>1, <2>2 DEF Begin, ReadLogin, OpenTemp, WriteTemp, Replace, Ends, Killed, login
  <2>3. ASSUME NEW p \in Callers, NEW d,
               \/ Mint(p, d) \/ MintLost(p, d) \/ Refused(p, d)
               \/ Connects(p, d) \/ Rejected(p, d) \/ Breaks(p, d)
               \/ Answered(p, d) \/ Malformed(p, d) \/ Unanswered(p, d)
        PROVE  lost = 0
    BY <1>2, <2>1, <2>3
    DEF Mint, MintLost, Refused, Connects, Rejected, Breaks, Answered, Malformed, Unanswered, Reads, login
  <2>4. CASE CliRefreshes \/ (\E n \in 1..MaxTokens : Expires(n)) \/ UNCHANGED vars
    BY <1>2, <2>4 DEF CliRefreshes, Expires, vars
  <2> QED BY <2>2, <2>3, <2>4 DEF Next
<1>4. CASE CliRefreshes
  BY <1>3, <1>4 DEF CliRefreshes, Passed, OneHand, Tokens, Timely, Progress, Writing
<1>5. CASE (\E n \in 1..MaxTokens : Expires(n)) \/ UNCHANGED vars
  BY <1>3, <1>5 DEF Expires, vars, Passed, OneHand
<1> QED
  BY <1>2, <1>3, <1>4, <1>5, CallerKeepsLogin, WriterKeepsLogin, RefreshKeepsLogin,
     ConnectKeepsLogin, AnswerKeepsLogin
  DEF Next

\* Without a lost answer and without a kill of a caller that has a new token in
\* its hand, the login survives any number of callers that refresh it at once
\* through the one temporary file.
THEOREM LoginAlwaysKept == Spec => []LoginKept
<1>1. Init => Passed
  BY InitTimely DEF Init, Passed, OneHand, Idle, Writing
<1>2. Passed => LoginKept
  BY DEF Passed, OneHand, LoginKept, Is
<1> QED BY <1>1, <1>2, StepPassed, PTL DEF Spec
=============================================================================
