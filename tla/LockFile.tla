------------------------------ MODULE LockFile ------------------------------
(* The lock files of the breaker and of the board (breaker_state.breaker_lock,  *)
(* spec_io.spec_lock) next to the janitor that removes the old ones             *)
(* (janitor._reap_locks).  A name leads to an inode; flock excludes per inode,  *)
(* so a process that opened the file before it was removed and one that opens   *)
(* it afterwards hold two different locks.                                      *)
EXTENDS Naturals, FiniteSets

CONSTANTS
  Procs,       \* hooks and commands that take the lock around their body
  Janitors,    \* sweeps
  MaxFiles     \* bound: times the file is created

ASSUME LockConstants ==
  /\ Procs \cap Janitors = {} /\ "nobody" \notin Procs \cup Janitors
  /\ IsFiniteSet(Janitors) /\ MaxFiles \in Nat

VARIABLES
  named,       \* the inode the name leads to, 0 when there is no file
  made,        \* inodes made so far
  old,         \* inodes last modified more than the janitor's age ago
  holder,      \* inode -> who holds its lock, or NoHolder
  at,          \* where a process or a sweep is
  fd,          \* the inode it has open, 0 for none
  before       \* history: who held the lock when a sweep opened the file, and still does

lockVars == <<named, made, old, holder, at, fd, before>>
NoHolder == "nobody"
Files == 1..MaxFiles

LockInit ==
  /\ named = 0 /\ made = 0 /\ old = {}
  /\ holder = [f \in Files |-> NoHolder]
  /\ at = [x \in Procs \cup Janitors |-> "idle"]
  /\ fd = [x \in Procs \cup Janitors |-> 0]
  /\ before = [j \in Janitors |-> {}]

To(x, place) == at' = [at EXCEPT ![x] = place]
Close(x) == fd' = [fd EXCEPT ![x] = 0]
Freed(x) == [f \in Files |-> IF holder[f] = x THEN NoHolder ELSE holder[f]]

-----------------------------------------------------------------------------
(* A process: os.open with O_CREAT, flock LOCK_NB polled until the deadline,  *)
(* the body with the lock or (fail-open) without it, unlock and close.        *)

Open(p) ==
  /\ at[p] = "idle"
  /\ \/ named # 0 /\ fd' = [fd EXCEPT ![p] = named] /\ UNCHANGED <<named, made>>
     \/ /\ named = 0 /\ made < MaxFiles
        /\ made' = made + 1 /\ named' = made + 1
        /\ fd' = [fd EXCEPT ![p] = made + 1]
  /\ To(p, "polling")
  /\ UNCHANGED <<old, holder, before>>

Take(p) ==
  /\ at[p] = "polling" /\ holder[fd[p]] = NoHolder
  /\ holder' = [holder EXCEPT ![fd[p]] = p]
  /\ To(p, "locked")
  /\ UNCHANGED <<named, made, old, fd, before>>

\* The deadline passes: the body runs unlocked rather than stall.
GiveUp(p) ==
  /\ at[p] = "polling" /\ holder[fd[p]] # NoHolder
  /\ To(p, "unlocked")
  /\ UNCHANGED <<named, made, old, holder, fd, before>>

\* The body ends, or the process dies anywhere: the system drops its lock.
Leave(p) ==
  /\ at[p] # "idle"
  /\ holder' = Freed(p) /\ Close(p) /\ To(p, "idle")
  /\ before' = [j \in Janitors |-> before[j] \ {p}]
  /\ UNCHANGED <<named, made, old>>

-----------------------------------------------------------------------------
(* A sweep: an old *.lock file is opened, its lock tried, given back, the     *)
(* file closed, and then its name removed.  Nothing writes a lock file, so    *)
(* its age counts from its creation, in use or not.                           *)

\* Faulty variant: the age of the file is not looked at.
ProbeYoung(j) ==
  /\ at[j] = "idle" /\ named # 0
  /\ fd' = [fd EXCEPT ![j] = named] /\ To(j, "probing")
  /\ before' = [before EXCEPT ![j] = {p \in Procs : holder[named] = p}]
  /\ UNCHANGED <<named, made, old, holder>>
Probe(j) ==
  /\ at[j] = "idle" /\ named \in old
  /\ fd' = [fd EXCEPT ![j] = named] /\ To(j, "probing")
  /\ before' = [before EXCEPT ![j] = {p \in Procs : holder[named] = p}]
  /\ UNCHANGED <<named, made, old, holder>>

\* Faulty variant: the lock is not tried.
TryBlind(j) ==
  /\ at[j] = "probing"
  /\ Close(j) /\ To(j, "unlinking")
  /\ UNCHANGED <<named, made, old, holder, before>>
Try(j) ==
  /\ at[j] = "probing"
  /\ IF holder[fd[j]] = NoHolder
     THEN holder' = [holder EXCEPT ![fd[j]] = j] /\ To(j, "trying") /\ UNCHANGED fd
     ELSE To(j, "idle") /\ Close(j) /\ UNCHANGED holder
  /\ UNCHANGED <<named, made, old, before>>

GiveBack(j) ==
  /\ at[j] = "trying"
  /\ holder' = Freed(j) /\ Close(j) /\ To(j, "unlinking")
  /\ UNCHANGED <<named, made, old, before>>

\* The name goes, whatever file it leads to by now.
Unlink(j) ==
  /\ at[j] = "unlinking"
  /\ named' = 0 /\ To(j, "idle")
  /\ UNCHANGED <<made, old, holder, fd, before>>

\* A day without a call: no process and no sweep lives through one.
DayPasses ==
  /\ named # 0 /\ \A x \in Procs \cup Janitors : at[x] = "idle"
  /\ old' = old \cup {named}
  /\ UNCHANGED <<named, made, holder, at, fd, before>>

LockNext ==
  \/ \E p \in Procs : Open(p) \/ Take(p) \/ GiveUp(p) \/ Leave(p)
  \/ \E j \in Janitors : Probe(j) \/ Try(j) \/ GiveBack(j) \/ Unlink(j)
  \/ DayPasses

LockSpec == LockInit /\ [][LockNext]_lockVars

-----------------------------------------------------------------------------
Inside == {p \in Procs : at[p] = "locked"}

\* Two processes are in the body with the lock only when a sweep removed the file
\* between them, and each sweep lets in at most one more: the file made after a
\* removal is new, and no sweep looks at a file younger than a day.
HoldersBounded == Cardinality(Inside) <= 1 + Cardinality(Janitors)

\* A process that was in the body when the sweep opened the file, and is in it
\* still, does not lose the file: the sweep tries the lock before it removes.
HolderSpared ==
  \A j \in Janitors : at[j] = "unlinking" /\ at'[j] = "idle" =>
    \A p \in before[j] : fd[p] # named

\* What a sweep may do to the exclusion, and no more than that.
LockHolds == [][HolderSpared /\ HoldersBounded']_lockVars
=============================================================================
