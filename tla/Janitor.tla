------------------------------ MODULE Janitor ------------------------------
(* The detached janitor (janitor.run) next to the sessions whose state it     *)
(* reaps.  A session leaves an alive-marker with the pid of its host at       *)
(* SessionStart, which also spawns a sweep unless one ended lately            *)
(* (session_start._dispatch_janitor); the sweep reads all markers, probes     *)
(* their hosts once, and then deletes table after table what is a day old and *)
(* not of a session, or of a project, that looked alive.                      *)
EXTENDS Naturals, Sequences, FiniteSets

CONSTANTS
  Sessions,
  Root,        \* session -> project root
  Kinds,       \* what a sweep goes through: sequence of [name, key, rows]
  MaxReap,     \* UNIFABLE_JANITOR_MAX_REAP
  MaxDoubts    \* bound: markers that do not speak, probes and passes that fail

\* A kind is keyed by session ("skey") or by project ("root"); its rows are "one"
\* per key, or "many", a log of which some rows may be old.
Names == {Kinds[i].name : i \in DOMAIN Kinds}
Kind(n) == Kinds[CHOOSE i \in DOMAIN Kinds : Kinds[i].name = n]

VARIABLES
  running,     \* sessions whose host process runs
  marker,      \* sessions with an alive-marker; it names the latest host
  markerOld,   \* those whose marker is older than a day
  data,        \* kind -> session -> ages of the rows it has
  swept,       \* the sentinel is younger than the interval
  sweep,       \* the sweep under way: where it is (0: none), the sessions whose
               \* host the markers it read name, which of these hosts have ended,
               \* what it protects, and what is left of its budget
  doubts

janitorVars == <<running, marker, markerOld, data, swept, sweep, doubts>>
NoSweep == [at |-> 0, reg |-> {}, ended |-> {}, live |-> {}, left |-> 0]

JanitorInit ==
  /\ running = {} /\ marker = {} /\ markerOld = {}
  /\ data = [n \in Names |-> [s \in Sessions |-> {}]]
  /\ swept = FALSE /\ sweep = NoSweep /\ doubts = 0

Sweeping == sweep.at # 0

-----------------------------------------------------------------------------
(* Sessions *)

\* SessionStart of a new or resumed session: the marker, then the spawn.
Start(s) ==
  /\ s \notin running /\ running' = running \cup {s}
  /\ marker' = marker \cup {s} /\ markerOld' = markerOld \ {s}
  /\ sweep' = IF swept \/ Sweeping THEN sweep ELSE [NoSweep EXCEPT !.at = 1]
  /\ UNCHANGED <<data, swept, doubts>>

\* A hook call writes the row of its session or project, or adds to a log.
Work(s, n) ==
  /\ s \in running
  /\ data' = [data EXCEPT ![n][s] = IF Kind(n).rows = "many" THEN @ \cup {"fresh"} ELSE {"fresh"}]
  /\ UNCHANGED <<running, marker, markerOld, swept, sweep, doubts>>

\* The host ends.  A later one of the session has another pid.
Stop(s) ==
  /\ s \in running /\ running' = running \ {s}
  /\ sweep' = [sweep EXCEPT !.ended = @ \cup ({s} \cap sweep.reg)]
  /\ UNCHANGED <<marker, markerOld, data, swept, doubts>>

\* A sweep takes seconds: neither the interval nor the age passes during one.
HourPasses ==
  /\ ~Sweeping /\ swept /\ swept' = FALSE
  /\ UNCHANGED <<running, marker, markerOld, data, sweep, doubts>>
DayPasses ==
  /\ ~Sweeping /\ swept' = FALSE /\ markerOld' = marker
  /\ data' = [n \in Names |-> [s \in Sessions |-> IF data[n][s] = {} THEN {} ELSE {"stale"}]]
  /\ UNCHANGED <<running, marker, sweep, doubts>>

-----------------------------------------------------------------------------
(* A sweep: at = 1 reads the registry, 2 probes, 2 + i is kind i, then come   *)
(* the markers, then the sentinel.                                            *)

MarkersAt == 3 + Len(Kinds)
TouchAt == MarkersAt + 1
Doubt(set) == doubts' = doubts + Cardinality(set) /\ doubts' <= MaxDoubts

\* load_alive_registry: a marker that cannot be read is not in the snapshot, and one
\* written without a host ancestor (pid 0) claims nothing.
Load ==
  /\ sweep.at = 1
  /\ \E unread \in SUBSET marker :
       /\ Doubt(unread)
       /\ LET reg == marker \ unread
          IN sweep' = [sweep EXCEPT !.at = 2, !.reg = reg, !.ended = reg \ running]
  /\ UNCHANGED <<running, marker, markerOld, data, swept>>

\* is_marker_live: no process of the pid, or one of another command, is dead; a
\* process that may not be asked, and a probe that fails, is alive.
\* Faulty variant: a probe that fails says dead.
LiveDoubtDead(doubt) == sweep.reg \ (sweep.ended \cup doubt)
\* Faulty variant: every marker protects.
LiveAll(doubt) == sweep.reg
Live(doubt) == (sweep.reg \ sweep.ended) \cup (sweep.reg \cap doubt)
Probe ==
  /\ sweep.at = 2
  /\ \E doubt \in SUBSET sweep.reg :
       /\ Doubt(doubt)
       /\ sweep' = [sweep EXCEPT !.at = 3, !.live = Live(doubt), !.left = MaxReap]
  /\ UNCHANGED <<running, marker, markerOld, data, swept>>

\* Faulty variant: a board is protected by its own session only.
CoveredSession(n, s) == s \in sweep.live
Covered(n, s) ==
  IF Kind(n).key = "skey" THEN s \in sweep.live ELSE \E t \in sweep.live : Root[t] = Root[s]
\* Faulty variant: the age of a row is not looked at.
DueAnyAge(n) == {s \in Sessions : data[n][s] # {} /\ ~Covered(n, s)}
Due(n) == {s \in Sessions : "stale" \in data[n][s] /\ ~Covered(n, s)}

\* One transaction (or one pass over a directory): as many keys as are left of the
\* budget, and all rows of a key go with its stale one, the fresh ones of a log too.
Taken(due) ==
  {gone \in SUBSET due :
     Cardinality(gone) = IF sweep.left < Cardinality(due) THEN sweep.left ELSE Cardinality(due)}
Reap(i) ==
  /\ sweep.at = 2 + i
  /\ \E gone \in Taken(Due(Kinds[i].name)) :
       /\ data' = [data EXCEPT ![Kinds[i].name] = [s \in Sessions |-> IF s \in gone THEN {} ELSE @[s]]]
       /\ sweep' = [sweep EXCEPT !.at = @ + 1, !.left = @ - Cardinality(gone)]
  /\ UNCHANGED <<running, marker, markerOld, swept, doubts>>

\* A busy database or an unreadable directory: the kind is skipped.
Skip(i) ==
  /\ sweep.at = 2 + i /\ Doubt({i})
  /\ sweep' = [sweep EXCEPT !.at = @ + 1]
  /\ UNCHANGED <<running, marker, markerOld, data, swept>>

\* _reap_dead_markers: old, not protected, and dead still when the pid the snapshot
\* has is probed once more.
ReapMarkers ==
  /\ sweep.at = MarkersAt
  /\ \E gone \in Taken(markerOld \ (sweep.live \cup (sweep.reg \ sweep.ended))) :
       marker' = marker \ gone /\ markerOld' = markerOld \ gone
  /\ sweep' = [sweep EXCEPT !.at = TouchAt]
  /\ UNCHANGED <<running, data, swept, doubts>>

Touch ==
  /\ sweep.at = TouchAt /\ swept' = TRUE /\ sweep' = NoSweep
  /\ UNCHANGED <<running, marker, markerOld, data, doubts>>

SweepDies ==
  /\ Sweeping /\ Doubt({0}) /\ sweep' = NoSweep
  /\ UNCHANGED <<running, marker, markerOld, data, swept>>

SweepStep ==
  \/ Load \/ Probe \/ ReapMarkers \/ Touch
  \/ \E i \in DOMAIN Kinds : Reap(i)
JanitorNext ==
  \/ \E s \in Sessions : Start(s) \/ Stop(s) \/ \E n \in Names : Work(s, n)
  \/ HourPasses \/ DayPasses \/ SweepStep \/ SweepDies
  \/ \E i \in DOMAIN Kinds : Skip(i)

JanitorSpec == JanitorInit /\ [][JanitorNext]_janitorVars
\* A sweep that runs goes on; days pass between sweeps; some session keeps starting
\* while no sweep ended lately.
StartsAgain == \E s \in Sessions : ~swept /\ ~Sweeping /\ Start(s)
JanitorFairSpec == JanitorSpec /\ WF_janitorVars(SweepStep) /\ SF_janitorVars(DayPasses) /\ SF_janitorVars(StartsAgain)

-----------------------------------------------------------------------------
\* A sweep removes a table's row, a file or a board only when it is a day old: the
\* work of a session it does not know is safe for a day.  (A log loses its fresh
\* rows with its old ones.)
FreshSpared ==
  \A n \in Names, s \in Sessions :
    Kind(n).rows = "one" /\ data[n][s] = {"fresh"} => data'[n][s] # {}

\* SAFETY CONTRACT of the janitor: nothing of a session whose host runs, nor a
\* board of its project, is reaped by a sweep that read that host's marker,
\* whatever probes fail and whatever other sessions of the project end; and
\* nothing fresh of any other.
LiveSpared ==
  Sweeping /\ sweep'.at # 1 =>
    \A s \in sweep.reg \ sweep.ended :
      /\ s \in marker'
      /\ \A n \in Names, t \in Sessions :
           (t = s \/ (Kind(n).key = "root" /\ Root[t] = Root[s])) =>
             data[n][t] = {} \/ data'[n][t] # {}
LiveKept == [][LiveSpared /\ FreshSpared]_janitorVars

\* What a session that never comes back left is reaped in the end, by sweeps that
\* other sessions start.
DeadReaped ==
  \A s \in Sessions, n \in Names :
    Kind(n).key = "skey" => (<>[](s \notin running) => []<>(data[n][s] = {}))
=============================================================================
