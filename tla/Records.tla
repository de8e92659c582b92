------------------------------ MODULE Records ------------------------------
(* The records in unifable.db that hooks load, change and save: the ledger row *)
(* and the activity log of a session, the findings of a project.  A read that  *)
(* fails looks like a row that is not there, and a row that is not there is    *)
(* looked for in the JSON file of an older release; a write that fails is      *)
(* dropped, whole and without a word; a file that cannot be opened is moved    *)
(* aside and begun anew.                                                       *)
EXTENDS Naturals, FiniteSets

CONSTANTS Hooks,        \* processes that update the ledger once
          Users,        \* processes that use the findings once
          LegacyLedger, LegacyFindings,   \* BOOLEAN: the JSON file is there
          NoRow, NoId, MaxFailures, MaxMoves

ASSUME RecordsConstants ==
  /\ \A marks \in SUBSET (Hooks \cup {"old"}) : NoRow # marks
  /\ MaxFailures \in Nat /\ MaxMoves \in Nat

VARIABLES row,          \* ledger: the marks hooks made, or NoRow
          acts,         \* activity log: one row per value
          finds, counter,                 \* findings by number; the last number given out
          hook, user,   \* progress and copies
          failures, moves,
          minted, closed, spoiled         \* history: numbers given out and closed; false imports
recordVars == <<row, acts, finds, counter, hook, user, failures, moves, minted, closed, spoiled>>

OldRow == {"old"}
OldFinds == [id \in {1} |-> [by |-> "old", open |-> TRUE]]
HookIdle == [pc |-> "idle", copy |-> {}, stale |-> FALSE]
UserIdle == [pc |-> "idle", op |-> "none", id |-> NoId, copy |-> <<>>, stale |-> FALSE]

RecordsInit ==
  /\ row = NoRow /\ acts = {} /\ finds = <<>> /\ counter = 0
  /\ hook = [h \in Hooks |-> HookIdle] /\ user = [u \in Users |-> UserIdle]
  /\ failures = 0 /\ moves = 0 /\ minted = {} /\ closed = {} /\ spoiled = FALSE

\* Whether a read or a write fails (locked beyond the busy timeout, an I/O error).
MayFail(fails) == fails => failures < MaxFailures
Counted(fails) == failures' = IF fails THEN failures + 1 ELSE failures
StaleHooks(h) == [g \in Hooks |-> [hook[g] EXCEPT !.stale = @ \/ (g # h /\ hook[g].pc \in {"missed", "loaded"})]]
StaleUsers(u) == [v \in Users |-> [user[v] EXCEPT !.stale = @ \/ (v # u /\ user[v].pc \in {"missed", "ready"})]]
fvars == <<finds, counter, user, minted, closed>>
lvars == <<row, acts, hook>>

----------------------------------------------------------------------------
\* The ledger: update_ledger loads, applies and saves without a lock.

\* Faulty variant: with an activity log there, the stored row is not merged in.
HookLoadsLog(h, fails) ==
  /\ hook[h].pc = "idle" /\ MayFail(fails) /\ Counted(fails)
  /\ hook' = [hook EXCEPT ![h] =
       [pc |-> IF fails \/ acts = {} THEN "missed" ELSE "loaded", stale |-> fails, copy |-> {}]]
  /\ UNCHANGED <<row, acts, fvars, moves, spoiled>>
HookLoads(h, fails) ==
  /\ hook[h].pc = "idle" /\ MayFail(fails) /\ Counted(fails)
  /\ LET missing == fails \/ (row = NoRow /\ acts = {})
     IN hook' = [hook EXCEPT ![h] =
          [pc |-> IF missing THEN "missed" ELSE "loaded", stale |-> fails,
           copy |-> IF missing \/ row = NoRow THEN {} ELSE row]]
  /\ UNCHANGED <<row, acts, fvars, moves, spoiled>>
\* _import_legacy_ledger, of a row that was missed; else the default ledger.
HookImports(h) ==
  /\ hook[h].pc = "missed"
  /\ IF LegacyLedger
     THEN /\ row' = OldRow /\ spoiled' = (spoiled \/ row # NoRow)
          /\ hook' = [StaleHooks(h) EXCEPT ![h].pc = "loaded", ![h].copy = OldRow]
     ELSE hook' = [hook EXCEPT ![h].pc = "loaded"] /\ UNCHANGED <<row, spoiled>>
  /\ UNCHANGED <<acts, fvars, failures, moves>>
\* Faulty variant: the activity log is rewritten with the row, like the events of
\* the breaker.
HookSavesAll(h) ==
  /\ hook[h].pc = "loaded"
  /\ row' = hook[h].copy \cup {h} /\ acts' = {h}
  /\ hook' = [StaleHooks(h) EXCEPT ![h].pc = "done"]
  /\ UNCHANGED <<fvars, failures, moves, spoiled>>
\* session_save: the row is replaced, activity is appended.
HookSaves(h) ==
  /\ hook[h].pc = "loaded"
  /\ row' = hook[h].copy \cup {h} /\ acts' = acts \cup {h}
  /\ hook' = [StaleHooks(h) EXCEPT ![h].pc = "done"]
  /\ UNCHANGED <<fvars, failures, moves, spoiled>>

\* _write drops what it cannot store; the hook goes on with what it has.
HookDrops(h) ==
  /\ MayFail(TRUE) /\ Counted(TRUE)
  /\ \/ hook[h].pc = "missed" /\ LegacyLedger /\ hook' = [hook EXCEPT ![h].pc = "loaded", ![h].copy = OldRow]
     \/ hook[h].pc = "loaded" /\ hook' = [hook EXCEPT ![h].pc = "dropped"]
  /\ UNCHANGED <<row, acts, fvars, moves, spoiled>>

----------------------------------------------------------------------------
\* Findings: every operation first imports what an older release left.

UserLooks(u, op, fails) ==
  /\ user[u].pc = "idle" /\ MayFail(fails) /\ Counted(fails)
  /\ op = "add" \/ minted # {}
  /\ \E id \in IF op = "add" THEN {NoId} ELSE {m.id : m \in minted} :
       user' = [user EXCEPT ![u] =
         [pc |-> IF fails \/ (DOMAIN finds = {} /\ counter = 0) THEN "missed" ELSE "ready",
          op |-> op, id |-> id, copy |-> finds, stale |-> fails]]
  /\ UNCHANGED <<lvars, finds, counter, moves, minted, closed, spoiled>>
\* _import_legacy_findings: findings_replace writes the whole set of the project.
UserImports(u) ==
  /\ user[u].pc = "missed"
  /\ IF LegacyFindings
     THEN /\ finds' = OldFinds /\ counter' = 1
          /\ spoiled' = (spoiled \/ counter # 0)
          /\ minted' = minted \cup {[id |-> 1, by |-> "old"]}
          /\ user' = [StaleUsers(u) EXCEPT ![u].pc = "ready"]
     ELSE user' = [user EXCEPT ![u].pc = "ready"] /\ UNCHANGED <<finds, counter, minted, spoiled>>
  /\ UNCHANGED <<lvars, failures, moves, closed>>
\* The row of a new finding.
Inserted(n, u) ==
  [id \in DOMAIN finds \cup {n} |-> IF id = n THEN [by |-> u, open |-> TRUE] ELSE finds[id]]
\* Faulty variant: the number comes from the set that was looked at.
UserAddsLooked(u) ==
  LET n == Cardinality(DOMAIN user[u].copy) + 1
  IN /\ user[u].pc = "ready" /\ user[u].op = "add"
     /\ counter' = n /\ finds' = Inserted(n, u)
     /\ minted' = minted \cup {[id |-> n, by |-> u]}
     /\ user' = [StaleUsers(u) EXCEPT ![u].pc = "done"]
     /\ UNCHANGED <<lvars, failures, moves, closed, spoiled>>
\* finding_add: the number is taken and the row inserted in one transaction; a
\* number that is there already fails it.
UserAdds(u) ==
  LET n == counter + 1
  IN /\ user[u].pc = "ready" /\ user[u].op = "add"
     /\ IF n \in DOMAIN finds
        THEN UNCHANGED <<finds, counter, minted>>
        ELSE /\ counter' = n /\ finds' = Inserted(n, u)
             /\ minted' = minted \cup {[id |-> n, by |-> u]}
     /\ user' = [StaleUsers(u) EXCEPT ![u].pc = "done"]
     /\ UNCHANGED <<lvars, failures, moves, closed, spoiled>>
\* Faulty variant: the whole set is written back, as save_findings would.
UserClosesAll(u) ==
  LET id == user[u].id
  IN /\ user[u].pc = "ready" /\ user[u].op = "close"
     /\ finds' = IF id \in DOMAIN user[u].copy THEN [user[u].copy EXCEPT ![id].open = FALSE] ELSE user[u].copy
     /\ closed' = closed \cup {id}
     /\ user' = [StaleUsers(u) EXCEPT ![u].pc = "done"]
     /\ UNCHANGED <<lvars, counter, failures, moves, minted, spoiled>>
\* finding_set_status: one row is updated, a number that is not there is refused.
UserCloses(u) ==
  LET id == user[u].id
  IN /\ user[u].pc = "ready" /\ user[u].op = "close"
     /\ IF id \in DOMAIN finds
        THEN finds' = [finds EXCEPT ![id].open = FALSE] /\ closed' = closed \cup {id}
        ELSE UNCHANGED <<finds, closed>>
     /\ user' = [StaleUsers(u) EXCEPT ![u].pc = "done"]
     /\ UNCHANGED <<lvars, counter, failures, moves, minted, spoiled>>

\* The import is dropped in silence, for the rest the caller is told: add_finding
\* and set_status raise.
UserDrops(u) ==
  /\ MayFail(TRUE) /\ Counted(TRUE)
  /\ \/ user[u].pc = "missed" /\ LegacyFindings /\ user' = [user EXCEPT ![u].pc = "ready"]
     \/ user[u].pc = "ready" /\ user' = [user EXCEPT ![u].pc = "done"]
  /\ UNCHANGED <<lvars, finds, counter, moves, minted, closed, spoiled>>

----------------------------------------------------------------------------
\* connect() of any process meets a DatabaseError, be the file damaged or only
\* locked: the file is moved aside and an empty one begun.
MovedAside ==
  /\ moves < MaxMoves /\ moves' = moves + 1
  /\ row' = NoRow /\ acts' = {} /\ finds' = <<>> /\ counter' = 0
  /\ UNCHANGED <<hook, user, failures, minted, closed, spoiled>>

LedgerNext ==
  \E h \in Hooks :
    (\E fails \in BOOLEAN : HookLoads(h, fails)) \/ HookImports(h) \/ HookSaves(h) \/ HookDrops(h)
FindingsNext ==
  \E u \in Users :
    \/ \E op \in {"add", "close"}, fails \in BOOLEAN : UserLooks(u, op, fails)
    \/ UserImports(u) \/ UserAdds(u) \/ UserCloses(u) \/ UserDrops(u)
RecordsNext == LedgerNext \/ FindingsNext \/ MovedAside
RecordsSpec == RecordsInit /\ [][RecordsNext]_recordVars

----------------------------------------------------------------------------
\* What must hold.

\* What a hook has stored stays in the log of the file it was logged in, whatever
\* the hooks beside it save and whichever of their reads and writes failed.
ActivityKept == \A h \in Hooks : hook[h].pc = "done" /\ moves = 0 => h \in acts
\* A number names one finding, unless the old file was imported over newer rows.
OneFindingPerNumber ==
  moves = 0 /\ ~spoiled => \A m, n \in minted : m.id = n.id => m = n
\* A finding stays, and a closed one stays closed, unless the old file was
\* imported over it or the file moved.
FindingsKept ==
  moves = 0 /\ ~spoiled =>
    /\ \A m \in minted : m.id \in DOMAIN finds /\ finds[m.id].by = m.by
    /\ \A id \in closed : ~finds[id].open
\* A mark leaves the ledger only by a save whose load failed or was overtaken,
\* an import of the old file over a row, or with the file.
MarksKept ==
  row' # row =>
    \A m \in IF row = NoRow THEN {} ELSE row :
      \/ row' # NoRow /\ m \in row'
      \/ moves' > moves \/ spoiled'
      \/ \E h \in Hooks : hook[h].pc = "loaded" /\ hook'[h].pc = "done" /\ hook[h].stale
\* What was stored is lost in the ways named above only.
RecordsKept == [][MarksKept /\ (ActivityKept /\ OneFindingPerNumber /\ FindingsKept)']_recordVars
=============================================================================
