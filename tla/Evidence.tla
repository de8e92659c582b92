------------------------------ MODULE Evidence ------------------------------
(***************************************************************************)
(* The evidence of a session, from a tool call to the verdict of the gate. *)
(* A PostToolUse hook logs what the call read or fetched in the session's  *)
(* ledger and then cites it in the spec document (spec_hygiene, citations) *)
(* under spec_lock.  A PreToolUse hook does the same hygiene on a document *)
(* it loads and saves without the lock, and then loads the document again  *)
(* to judge it: the shape (validate_spec) and whether each cite is backed  *)
(* by the ledger (verify_citations).  A document has harness cites, which  *)
(* only hygiene adds, and agent cites, which an imported document may      *)
(* have.  The profile is "code", the grade STANDARD; the board's half of   *)
(* hygiene is in SpecStore.                                                *)
(***************************************************************************)
EXTENDS Naturals, FiniteSets

CONSTANTS
  Paths,        \* files of the project, by their path
  Marked,       \* those with one of FAKE_MARKERS in the path ("n/a" is one,
                \* and it is in src/main/app.py)
  Urls, Key,    \* URLs as spelled, and their host and path
  Gates,        \* PreToolUse processes
  Imported,     \* agent cites a document may begin with
  MaxRemovals,  \* bound: files that go away
  MaxRekeys     \* bound: times the session's ledger is left behind

VARIABLES
  files,    \* the files there are
  ledger,   \* [read, fetched], what the session is taken to have done
  doc,      \* [harness, agent, prior]: the document's cites
  post,     \* what the PostToolUse hook under way will cite from, or None
  gate,     \* hook -> [at, mem, act, verdict, due]; due is history
  opened,   \* history: a hook let its call through, and no file went away and
            \* the ledger was not left behind since
  did,      \* history: what the session really read and fetched
  losses    \* bound: <<removals, rekeys>>

evidenceVars == <<files, ledger, doc, post, gate, opened, did, losses>>

Nothing == [read |-> {}, fetched |-> {}]
Blank == [harness |-> {}, agent |-> {}, prior |-> {}]
None == [read |-> Paths, fetched |-> Urls, none |-> TRUE]

EvidenceInit ==
  /\ files \in SUBSET Paths
  /\ ledger = Nothing /\ did = Nothing
  /\ \E agent \in SUBSET Imported : doc = [Blank EXCEPT !.agent = agent]
  /\ post = None
  /\ gate = [h \in Gates |-> [at |-> "idle", mem |-> Blank, act |-> Nothing, verdict |-> "none", due |-> FALSE]]
  /\ opened = FALSE
  /\ losses = <<0, 0>>

-----------------------------------------------------------------------------
(* Hygiene. *)

(* sanitize_harness_citations: a harness cite of a missing file goes.      *)
Sanitized(d) == [d EXCEPT !.harness = @ \cap files]

Keys(prior) == {Key[u] : u \in prior}

\* Faulty variant: URLs are compared as they are spelled.
OneOfEachSpelled(new, prior) == {prior \cup new}

(* Of the URLs with one key the first in the ledger is cited; which one    *)
(* that is the ledger, a list, knows and the set here does not.            *)
OneOfEach(new, prior) ==
  {prior \cup some : some \in
     {s \in SUBSET new : /\ Keys(s) = Keys(new) \ Keys(prior)
                         /\ \A u, v \in s : Key[u] = Key[v] => u = v}}

(* sync_citations_from_activity.  An agent's cite has another line than    *)
(* the harness's, so it does not keep the harness from citing the file.    *)
Synced(d, act) ==
  {[d EXCEPT !.harness = @ \cup (act.read \cap files), !.prior = p] : p \in OneOfEach(act.fetched, d.prior)}

(* apply_spec_hygiene: the documents it may make of d.                     *)
Hygiene(d, act) == Synced(Sanitized(d), act)

-----------------------------------------------------------------------------
(* The verdict. *)

\* Faulty variant: a harness cite is checked like an agent's.
UnbackedAll(d, act) == {<<"path", f>> : f \in (d.harness \cup d.agent) \ act.read}

(* verify_citations and filter_gate_defect_citation_reasons.  A harness    *)
(* cite of a file that is there certifies itself, one of a missing file    *)
(* is the harness's own fault; harness cites of URLs certify themselves.   *)
(* An agent's cite needs a read.                                           *)
Unbacked(d, act) == {<<"path", f>> : f \in d.agent \ act.read}

(* validate_spec: some path:line, none of them with a marker of faked      *)
(* evidence in it, and some URL.                                           *)
WellFormed(d) ==
  /\ d.harness \cup d.agent # {}
  /\ (d.harness \cup d.agent) \cap Marked = {}
  /\ d.prior # {}

Opens(d, act) == WellFormed(d) /\ Unbacked(d, act) = {}

-----------------------------------------------------------------------------
(* The agent's tool calls. *)

(* History: what happened takes away what the hooks were due.              *)
Undue(bad) == [h \in Gates |-> [gate[h] EXCEPT !.due = @ /\ ~bad]]

(* read_targets and fetched_url_targets count unless detect_failure found  *)
(* a failure.  That is not what was done: an outcome that cannot be told   *)
(* is no failure (cat f || true), a repository server's file has the path  *)
(* of a local one, and a search answers with URLs that nobody opens.       *)
LogRead(f, failed) == IF failed THEN ledger ELSE [ledger EXCEPT !.read = @ \cup {f}]
LogFetch(u, failed) == IF failed THEN ledger ELSE [ledger EXCEPT !.fetched = @ \cup {u}]

ReadCall(f, failed, really) ==
  /\ post = None /\ (really => f \in files)
  /\ ledger' = LogRead(f, failed)
  /\ post' = ledger'
  /\ did' = IF really THEN [did EXCEPT !.read = @ \cup {f}] ELSE did
  /\ gate' = Undue(~failed /\ f \in Marked)
  /\ UNCHANGED <<files, doc, opened, losses>>

FetchCall(u, failed, really) ==
  /\ post = None
  /\ ledger' = LogFetch(u, failed)
  /\ post' = ledger'
  /\ did' = IF really THEN [did EXCEPT !.fetched = @ \cup {u}] ELSE did
  /\ UNCHANGED <<files, doc, gate, opened, losses>>

(* _apply_hygiene_only, with the document as it is under the lock.         *)
PostCites ==
  /\ post # None /\ post' = None
  /\ doc' \in Hygiene(doc, post)
  /\ UNCHANGED <<files, ledger, gate, opened, did, losses>>

(* The hook is killed before it gets there.                                *)
PostDies ==
  /\ post # None /\ post' = None
  /\ UNCHANGED <<files, ledger, doc, gate, opened, did, losses>>

-----------------------------------------------------------------------------
(* A PreToolUse hook. *)

(* The hook is due an open gate: it knows of a file that is there and of a *)
(* URL, and neither an unread agent cite nor a marked path is in the way.  *)
Due ==
  /\ ledger.read \cap files # {} /\ ledger.fetched # {}
  /\ doc.agent \subseteq ledger.read
  /\ (doc.harness \cup doc.agent \cup ledger.read) \cap Marked = {}
  /\ post = None \/ post.read \cap Marked = {}

Loads(h) ==
  /\ gate[h].at = "idle"
  /\ gate' = [gate EXCEPT ![h] = [at |-> "loaded", mem |-> doc, act |-> ledger, verdict |-> "none", due |-> Due]]
  /\ UNCHANGED <<files, ledger, doc, post, opened, did, losses>>

(* _run_spec_hygiene: it saves what it changed, whole and without the lock.*)
Saves(h) ==
  /\ gate[h].at = "loaded"
  /\ \E d \in Hygiene(gate[h].mem, gate[h].act) : doc' = IF d = gate[h].mem THEN doc ELSE d
  /\ gate' = [g \in Gates |-> IF g = h THEN [gate[h] EXCEPT !.at = "judging", !.mem = Blank, !.act = Nothing]
                                      ELSE [gate[g] EXCEPT !.due = @ /\ doc' = doc]]
  /\ UNCHANGED <<files, ledger, post, opened, did, losses>>

Judges(h) ==
  /\ gate[h].at = "judging"
  /\ gate' = [gate EXCEPT ![h].at = "idle",
                          ![h].verdict = IF Opens(doc, ledger) THEN "open" ELSE "closed"]
  /\ opened' = (opened \/ Opens(doc, ledger))
  /\ UNCHANGED <<files, ledger, doc, post, did, losses>>

-----------------------------------------------------------------------------
(* The world. *)

Created(f) ==
  /\ f \notin files /\ files' = files \cup {f}
  /\ UNCHANGED <<ledger, doc, post, gate, opened, did, losses>>

Removed(f) ==
  /\ f \in files /\ losses[1] < MaxRemovals
  /\ files' = files \ {f}
  /\ losses' = [losses EXCEPT ![1] = @ + 1]
  /\ gate' = Undue(TRUE) /\ opened' = FALSE
  /\ UNCHANGED <<ledger, doc, post, did>>

(* The session goes on in another work tree, whose ledger is empty.        *)
Rekeyed ==
  /\ losses[2] < MaxRekeys
  /\ ledger' = Nothing
  /\ losses' = [losses EXCEPT ![2] = @ + 1]
  /\ gate' = Undue(doc.agent # {}) /\ opened' = FALSE
  /\ UNCHANGED <<files, doc, post, did>>

EvidenceNext ==
  \/ \E f \in Paths : Created(f) \/ Removed(f)
  \/ \E failed, really \in BOOLEAN : \/ \E f \in Paths : ReadCall(f, failed, really)
                                    \/ \E u \in Urls : FetchCall(u, failed, really)
  \/ PostCites \/ PostDies \/ Rekeyed
  \/ \E h \in Gates : Loads(h) \/ Saves(h) \/ Judges(h)

EvidenceSpec == EvidenceInit /\ [][EvidenceNext]_evidenceVars
-----------------------------------------------------------------------------
(* citations.py: a cited "file was actually Read/grepped this session",    *)
(* and a cited "URL was actually fetched (WebFetch/curl) this session".    *)
(* Run EvidenceUnearned refutes it.                                        *)
CitesEarned == doc.harness \subseteq did.read /\ doc.prior \subseteq did.fetched

(* No source is cited twice in other spellings, whoever saves over whom.   *)
OncePerSource == \A u, v \in doc.prior : Key[u] = Key[v] => u = v

(* A hook that knows of a file that is there and of a URL does not find    *)
(* the gate closed, though PostToolUse hooks cite, ledgers are left behind *)
(* and other hooks load and judge meanwhile; what excuses it is a file     *)
(* that went away, a save of another hook, an agent cite that lost its     *)
(* ledger, and a marked path.                                              *)
EvidenceOpens == \A h \in Gates : gate[h].verdict = "closed" => ~gate[h].due

(* What the ledger knows counts once, and it opens the gate.               *)
EvidenceFair == OncePerSource /\ EvidenceOpens

(* spec_validation.py: a spec "must also carry citation evidence":         *)
(* "'repo_context' (>=1 ...)"; so a gate that is open stays open as long   *)
(* as nothing that was read goes away.                                     *)
StaysOpen ==
  [][opened => \A h \in Gates : gate'[h].verdict = "closed" => gate[h].verdict = "closed"]_evidenceVars
=============================================================================
