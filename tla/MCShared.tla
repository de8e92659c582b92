------------------------------ MODULE MCShared ------------------------------
(* Small instances of the files and records that processes share, and of what *)
(* is read from them: ledger rows, findings, the Codex login, lock files, the *)
(* transcript, the evidence of a session, and a command line.  One of them    *)
(* moves in each behaviour; `part` says which.                                *)
EXTENDS JudgeCall, Transcript, Evidence, LockFile, Records, ShellLine, TLC

CONSTANTS h1, h2, h3, u1, u2, u3, p1, p2, p3, v1

----------------------------------------------------------------------------
\* Evidence: two spellings of a URL.
MCKey == [u \in Urls |-> "k"]

----------------------------------------------------------------------------
VARIABLE part
Parts == {"ledger", "findings", "call", "lock", "transcript", "evidence", "shell"}

allVars == <<part, vars, transcriptVars, recordVars, lockVars, evidenceVars, command>>

MCInit ==
  /\ part \in Parts
  /\ Init /\ (part # "call" => expired = {})
  /\ TranscriptInit /\ (part # "transcript" => recent = 0)
  /\ RecordsInit /\ LockInit
  /\ EvidenceInit /\ (part # "evidence" => files = {} /\ doc.agent = {})
  /\ command = <<>>
MCNext ==
  /\ UNCHANGED part
  /\ \/ /\ part = "ledger" /\ (LedgerNext \/ MovedAside)
        /\ UNCHANGED <<vars, transcriptVars, lockVars, evidenceVars, command>>
     \/ /\ part = "findings" /\ (FindingsNext \/ MovedAside)
        /\ UNCHANGED <<vars, transcriptVars, lockVars, evidenceVars, command>>
     \/ part = "call" /\ Next /\ UNCHANGED <<transcriptVars, recordVars, lockVars, evidenceVars, command>>
     \/ part = "transcript" /\ TranscriptNext /\ UNCHANGED <<vars, recordVars, lockVars, evidenceVars, command>>
     \/ part = "lock" /\ LockNext /\ UNCHANGED <<vars, transcriptVars, recordVars, evidenceVars, command>>
     \/ part = "evidence" /\ EvidenceNext /\ UNCHANGED <<vars, transcriptVars, recordVars, lockVars, command>>
     \/ part = "shell" /\ Types /\ UNCHANGED <<vars, transcriptVars, recordVars, lockVars, evidenceVars>>
MCSpec == MCInit /\ [][MCNext]_allVars

\* What the session really did, a history, is looked at by run EvidenceUnearned only.
SharedView ==
  <<part, vars, transcriptVars, recordVars, lockVars, files, ledger, doc, post, gate, opened, losses, command>>

\* Nothing tells one caller of the judge from the other, nor, as they have the
\* same names, one process at the lock.
MCSymmetry == Permutations(Callers)
=============================================================================
