------------------------------ MODULE JudgeCall ------------------------------
(* A judge call without the shared daemon: read the Codex login, refresh it    *)
(* when it has expired, connect, ask, read the answer, ask once more when it   *)
(* is malformed.  Every hook, job and command on the machine shares one login  *)
(* file, whose refresh token the provider takes once, and its one temp file;   *)
(* no lock guards either.  `t` is the time since the call began.               *)
EXTENDS Naturals, FiniteSets

CONSTANTS Callers,
          Timeout, Floor,      \* READ_TIMEOUT, REASK_FLOOR
          Refreshing, Shaking, \* what a refresh takes, and connecting, or one read:
                               \* assumed of the network, for the code times out
                               \* single socket operations, of which a peer that
                               \* answers byte by byte can make it do any number
          Attempts,            \* 1 + REASK_ATTEMPTS
          MaxTokens, MaxLost, Nobody

ASSUME JudgeCallConstants ==
  /\ {Timeout, Floor, Refreshing, Shaking, MaxTokens, MaxLost} \subseteq Nat
  /\ Floor <= Timeout /\ Attempts \in Nat \ {0}

VARIABLES live,      \* the one refresh token the provider takes
          expired,   \* access tokens (by number) that have run out
          file,      \* auth.json: the tokens it holds, 0 while it is torn
          temp,      \* auth.json.refresh.tmp: Nobody, 0 when torn, or tokens
          call,      \* each caller's progress
          lost       \* history: tokens minted that no file will hold
vars == <<live, expired, file, temp, call, lost>>

Idle == [pc |-> "idle", t |-> 0, attempt |-> 1, forced |-> FALSE, doc |-> 0, new |-> 0]
Init ==
  /\ live = 1 /\ expired \in SUBSET {1} /\ file = 1 /\ temp = Nobody
  /\ call = [p \in Callers |-> Idle] /\ lost = 0

Is(p, pc) == call[p].pc = pc
Goes(p, c) == call' = [call EXCEPT ![p] = c]
Later(p, d, pc) == [call[p] EXCEPT !.t = @ + d, !.pc = pc]
login == <<live, expired, file, temp, lost>>

----------------------------------------------------------------------------
Begin(p) == Is(p, "idle") /\ Goes(p, [Idle EXCEPT !.pc = "auth"]) /\ UNCHANGED login

\* Faulty variant: a malformed answer is asked for again until the deadline.
AgainLate(p, c) == c.attempt < Attempts /\ c.t < Timeout
\* Another attempt, unless too little time is left.
Again(p, c) == c.attempt < Attempts /\ c.t + Floor < Timeout
\* A JudgeError: asked again, but for the one a forced refresh ran into.
Fails(p, c) ==
  IF ~c.forced /\ Again(p, c)
  THEN Goes(p, [c EXCEPT !.pc = "auth", !.attempt = @ + 1, !.new = 0])
  ELSE Goes(p, [c EXCEPT !.pc = "done"])

\* _fresh_tokens: the token is good, or it is forced or past its time.
ReadLogin(p) ==
  /\ Is(p, "auth")
  /\ IF file = 0 THEN Fails(p, call[p])
     ELSE Goes(p, [call[p] EXCEPT !.doc = file,
                                  !.pc = IF call[p].forced \/ file \in expired THEN "refresh" ELSE "connect"])
  /\ UNCHANGED login
\* _refresh: the provider takes the token, calls it used, or is not reached; its
\* answer may be lost after it has taken the token.
Mint(p, d) ==
  /\ Is(p, "refresh") /\ call[p].doc = live /\ live < MaxTokens
  /\ live' = live + 1 /\ Goes(p, [Later(p, d, "minted") EXCEPT !.new = live + 1])
  /\ UNCHANGED <<expired, file, temp, lost>>
MintLost(p, d) ==
  /\ Is(p, "refresh") /\ call[p].doc = live /\ live < MaxTokens /\ lost < MaxLost
  /\ live' = live + 1 /\ lost' = lost + 1 /\ Fails(p, Later(p, d, "refresh"))
  /\ UNCHANGED <<expired, file, temp>>
Refused(p, d) ==
  /\ Is(p, "refresh") /\ Fails(p, Later(p, d, "refresh"))
  /\ UNCHANGED login
\* _atomic_write: open the one temp file, write, move it over the login.
OpenTemp(p) ==
  /\ Is(p, "minted") /\ temp' = 0 /\ Goes(p, Later(p, 0, "opened"))
  /\ UNCHANGED <<live, expired, file, lost>>
\* Faulty variant: the refresh token of the document is written back.
WriteTempOld(p) ==
  /\ Is(p, "opened") /\ temp' = call[p].doc /\ Goes(p, Later(p, 0, "written"))
  /\ UNCHANGED <<live, expired, file, lost>>
WriteTemp(p) ==
  /\ Is(p, "opened") /\ temp' = call[p].new /\ Goes(p, Later(p, 0, "written"))
  /\ UNCHANGED <<live, expired, file, lost>>
Replace(p) ==
  /\ Is(p, "written") /\ temp # Nobody
  /\ file' = temp /\ temp' = Nobody
  /\ Goes(p, [Later(p, 0, "connect") EXCEPT !.doc = call[p].new, !.new = 0])
  /\ UNCHANGED <<live, expired, lost>>

----------------------------------------------------------------------------
\* _ws_connect: taken, rejected (for its token or for anything else), or broken
\* off.  A rejection has the token refreshed, once an attempt.
Connects(p, d) ==
  /\ Is(p, "connect") /\ call[p].doc \notin expired
  /\ Goes(p, Later(p, d, "asked")) /\ UNCHANGED login
Rejected(p, d) ==
  LET c == Later(p, d, "auth")
  IN /\ Is(p, "connect")
     /\ IF c.forced THEN Goes(p, [c EXCEPT !.pc = "done"]) ELSE Goes(p, [c EXCEPT !.forced = TRUE])
     /\ UNCHANGED login
Breaks(p, d) ==
  /\ Is(p, "connect") \/ (Is(p, "asked") /\ call[p].t < Timeout)
  /\ Goes(p, Later(p, d, "done")) /\ UNCHANGED login
\* The events of one answer, until the deadline, which is looked at between reads;
\* the last read may outlast it, by what a read takes.
\* Malformed text is asked for again, after a forced refresh too; an error the
\* provider reports, or nothing at all, is a JudgeError.
Reads(p, d) ==
  /\ Is(p, "asked") /\ call[p].t < Timeout /\ call[p].t + d < Timeout + Shaking
  /\ UNCHANGED login
Answered(p, d) == Reads(p, d) /\ Goes(p, Later(p, d, "done"))
Malformed(p, d) == Reads(p, d) /\ Fails(p, [Later(p, d, "asked") EXCEPT !.forced = FALSE])
Unanswered(p, d) ==
  \/ Reads(p, d) /\ Fails(p, Later(p, d, "asked"))
  \/ Is(p, "asked") /\ call[p].t >= Timeout /\ d = 0 /\ Fails(p, call[p]) /\ UNCHANGED login
Ends(p) == Is(p, "done") /\ Goes(p, Idle) /\ UNCHANGED login
\* Host timeouts and signals, between any two steps.
Killed(p) ==
  /\ ~Is(p, "idle") /\ Goes(p, Idle)
  /\ lost' = (IF call[p].new # 0 THEN lost + 1 ELSE lost) /\ lost' <= MaxLost
  /\ UNCHANGED <<live, expired, file, temp>>
\* The Codex command line shares the login and refreshes it in its own way.
CliRefreshes ==
  /\ file = live /\ live < MaxTokens /\ live' = live + 1 /\ file' = live + 1
  /\ UNCHANGED <<expired, temp, call, lost>>
Expires(n) == n \notin expired /\ n <= live /\ expired' = expired \cup {n} /\ UNCHANGED <<live, file, temp, call, lost>>

Durations(most) == {0, most}
Next ==
  \/ \E p \in Callers :
       \/ Begin(p) \/ ReadLogin(p) \/ OpenTemp(p) \/ WriteTemp(p) \/ Replace(p) \/ Ends(p) \/ Killed(p)
       \/ \E d \in Durations(Refreshing) : Mint(p, d) \/ MintLost(p, d) \/ Refused(p, d)
       \/ \E d \in Durations(Shaking) : Connects(p, d) \/ Rejected(p, d) \/ Breaks(p, d)
       \/ \E d \in 0..(Timeout + Shaking) : Answered(p, d) \/ Malformed(p, d) \/ Unanswered(p, d)
  \/ CliRefreshes
  \/ \E n \in 1..MaxTokens : Expires(n)
Spec == Init /\ [][Next]_vars

----------------------------------------------------------------------------
\* What must hold.

\* The login survives: the file is whole and its refresh token is the live one,
\* or the process that has the live one is about to write it, unless an answer
\* was lost or a process killed with the token in hand.  What a process moves into
\* place is what it wrote: no second one came by a token to write the temp file.
LoginKept ==
  lost = 0 => /\ file # 0
              /\ file = live \/ \E p \in Callers : call[p].new = live
              /\ \A p \in Callers : Is(p, "written") => temp = call[p].new
\* A call ends within a deadline's last read, or within what a last attempt begun
\* in time and rejected once may take, where reads and handshakes are as short as
\* assumed.
Larger(a, b) == IF a > b THEN a ELSE b
CallBounded ==
  \A p \in Callers :
    call[p].t <= Larger(Timeout + Shaking, Timeout + 2 * (Refreshing + Shaking) - Floor)
=============================================================================
