----------------------------- MODULE ClaimGate -----------------------------
(***************************************************************************)
(* What the groundedness breaker promises, without rows, locks, windows or *)
(* processes: a claim flagged in a prompt stays flagged until it is        *)
(* resolved (grounded or failed open), lifted for verification, or left    *)
(* behind by a later prompt; a lifted claim may be reinstated; a resolved  *)
(* claim, or one that matches it, is not flagged again.                    *)
(***************************************************************************)
EXTENDS Naturals

CONSTANTS Claims, NoClaim, Matches, MaxPrompt

VARIABLES
  prompt,   \* the prompt being worked on
  gate,     \* "open", "armed" or "lifted"
  claim,    \* the flagged claim
  owner,    \* the prompt in which it was flagged, 0 when the gate is open
  resolved  \* the claims grounded or failed open

gateVars == <<prompt, gate, claim, owner, resolved>>

GateInit ==
  /\ prompt = 1 /\ gate = "open" /\ claim = NoClaim /\ owner = 0 /\ resolved = {}

Submit ==
  /\ prompt < MaxPrompt
  /\ prompt' = prompt + 1
  /\ UNCHANGED <<gate, claim, owner, resolved>>

Flaggable(c) == c # NoClaim => \A d \in resolved : <<c, d>> \notin Matches

Flag(c) ==
  /\ gate = "open" \/ owner # prompt
  /\ Flaggable(c)
  /\ gate' = "armed" /\ claim' = c /\ owner' = prompt
  /\ UNCHANGED <<prompt, resolved>>

Lift ==
  /\ gate = "armed" /\ claim # NoClaim
  /\ gate' = "lifted"
  /\ UNCHANGED <<prompt, claim, owner, resolved>>

Return ==
  /\ gate = "lifted"
  /\ gate' = "armed"
  /\ UNCHANGED <<prompt, claim, owner, resolved>>

OpenGate == gate' = "open" /\ claim' = NoClaim /\ owner' = 0

Resolve ==
  /\ gate # "open"
  /\ OpenGate
  /\ resolved' = resolved \cup ({claim} \ {NoClaim})
  /\ UNCHANGED prompt

Leave ==
  /\ gate # "open" /\ owner # prompt
  /\ OpenGate
  /\ UNCHANGED <<prompt, resolved>>

\* With a block budget of one call a claim is failed open as it is flagged.
Dismiss(c) ==
  /\ gate = "open" \/ owner # prompt
  /\ Flaggable(c)
  /\ OpenGate
  /\ resolved' = resolved \cup ({c} \ {NoClaim})
  /\ UNCHANGED prompt

GateNext ==
  \/ Submit \/ Lift \/ Return \/ Resolve \/ Leave
  \/ \E c \in Claims \cup {NoClaim} : Flag(c) \/ Dismiss(c)

GateSpec == GateInit /\ [][GateNext]_gateVars
=============================================================================
