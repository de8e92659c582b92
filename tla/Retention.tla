----------------------------- MODULE Retention -----------------------------
(***************************************************************************)
(* Where the window of a transcript begins that a judge is shown, and how  *)
(* long the message around it may be (gate/transcript_tail.py).  The       *)
(* window does not slide with the text: it moves in chunks, so that judge  *)
(* calls in a row share their first characters and the model's prompt      *)
(* cache applies.  Lengths are counted in characters and nothing else of   *)
(* the text matters here.                                                  *)
(***************************************************************************)
EXTENDS Integers

CONSTANTS
  Budget,   \* characters the window may have
  Chunk,    \* characters dropped at a time: Budget * (1 - ratio), rounded;
            \* 0 stands for a ratio of 1, plain tailing
  MaxSize   \* characters a message may have (JUDGE_EFFECTIVE_MAX_CHARS)

(* _retention_ratio() keeps the ratio in (0, 1], so a chunk is never       *)
(* larger than the budget.                                                 *)
ASSUME RetentionConstants ==
  /\ Budget \in Nat \ {0}
  /\ Chunk \in 0 .. Budget
  /\ MaxSize \in Nat \ {0}

Steps(overflow) == (overflow + Chunk - 1) \div Chunk

\* Faulty variant: the number of chunks is rounded down.
StickyStartFloor(n) ==
  IF n <= Budget THEN 0
  ELSE IF Chunk = 0 THEN n - Budget ELSE ((n - Budget) \div Chunk) * Chunk

\* Faulty variant: a window that slides with the text.
StickyStartSliding(n) == IF n <= Budget THEN 0 ELSE n - Budget

(* _sticky_start: the index of the first character kept.                   *)
StickyStart(n) ==
  IF n <= Budget THEN 0
  ELSE IF Chunk = 0 THEN n - Budget
  ELSE LET start == Steps(n - Budget) * Chunk
       IN  IF start >= n THEN n - Budget ELSE start

(* cap_judge_message: the length of what is left of a text of length n.    *)
(* What is cut makes room for a note that says so; a note longer than max  *)
(* is cut, too.                                                            *)
Capped(n, max) == IF n <= max THEN n ELSE max

\* Faulty variant: the room is counted without the suffix.
FittedLoose(prefix, body, suffix) ==
  IF prefix + suffix >= MaxSize THEN Capped(prefix + suffix, MaxSize)
  ELSE prefix + Capped(body, MaxSize - prefix) + suffix

(* fit_judge_user_message: the length of the message.                      *)
Fitted(prefix, body, suffix) ==
  IF prefix + suffix >= MaxSize THEN Capped(prefix + suffix, MaxSize)
  ELSE prefix + Capped(body, MaxSize - prefix - suffix) + suffix
=============================================================================
