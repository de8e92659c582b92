----------------------------- MODULE MCBreaker -----------------------------
(* Small instances of Breaker for TLC. *)
EXTENDS Breaker, TLC

CONSTANTS h1, h2, w1, z1, c1, c2, a1

MCProcs == Procs
MCHooks == {h1, h2}
MCOneHook == {h1}
MCWorkers == {w1}
MCStops == {z1}
MCNone == {}
MCClaims == {c1, c2}
MCOneClaim == {c1}
MCMatches == MCClaims \X MCClaims
MCOneMatch == {<<c1, c1>>}
MCActions == {a1}
MCVerdicts == {"grounded", "provisional", "needed"}
MCAllTools == AllTools
MCTools == {"mutate", "free"}
MCShellTools == {"mutate", "research"}
=============================================================================
