---------------------------- MODULE MCSpecStore ----------------------------
(* Small instances of SpecStore for TLC: every bound is in the cfg files.   *)
EXTENDS SpecStore, TLC

\* While a Stop pass works alone on its own document, the stored one matters
\* only if the pass dies, and the state this leads to is one that the same
\* steps, or Hygiene, reach without the pass.  After the pass the stored one
\* determines the other.
InUse == IF stop.at \in {"heal", "judge", "apply"} THEN stop.work ELSE doc

\* Nothing asks which of two tasks came first, so of the list of tasks it matters
\* how often each occurs in it, and whether it is still to be judged.
View ==
  LET place(i) == <<InUse.tasks[i], i \in stop.items>>
      often(x) == Cardinality({i \in Ids(InUse) : place(i) = x})
  IN  <<stop.at, parked, InUse.seeded, InUse.heavy, InUse.stall,
        {<<x, often(x)>> : x \in {place(i) : i \in Ids(InUse)}}>>
=============================================================================
