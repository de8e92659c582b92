---------------------------- MODULE RuntimeSync ----------------------------
(* The runtime under ~/.unifable that the launchers run                       *)
(* (runtime_sync.sync_runtime, started by session_start.main and by           *)
(* cli_install.ensure_cli): a version is copied from a plugin cache the host  *)
(* may delete at any moment, published by a rename, and the current link is   *)
(* flipped to it.  A tree is the set of its entries; the sentinel that is     *)
(* looked at is in the entry "hooks", the first one copied.  shutil.rmtree    *)
(* removes a tree entry by entry, in any order, and passes over what it       *)
(* cannot remove.                                                             *)
EXTENDS Naturals, FiniteSets, FiniteSetsExt

CONSTANTS
  Newest,      \* versions are 1..Newest
  Keep,        \* _KEEP_VERSIONS
  Syncers,     \* processes that sync
  MaxKills     \* bound: kills, failed flips and removals that fail

ASSUME SyncConstants == Newest \in Nat \ {0} /\ Keep \in Nat /\ MaxKills \in Nat

Versions == 1..Newest
Entries == {"hooks", "rest"}

VARIABLES
  cache,       \* versions the host's plugin cache holds
  tree,        \* version -> entries of versions/<v>
  tmp,         \* version -> entries of versions/<v>.tmp, of the copy under way
  current,     \* the version the link names, 0 before the first flip
  linkTmp,     \* the version .current.tmp names, 0 for none
  sync,        \* per syncer: where it is, and what it decided
  kills,
  lost,        \* history: versions the cache dropped while they were copied
  torn         \* history: versions something was removed of since they were published

syncVars == <<cache, tree, tmp, current, linkTmp, sync, kills, lost, torn>>
Idle == [at |-> "idle", v |-> 0, force |-> FALSE, todo |-> {}, rm |-> {}, tried |-> FALSE]

SyncInit ==
  /\ cache = {1} /\ tree = [v \in Versions |-> {}]
  /\ tmp = [v \in Versions |-> {}]
  /\ current = 0 /\ linkTmp = 0 /\ kills = 0 /\ lost = {} /\ torn = {}
  /\ sync = [s \in Syncers |-> Idle]

HasRuntime(t) == "hooks" \in t
\* current_version: None when the link is missing or leads to no runtime.
CurrentVersion == IF current # 0 /\ HasRuntime(tree[current]) THEN current ELSE 0
Going(s) == sync[s].at # "idle"
At(s, place) == sync' = [sync EXCEPT ![s].at = place]
Quit(s) == sync' = [sync EXCEPT ![s] = Idle]
\* What versions/<v> holds of the versions in V: what rmtree has to visit.
Holdings(V) == {p \in V \X Entries : p[2] \in tree[p[1]]}
RemoveAll(s, place, V) == sync' = [sync EXCEPT ![s].at = place, ![s].rm = Holdings(V)]

-----------------------------------------------------------------------------
\* The host installs a newer version, or removes one it no longer needs.
HostInstalls(v) ==
  /\ v \notin cache /\ \A c \in cache : c < v
  /\ cache' = cache \cup {v}
  /\ UNCHANGED <<tree, tmp, current, linkTmp, sync, kills, lost, torn>>

HostRemoves(v) ==
  /\ v \in cache /\ \E c \in cache : c > v
  /\ cache' = cache \ {v}
  /\ lost' = lost \cup {w \in {v} : \E s \in Syncers : sync[s].v = w /\ sync[s].at = "copy"}
  /\ UNCHANGED <<tree, tmp, current, linkTmp, sync, kills, torn>>

\* The version to install: the source an installer or ensure_cli names, or the
\* newest in the cache.  A needed version that is there already is reused unless
\* forced; otherwise the leftover of an earlier copy goes first (in one step: no
\* link leads to it and whoever copies that version next clears it again).
\* Faulty variant: any version of the cache that is not the current one is needed.
NeededAny(v, force) == force \/ CurrentVersion # v
\* Faulty variant: nothing is needed while something runs.
NeededOnce(v, force) == force \/ CurrentVersion = 0
Needed(v, force) == force \/ CurrentVersion < v
Begin(s, v, force) ==
  /\ ~Going(s) /\ v \in cache
  /\ LET reuse == ~force /\ HasRuntime(tree[v])
     IN sync' = [sync EXCEPT ![s] =
          [at |-> IF ~Needed(v, force) THEN "gc" ELSE IF reuse THEN "flip" ELSE "copy",
           v |-> v, force |-> force, todo |-> Entries, rm |-> {}, tried |-> FALSE]]
  /\ tmp' = IF Needed(v, force) /\ (force \/ ~HasRuntime(tree[v]))
            THEN [tmp EXCEPT ![v] = {}] ELSE tmp
  /\ UNCHANGED <<cache, tree, current, linkTmp, kills, lost, torn>>

\* One entry after the other, hooks first.  An entry that is gone from the cache
\* is skipped like one the version never had.
CopyEntry(s) ==
  /\ sync[s].at = "copy" /\ sync[s].todo # {}
  /\ LET e == IF "hooks" \in sync[s].todo THEN "hooks" ELSE "rest"
         v == sync[s].v
     IN /\ sync' = [sync EXCEPT ![s].todo = @ \ {e}]
        /\ tmp' = IF v \in cache THEN [tmp EXCEPT ![v] = @ \cup {e}] ELSE tmp
  /\ UNCHANGED <<cache, tree, current, linkTmp, kills, lost, torn>>

\* An entry vanishes while it is read (OSError), or the sentinel is missing: the
\* copy is removed and the version is not installed.
CopyFails(s) ==
  /\ sync[s].at = "copy"
  /\ \/ sync[s].todo # {} /\ sync[s].v \notin cache
     \/ sync[s].todo = {} /\ ~HasRuntime(tmp[sync[s].v])
  /\ tmp' = [tmp EXCEPT ![sync[s].v] = {}] /\ At(s, "gc")
  /\ UNCHANGED <<cache, tree, current, linkTmp, kills, lost, torn>>

\* The copy has the sentinel: what versions/<v> holds is removed ...
\* Faulty variant: the copy is taken for complete as soon as it has the sentinel.
ValidateEarly(s) ==
  /\ sync[s].at = "copy" /\ HasRuntime(tmp[sync[s].v])
  /\ RemoveAll(s, "clear", {sync[s].v})
  /\ UNCHANGED <<cache, tree, tmp, current, linkTmp, kills, lost, torn>>
Validate(s) ==
  /\ sync[s].at = "copy" /\ sync[s].todo = {} /\ HasRuntime(tmp[sync[s].v])
  /\ RemoveAll(s, "clear", {sync[s].v})
  /\ UNCHANGED <<cache, tree, tmp, current, linkTmp, kills, lost, torn>>

\* One entry of the newest tree to remove; RemoveFails leaves it there.
Visit(s, p) ==
  /\ p \in sync[s].rm /\ \A q \in sync[s].rm : q[1] <= p[1]
  /\ sync' = [sync EXCEPT ![s].rm = @ \ {p}]
  /\ UNCHANGED <<cache, tmp, current, linkTmp, lost>>
RemoveEntry(s) ==
  \E p \in Versions \X Entries :
    /\ Visit(s, p)
    /\ tree' = [tree EXCEPT ![p[1]] = @ \ {p[2]}] /\ torn' = torn \cup {p[1]}
    /\ UNCHANGED kills
RemoveFails(s) ==
  /\ kills < MaxKills /\ kills' = kills + 1
  /\ \E p \in Versions \X Entries : Visit(s, p)
  /\ UNCHANGED <<tree, torn>>

\* ... and the copy renamed to it, ...
Cleared(s) == sync[s].at = "clear" /\ sync[s].rm = {}
Publish(s) ==
  /\ Cleared(s) /\ tree[sync[s].v] = {}
  /\ tree' = [tree EXCEPT ![sync[s].v] = tmp[sync[s].v]]
  /\ tmp' = [tmp EXCEPT ![sync[s].v] = {}] /\ At(s, "flip")
  /\ torn' = torn \ {sync[s].v}
  /\ UNCHANGED <<cache, current, linkTmp, kills, lost>>

\* ... which fails over a tree that is not empty.
PublishFails(s) ==
  /\ Cleared(s) /\ tree[sync[s].v] # {}
  /\ tmp' = [tmp EXCEPT ![sync[s].v] = {}] /\ At(s, "gc")
  /\ UNCHANGED <<cache, tree, current, linkTmp, kills, lost, torn>>

\* _flip_current: a new link beside, then a rename over the old one.
MakeLink(s) ==
  /\ sync[s].at = "flip" /\ HasRuntime(tree[sync[s].v])
  /\ linkTmp' = sync[s].v /\ At(s, "swing")
  /\ UNCHANGED <<cache, tree, tmp, current, kills, lost, torn>>

Swing(s) ==
  /\ sync[s].at = "swing" /\ linkTmp # 0
  /\ current' = linkTmp /\ linkTmp' = 0 /\ At(s, "gc")
  /\ UNCHANGED <<cache, tree, tmp, kills, lost, torn>>

\* The flip fails: it is tried once more while current did not move.
FlipFails(s) ==
  /\ sync[s].at \in {"flip", "swing"} /\ kills < MaxKills
  /\ kills' = kills + 1 /\ linkTmp' = 0
  /\ sync' = [sync EXCEPT ![s].tried = TRUE, ![s].at =
       IF sync[s].tried \/ CurrentVersion = sync[s].v THEN "gc" ELSE "flip"]
  /\ UNCHANGED <<cache, tree, tmp, current, lost, torn>>

\* _gc_versions keeps the newest ones and the current one.
\* Faulty variant: the current one is not protected.
CollectedAll ==
  {v \in Versions : tree[v] # {} /\ Cardinality({w \in Versions : w > v /\ tree[w] # {}}) >= Keep}
Collected ==
  {v \in Versions : tree[v] # {} /\ v # CurrentVersion
                    /\ Cardinality({w \in Versions : w > v /\ tree[w] # {}}) >= Keep}
Collect(s) ==
  /\ sync[s].at = "gc" /\ RemoveAll(s, "collect", Collected)
  /\ UNCHANGED <<cache, tree, tmp, current, linkTmp, kills, lost, torn>>
CollectEnds(s) ==
  /\ sync[s].at = "collect" /\ sync[s].rm = {} /\ Quit(s)
  /\ UNCHANGED <<cache, tree, tmp, current, linkTmp, kills, lost, torn>>

\* The hook's timeout, or ensure_cli's 30 seconds, end the process.
Killed(s) ==
  /\ Going(s) /\ kills < MaxKills
  /\ kills' = kills + 1 /\ Quit(s)
  /\ UNCHANGED <<cache, tree, tmp, current, linkTmp, lost, torn>>

Begins == \E s \in Syncers, v \in Versions, f \in BOOLEAN : Begin(s, v, f)
\* The steps a sync that is left alone takes to its end.
Step(s) ==
  \/ CopyEntry(s) \/ CopyFails(s) \/ Validate(s) \/ RemoveEntry(s) \/ Publish(s) \/ PublishFails(s)
  \/ MakeLink(s) \/ Swing(s) \/ Collect(s) \/ CollectEnds(s)
SyncNext ==
  \/ \E v \in Versions : HostInstalls(v) \/ HostRemoves(v)
  \/ Begins
  \/ \E s \in Syncers : Step(s) \/ RemoveFails(s) \/ FlipFails(s) \/ Killed(s)

\* A sync runs to its end, and sessions that sync from the newest version of the
\* cache keep starting.
BeginNewest == \E s \in Syncers : Begin(s, Max(cache), FALSE)
SyncSpec == SyncInit /\ [][SyncNext]_syncVars
SyncFairSpec == SyncSpec /\ (\A s \in Syncers : WF_syncVars(Step(s))) /\ SF_syncVars(BeginNewest)

-----------------------------------------------------------------------------
\* One sync at a time: a version is published whole, unless the host removed it
\* from the cache between the copies of two entries; afterwards only a removal that
\* began takes from it.
PublishedWhole ==
  \A v \in Versions : HasRuntime(tree[v]) /\ v \notin lost \cup torn => tree[v] = Entries

\* One sync at a time: without force the link never goes back to an older version
\* that runs.
NeverBackward ==
  current' < current => ~HasRuntime(tree[current]) \/ \E s \in Syncers : sync[s].force

\* One sync at a time: of a version that the link names and that runs, only a forced
\* sync of that very version removes anything.
CurrentKept ==
  current # 0 /\ HasRuntime(tree[current]) /\ tree'[current] # tree[current] =>
    \E s \in Syncers : sync[s].force /\ sync[s].v = current

\* One sync at a time: what the link names can be run, but while such a sync replaces
\* it, and after one that a kill or a failed removal cut short.
LinkRuns ==
  current # 0 /\ ~HasRuntime(tree[current]) =>
    /\ current \in torn
    /\ kills > 0 \/ \E s \in Syncers : sync[s].at = "clear" /\ sync[s].force /\ sync[s].v = current

\* Whatever installs, removals and kills do, launchers find a whole runtime that is
\* no older than the one before.
CurrentRuns == [][NeverBackward /\ CurrentKept /\ (LinkRuns /\ PublishedWhole)']_syncVars

\* "Any error leaves the existing runtime untouched": a sync that fails leaves the
\* launchers something to run.  Run SyncTorn refutes it.
ErrorKeepsRuntime ==
  [][\A s \in Syncers : PublishFails(s) => current = 0 \/ HasRuntime(tree[current])]_syncVars

\* Whatever kills and deletions happened, once they and the forced syncs stop the
\* newest version of the cache is the one that runs.
NewestRuns == <>[](current = Max(cache) /\ HasRuntime(tree[current])) \/ []<>(\E s \in Syncers : sync[s].force)
=============================================================================
