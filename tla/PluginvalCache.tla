---------------------------- MODULE PluginvalCache ----------------------------
(***************************************************************************)
(* scripts/acquire-pluginval.py: several invocations prepare the release   *)
(* tool in one shared cache.  An invocation finds the tool's directory and *)
(* verifies it, or fetches, verifies and unpacks into a directory of its   *)
(* own and renames that into place.  Invocations race, fail anywhere, die  *)
(* and are retried; a published directory may be damaged or removed.       *)
(*                                                                         *)
(* Abstracted: digests (a content is the locked one or it is not), names   *)
(* (an archive's inventory is the set of flaws it has) and the platforms.  *)
(***************************************************************************)
EXTENDS Integers, FiniteSets

CONSTANTS
  Procs,        \* the invocations
  Members,      \* the files of the locked archive
  Flaws,        \* what inventory() refuses
  MaxHarm,      \* bound: times somebody damages or removes the published directory
  MaxRuns       \* bound: invocations started, retries included

ASSUME CacheAssumption == MaxHarm \in Nat /\ MaxRuns \in Nat

Contents == {"none", "locked", "other"}

\* A directory of the cache: its archive, its unpacked files, and anything else in the tree.
Dirs == [archive : Contents, tree : [Members -> Contents], extra : BOOLEAN]
Absent == [archive |-> "none", tree |-> [m \in Members |-> "none"], extra |-> FALSE]
Whole(d) ==
  d.archive = "locked" /\ (\A m \in Members : d.tree[m] = "locked") /\ ~d.extra

VARIABLES
  flaws,        \* of the locked archive and of the lock itself
  target,       \* the published directory
  present,      \* there is one
  staged, hasStage,   \* each invocation's own directory
  ppc, got,     \* each invocation: where, and what it came to
  harm, runs,
  disturbed     \* history: invocations under way or finished when somebody did harm

PvVars == <<flaws, target, present, staged, hasStage, ppc, got, harm, runs, disturbed>>

PvInit ==
  /\ flaws \in {{}} \cup {{f} : f \in Flaws \cup {"lock"}}
  /\ target = Absent /\ present = FALSE
  /\ staged = [p \in Procs |-> Absent] /\ hasStage = [p \in Procs |-> FALSE]
  /\ ppc = [p \in Procs |-> "idle"] /\ got = [p \in Procs |-> "none"]
  /\ harm = 0 /\ runs = 0 /\ disturbed = {}

cacheVars == <<target, present, harm, disturbed>>
ownVars   == <<staged, hasStage>>

PvGoto(p, at) == ppc' = [ppc EXCEPT ![p] = at]

\* SetupError or another exception: the finally clause, if it was entered, comes next.
PvRaise(p) ==
  /\ PvGoto(p, IF hasStage[p] THEN "finally" ELSE "done")
  /\ got' = [got EXCEPT ![p] = "error"]

PvReturn(p) ==
  /\ PvGoto(p, IF hasStage[p] THEN "finally" ELSE "done")
  /\ got' = [got EXCEPT ![p] = "path"]

-----------------------------------------------------------------------------
(* An invocation up to its choice. *)

Start(p) ==
  /\ ppc[p] \in {"idle", "done"} /\ runs < MaxRuns
  /\ runs' = runs + 1
  /\ PvGoto(p, "lock") /\ got' = [got EXCEPT ![p] = "none"]
  /\ disturbed' = disturbed \ {p}
  /\ hasStage' = [hasStage EXCEPT ![p] = FALSE]
  /\ UNCHANGED <<flaws, target, present, staged, harm>>

\* integrity_canary() holds: a wrong digest is refused.
LoadLock(p) ==
  /\ ppc[p] = "lock"
  /\ IF "lock" \in flaws THEN PvRaise(p) ELSE PvGoto(p, "look") /\ UNCHANGED got
  /\ UNCHANGED <<flaws, cacheVars, ownVars, runs>>

\* A directory that is there is verified; mkdtemp() may fail.
Look(p) ==
  /\ ppc[p] = "look"
  /\ \/ present /\ PvGoto(p, "archive") /\ UNCHANGED <<got, ownVars>>
     \/ ~present /\ PvRaise(p) /\ UNCHANGED ownVars
     \/ /\ ~present
        /\ hasStage' = [hasStage EXCEPT ![p] = TRUE]
        /\ staged' = [staged EXCEPT ![p] = Absent]
        /\ PvGoto(p, "fetch") /\ UNCHANGED got
  /\ UNCHANGED <<flaws, cacheVars, runs>>

-----------------------------------------------------------------------------
(* Verifying what is published, cached_tool(). *)

\* The second call of cached_tool, in the losing rename, is under the finally clause as well.
Verify(p, at, holds, next) ==
  /\ ppc[p] = at
  /\ IF holds THEN PvGoto(p, next) /\ UNCHANGED got ELSE PvRaise(p)
  /\ UNCHANGED <<flaws, cacheVars, ownVars, runs>>

CachedArchive(p) == Verify(p, "archive", present /\ target.archive = "locked", "manifest")

\* inventory() reads the archive a second time, without its digest.
CachedManifest(p) ==
  \/ Verify(p, "manifest", present /\ flaws = {}, "tree")
  \/ target.archive # "locked" /\ Verify(p, "manifest", FALSE, "tree")

VerifyTree(d) == (\A m \in Members : d.tree[m] = "locked") /\ ~d.extra

CachedTree(p) ==
  /\ ppc[p] = "tree"
  /\ IF present /\ VerifyTree(target) THEN PvReturn(p) ELSE PvRaise(p)
  /\ UNCHANGED <<flaws, cacheVars, ownVars, runs>>

-----------------------------------------------------------------------------
(* Preparing a directory of its own. *)

\* The connection may fail, or deliver something else, or less.
Fetch(p) ==
  /\ ppc[p] = "fetch"
  /\ \/ PvRaise(p) /\ UNCHANGED staged
     \/ \E c \in {"locked", "other"} :
          /\ staged' = [staged EXCEPT ![p].archive = c]
          /\ PvGoto(p, "check") /\ UNCHANGED got
  /\ UNCHANGED <<flaws, cacheVars, hasStage, runs>>

CheckArchive(p) ==
  /\ ppc[p] = "check"
  /\ IF staged[p].archive = "locked" /\ flaws = {}
     THEN PvGoto(p, "unpack") /\ UNCHANGED got
     ELSE PvRaise(p)
  /\ UNCHANGED <<flaws, cacheVars, ownVars, runs>>

\* One file, or an error; after the last the tree is verified.
Unpack(p) ==
  /\ ppc[p] = "unpack"
  /\ \/ PvRaise(p) /\ UNCHANGED staged
     \/ \E m \in Members :
          /\ staged[p].tree[m] = "none"
          /\ staged' = [staged EXCEPT ![p].tree[m] = staged[p].archive]
          /\ UNCHANGED <<ppc, got>>
     \/ /\ \A m \in Members : staged[p].tree[m] # "none"
        /\ VerifyTree(staged[p])
        /\ PvGoto(p, "rename") /\ UNCHANGED <<got, staged>>
  /\ UNCHANGED <<flaws, cacheVars, hasStage, runs>>

\* Mutant: whoever published first is taken to have done it well.
TrustWinner(p) ==
  /\ ppc[p] = "rename"
  /\ \/ /\ ~present
        /\ target' = staged[p] /\ present' = TRUE
        /\ hasStage' = [hasStage EXCEPT ![p] = FALSE]
        /\ PvGoto(p, "done") /\ got' = [got EXCEPT ![p] = "path"]
     \/ present /\ PvReturn(p) /\ UNCHANGED <<target, present, hasStage>>
  /\ UNCHANGED <<flaws, staged, harm, disturbed, runs>>

\* A directory in place is not replaced: the rename fails, as it may for other reasons.
Rename(p) ==
  /\ ppc[p] = "rename"
  /\ \/ /\ ~present
        /\ target' = staged[p] /\ present' = TRUE
        /\ hasStage' = [hasStage EXCEPT ![p] = FALSE]
        /\ PvGoto(p, "done") /\ got' = [got EXCEPT ![p] = "path"]
     \/ PvGoto(p, "lost") /\ UNCHANGED <<target, present, hasStage, got>>
  /\ UNCHANGED <<flaws, staged, harm, disturbed, runs>>

RenameFailed(p) ==
  /\ ppc[p] = "lost"
  /\ IF present THEN PvGoto(p, "archive") /\ UNCHANGED got ELSE PvRaise(p)
  /\ UNCHANGED <<flaws, cacheVars, ownVars, runs>>

\* rmtree() may fail, which is an error whatever had been returned.
Finally(p) ==
  /\ ppc[p] = "finally"
  /\ PvGoto(p, "done")
  /\ \/ hasStage' = [hasStage EXCEPT ![p] = FALSE] /\ UNCHANGED got
     \/ got' = [got EXCEPT ![p] = "error"] /\ UNCHANGED hasStage
  /\ UNCHANGED <<flaws, cacheVars, staged, runs>>

-----------------------------------------------------------------------------
(* The environment. *)

Die(p) ==
  /\ ppc[p] \notin {"idle", "done"}
  /\ PvGoto(p, "done") /\ got' = [got EXCEPT ![p] = "killed"]
  /\ UNCHANGED <<flaws, cacheVars, ownVars, runs>>

Harm ==
  /\ present /\ harm < MaxHarm
  /\ harm' = harm + 1
  /\ \/ target' = [target EXCEPT !.archive = "other"] /\ UNCHANGED present
     \/ \E m \in Members, c \in {"none", "other"} :
          target' = [target EXCEPT !.tree[m] = c] /\ UNCHANGED present
     \/ target' = [target EXCEPT !.extra = TRUE] /\ UNCHANGED present
     \/ target' = Absent /\ present' = FALSE
  /\ disturbed' = {p \in Procs : ppc[p] \in {"manifest", "tree", "finally", "done"}}
  /\ UNCHANGED <<flaws, ownVars, ppc, got, runs>>

Invocation(p) ==
  \/ Start(p) \/ LoadLock(p) \/ Look(p) \/ CachedArchive(p) \/ CachedManifest(p) \/ CachedTree(p)
  \/ Fetch(p) \/ CheckArchive(p) \/ Unpack(p) \/ Rename(p) \/ RenameFailed(p) \/ Finally(p)
  \/ Die(p)

PvNext == Harm \/ \E p \in Procs : Invocation(p)

PvSpec == PvInit /\ [][PvNext]_PvVars

-----------------------------------------------------------------------------
(* Properties. *)

PvTypeOK ==
  /\ flaws \subseteq Flaws \cup {"lock"}
  /\ target \in Dirs /\ present \in BOOLEAN
  /\ staged \in [Procs -> Dirs] /\ hasStage \in [Procs -> BOOLEAN]
  /\ ppc \in [Procs -> {"idle", "lock", "look", "archive", "manifest", "tree", "fetch", "check",
                        "unpack", "rename", "lost", "finally", "done"}]
  /\ got \in [Procs -> {"none", "path", "error", "killed"}]
  /\ harm \in 0..MaxHarm /\ runs \in 0..MaxRuns /\ disturbed \subseteq Procs

(***************************************************************************)
(* A path that an invocation returned leads to the locked tool, complete   *)
(* and with nothing beside it, whoever prepared it, whichever of them      *)
(* died or failed half way and whatever was done to the cache before the   *)
(* invocation looked (prepare, cached_tool).  Harm done behind its back,   *)
(* after it read the archive, is excepted.                                 *)
(***************************************************************************)
ReturnedIsLocked ==
  \A p \in Procs : got[p] = "path" /\ p \notin disturbed => present /\ Whole(target)

(***************************************************************************)
(* While nobody harms the cache the published name only ever holds the     *)
(* whole tool, and none if the archive or the lock is not acceptable:      *)
(* nothing half fetched or half unpacked is ever in place.                 *)
(***************************************************************************)
PublishedIsWhole == harm = 0 /\ present => Whole(target) /\ flaws = {}

(***************************************************************************)
(* Both: the shared cache only ever gives the locked tool.                 *)
(***************************************************************************)
CacheIsSound == ReturnedIsLocked /\ PublishedIsWhole
=============================================================================
