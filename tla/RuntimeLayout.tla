---------------------------- MODULE RuntimeLayout ----------------------------
(* The runtime namespace of one home (src/src/runtime/update/installer.ts):  *)
(* immutable deployments under versions/<digest>, the references of refs/,   *)
(* and the layout of earlier packages, versions/<semver> with the links      *)
(* runtime/current and runtime/previous, that the store migrates in place.   *)
EXTENDS Acquisition, FiniteSets

CONSTANT MaxRelease
ASSUME RuntimeLayoutAssumption == MaxRelease \in Nat \ {0}

Releases == 1..MaxRelease
None == "none"

\* What a directory holds of a release's tree: all of it, or the part a copy
\* or an extraction that was cut short has left.
Parts == {"whole", "partial"}
Trees == Parts \cup {None}

\* A deployment is named by the digest of a tree: of the allowlisted copy that
\* init makes ("pruned"), of the tree as released ("full"), or of what an
\* earlier package has installed.
Legacy(version) == <<"legacy", version, 0, "whole">>
LegacyIds == {Legacy("0.9.0"), Legacy("1.0.0")}
Ids == LegacyIds \cup ({"pruned", "full"} \X Channels \X Releases \X Parts)
NoId == <<"none", "none", 0, "none">>

VARIABLES
  deployed,   \* runtime/versions: contents and metadata record of each digest
  aside,      \* the digests of what lies there under any other name: directories
              \* of the old layout and the copies of killed commands
  active, previous, staged,   \* the references of runtime/refs
  layout      \* the migration marker with its plan, and the two old links

store == <<deployed, aside, active, previous, staged, layout>>

NoDeployment == [tree |-> None, meta |-> FALSE]
NewLayout == [marker |-> None, plan |-> {}, current |-> NoId, before |-> NoId]

NoLegacyRuntime == aside = {} /\ layout = NewLayout
LegacyRuntime ==
  /\ aside = LegacyIds
  /\ layout \in {[NewLayout EXCEPT !.current = Legacy("1.0.0"), !.before = b] : b \in {NoId, Legacy("0.9.0")}}

NoReferences == active = NoId /\ previous = NoId /\ staged = NoId

\* A reference counts when it names a deployment with its metadata record.
Validated(id) == id # NoId /\ deployed[id].meta /\ deployed[id].tree # None

(***************************************************************************)
(* The migration, one step per write that can be the last one: the plan    *)
(* before any rename, the references before the commit, and nothing of the *)
(* old layout removed before it.                                           *)
(***************************************************************************)
\* Every name that is no digest is planned, unless a plan is already written.
Plan == IF layout.marker = "migrating" THEN layout.plan ELSE aside

NothingLegacy == layout.current = NoId /\ layout.before = NoId /\ aside = {}

Resolves(link) == link \in Plan

\* The serving runtime has to be known before anything is renamed.
Unresolvable ==
  \/ IF layout.current = NoId THEN active = NoId ELSE ~Resolves(layout.current)
  \/ layout.before # NoId /\ ~Resolves(layout.before)

RecordNewLayout ==
  /\ layout.marker # "committed" /\ NothingLegacy
  /\ layout' = [layout EXCEPT !.marker = "committed", !.plan = {}]
  /\ UNCHANGED <<deployed, aside, active, previous, staged>>

PlanMigration ==
  /\ layout.marker # "committed" /\ ~NothingLegacy /\ ~Unresolvable
  /\ layout' = [layout EXCEPT !.marker = "migrating", !.plan = Plan]
  /\ UNCHANGED <<deployed, aside, active, previous, staged>>

Pending == {id \in layout.plan : ~Validated(id)}

\* A directory that is already under its digest only gets its record.
Movable(id) == id \in aside \/ deployed[id].tree # None
MigrateEntry(id) ==
  /\ IF deployed[id].tree = None
     THEN /\ aside' = aside \ {id} /\ deployed' = [deployed EXCEPT ![id].tree = id[4]]
     ELSE deployed' = [deployed EXCEPT ![id].meta = TRUE] /\ UNCHANGED aside
  /\ UNCHANGED <<active, previous, staged, layout>>

\* A reference that is valid and names another deployment is not overwritten.
Taken(reference, id) == id # NoId /\ Validated(reference) /\ reference # id
Ensured(reference, id) == IF id = NoId \/ Validated(reference) THEN reference ELSE id

EnsureActiveRef ==
  /\ active' = Ensured(active, layout.current)
  /\ UNCHANGED <<deployed, aside, previous, staged, layout>>

EnsurePreviousRef ==
  /\ previous' = Ensured(previous, layout.before)
  /\ UNCHANGED <<deployed, aside, active, staged, layout>>

CommitMigration ==
  /\ layout' = [layout EXCEPT !.marker = "committed"]
  /\ UNCHANGED <<deployed, aside, active, previous, staged>>

RemoveLegacyLinks ==
  /\ layout' = [layout EXCEPT !.current = NoId, !.before = NoId]
  /\ UNCHANGED <<deployed, aside, active, previous, staged>>

\* Duplicates of a deployment go, and the copies of killed commands.
CleanVersions ==
  /\ aside' = {id \in aside \cap LegacyIds : deployed[id].tree = None}
  /\ UNCHANGED <<deployed, active, previous, staged, layout>>
=============================================================================
