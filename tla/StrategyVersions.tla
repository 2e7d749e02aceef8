-------------------------- MODULE StrategyVersions --------------------------
(***************************************************************************)
(* The versioned growth strategy of one tenant: StrategyService            *)
(* (internal/service/strategy_service.go) over the strategy_versions table *)
(* (internal/adapter/postgres/strategy_version_repo.go, migration 013).    *)
(*                                                                         *)
(* A request is an HTTP handler or the assessment workflow inside a        *)
(* service call.  No call opens a transaction, so each SQL statement is an *)
(* action of its own and requests interleave between any two statements.   *)
(* Every query is restricted to one tenant, which is why one tenant is     *)
(* enough.  A version's id is its place in the table: rows are only ever   *)
(* appended.  Goals, search parameters and scoring configuration travel    *)
(* together and are one value, the content.                                *)
(***************************************************************************)
EXTENDS Naturals, Sequences, FiniteSets, FiniteSetsExt

CONSTANTS
    Requests,      \* requests that can be in flight at the same time
    Contents,      \* contents the assessment can produce
    NoContent,     \* a request that has read no content yet
    Faults,        \* what may go wrong with a statement, see FaultsAssumption
    MaxVersions    \* bound: no new version is begun beyond this many rows

\* "abort": the request stops between two statements: the server dies, the
\* client goes away or a statement returns an error the service passes on.
\* "ignored": a statement whose error the service drops has no effect.
ASSUME FaultsAssumption == Faults \subseteq {"abort", "ignored"}
ASSUME MaxVersionsAssumption == MaxVersions \in Nat
ASSUME ContentsAssumption == NoContent \notin Contents

VARIABLES
    versions,      \* the rows of strategy_versions, oldest first
    req            \* what each request has done and holds in its variables

vars == <<versions, req>>

Statuses == {"draft", "active", "rolled_back", "archived"}

\* activated and rolledBack: activated_at and rolled_back_at are set.
Row == [number : Nat \ {0}, content : Contents, parent : Nat, status : Statuses,
        activated : BOOLEAN, rolledBack : BOOLEAN]

\* The statement a request executes next.
Steps == {"idle", "insert_draft",
          "archive", "set_active",
          "get_active", "mark_rolled_back", "next_number", "insert_copy"}

\* target: the version the request names; current: the version GetActive
\* returned (0 for none); content and number: what will be inserted.
Local == [at : Steps, target : Nat, current : Nat, number : Nat, content : Contents \cup {NoContent}]

Holding(at, target, number, content) ==
    [at |-> at, target |-> target, current |-> 0, number |-> number, content |-> content]

Idle == Holding("idle", 0, 0, NoContent)

TypeOK ==
    /\ versions \in Seq(Row)
    /\ req \in [Requests -> Local]

Init ==
    /\ versions = <<>>
    /\ req = [r \in Requests |-> Idle]

Numbers == {versions[v].number : v \in DOMAIN versions}
ActiveVersions == {v \in DOMAIN versions : versions[v].status = "active"}
-----------------------------------------------------------------------------
(* Variants of definitions below, each with one slip in it.  Nothing uses  *)
(* them: they are substituted to see that a property notices the slip.     *)

ActivableUnlessActive(v) == versions[v].status # "active"
SetRolledBackStamp(v) == [versions EXCEPT ![v].rolledBack = TRUE]
SetActiveNoStamp(v) == [versions EXCEPT ![v].status = "active"]
CopyRowOfCurrent(l) ==
    [number |-> l.number, content |-> l.content, parent |-> l.current, status |-> "active",
     activated |-> TRUE, rolledBack |-> FALSE]
CopyRowDraft(l) ==
    [number |-> l.number, content |-> l.content, parent |-> l.target, status |-> "draft",
     activated |-> FALSE, rolledBack |-> FALSE]
-----------------------------------------------------------------------------
(* The statements of the repository.                                       *)

\* SELECT COALESCE(MAX(version_number), 0) + 1.
NextVersionNumber == IF versions = <<>> THEN 1 ELSE Max(Numbers) + 1

\* UNIQUE(tenant_id, version_number): the insert of a taken number fails.
NumberFree(n) == n \notin Numbers

\* The active version with the highest number, 0 if there is none.
GetActive ==
    IF ActiveVersions = {} THEN 0
    ELSE CHOOSE v \in ActiveVersions :
           \A w \in ActiveVersions : versions[w].number <= versions[v].number

ArchiveActive ==
    [v \in DOMAIN versions |->
        IF versions[v].status = "active" THEN [versions[v] EXCEPT !.status = "archived"]
                                         ELSE versions[v]]

SetActive(v) == [versions EXCEPT ![v].status = "active", ![v].activated = TRUE]

SetRolledBack(v) == [versions EXCEPT ![v].status = "rolled_back", ![v].rolledBack = TRUE]

Insert(row) == versions' = Append(versions, row)

Finish(r) == req' = [req EXCEPT ![r] = Idle]
-----------------------------------------------------------------------------
(* GenerateInitialStrategy: number, then insert.                           *)

DraftRow(l) ==
    [number |-> l.number, content |-> l.content, parent |-> 0, status |-> "draft",
     activated |-> FALSE, rolledBack |-> FALSE]

BeginGenerate(r, c) ==
    /\ req[r].at = "idle"
    /\ Len(versions) < MaxVersions
    /\ req' = [req EXCEPT ![r] = Holding("insert_draft", 0, NextVersionNumber, c)]
    /\ UNCHANGED versions

InsertDraft(r) ==
    /\ req[r].at = "insert_draft"
    /\ IF NumberFree(req[r].number) THEN Insert(DraftRow(req[r])) ELSE UNCHANGED versions
    /\ Finish(r)
-----------------------------------------------------------------------------
(* ActivateVersion: check that the version is a draft, archive whatever is *)
(* active, set the version active.                                         *)

Activable(v) == versions[v].status = "draft"

BeginActivate(r, v) ==
    /\ req[r].at = "idle"
    /\ Activable(v)
    /\ req' = [req EXCEPT ![r] = Holding("archive", v, 0, NoContent)]
    /\ UNCHANGED versions

RefuseActivate(r, v) ==
    /\ req[r].at = "idle"
    /\ ~Activable(v)
    /\ UNCHANGED vars

\* The error of this statement is dropped.
ArchivePrevious(r) ==
    /\ req[r].at = "archive"
    /\ \/ versions' = ArchiveActive
       \/ "ignored" \in Faults /\ UNCHANGED versions
    /\ req' = [req EXCEPT ![r].at = "set_active"]

ActivateTarget(r) ==
    /\ req[r].at = "set_active"
    /\ versions' = SetActive(req[r].target)
    /\ Finish(r)
-----------------------------------------------------------------------------
(* RollbackToVersion: read the target, read the active version, mark it    *)
(* rolled back, take a number, insert a copy that is active at once.       *)

CopyRow(l) ==
    [number |-> l.number, content |-> l.content, parent |-> l.target, status |-> "active",
     activated |-> TRUE, rolledBack |-> FALSE]

BeginRollback(r, v) ==
    /\ req[r].at = "idle"
    /\ Len(versions) < MaxVersions
    /\ req' = [req EXCEPT ![r] = Holding("get_active", v, 0, versions[v].content)]
    /\ UNCHANGED versions

\* A read that fails counts as a tenant without an active version.
ReadCurrent(r) ==
    /\ req[r].at = "get_active"
    /\ \/ req' = [req EXCEPT ![r].current = GetActive,
                             ![r].at = IF GetActive = 0 THEN "next_number" ELSE "mark_rolled_back"]
       \/ "ignored" \in Faults /\ req' = [req EXCEPT ![r].at = "next_number"]
    /\ UNCHANGED versions

\* The row is updated whatever its status is by now; the error is dropped.
MarkRolledBack(r) ==
    /\ req[r].at = "mark_rolled_back"
    /\ \/ versions' = SetRolledBack(req[r].current)
       \/ "ignored" \in Faults /\ UNCHANGED versions
    /\ req' = [req EXCEPT ![r].at = "next_number"]

TakeNumber(r) ==
    /\ req[r].at = "next_number"
    /\ req' = [req EXCEPT ![r].number = NextVersionNumber, ![r].at = "insert_copy"]
    /\ UNCHANGED versions

InsertCopy(r) ==
    /\ req[r].at = "insert_copy"
    /\ IF NumberFree(req[r].number) THEN Insert(CopyRow(req[r])) ELSE UNCHANGED versions
    /\ Finish(r)
-----------------------------------------------------------------------------
Abort(r) ==
    /\ "abort" \in Faults
    /\ req[r].at # "idle"
    /\ Finish(r)
    /\ UNCHANGED versions

Proceed(r) ==
    \/ InsertDraft(r)
    \/ ArchivePrevious(r) \/ ActivateTarget(r)
    \/ ReadCurrent(r) \/ MarkRolledBack(r) \/ TakeNumber(r) \/ InsertCopy(r)

Next ==
    \E r \in Requests :
        \/ \E c \in Contents : BeginGenerate(r, c)
        \/ \E v \in DOMAIN versions :
              BeginActivate(r, v) \/ RefuseActivate(r, v) \/ BeginRollback(r, v)
        \/ Proceed(r)
        \/ Abort(r)

Spec == Init /\ [][Next]_vars
-----------------------------------------------------------------------------
(* Properties that hold however requests interleave and wherever they stop.*)

\* Version numbers are 1, 2, 3... in the order the rows were inserted, with no
\* gap and no repetition, although every number is read one statement before
\* it is used (NextVersionNumber, then Create).
NumbersFollowCreation == \A v \in DOMAIN versions : versions[v].number = v

\* A version that names a parent carries the content of that parent, which is
\* an older version (RollbackToVersion copies the target it read first, and no
\* statement rewrites the content of a row).
CopiesFaithful ==
    \A v \in DOMAIN versions :
        versions[v].parent # 0 =>
            /\ versions[v].parent \in 1 .. (v - 1)
            /\ versions[v].content = versions[versions[v].parent].content

\* The time stamps tell the history: exactly the versions that were never
\* active are drafts, and only a version that was active was rolled back
\* (activated_at and rolled_back_at in SetStatus and RollbackToVersion).
AuditTrail ==
    \A v \in DOMAIN versions :
        /\ versions[v].status = "draft" <=> ~versions[v].activated
        /\ versions[v].status = "rolled_back" => versions[v].rolledBack
        /\ versions[v].rolledBack => versions[v].activated

\* The table tells its history: it stays well formed, numbers follow creation, a
\* copy has its parent's content, and the time stamps say what was ever active,
\* wherever requests interleave, stop or go on after a failure.
VersionHistory == TypeOK /\ NumbersFollowCreation /\ CopiesFaithful /\ AuditTrail

\* Every history the table goes through is one the journal allows: numbers in
\* sequence, contents never rewritten, a rollback a copy of an older version.
SnapshotOf(row) == [number |-> row.number, content |-> row.content, parent |-> row.parent]
J == INSTANCE VersionJournal WITH
        journal <- [v \in DOMAIN versions |-> SnapshotOf(versions[v])]
ImplementsJournal == J!JournalSpec

(***************************************************************************)
(* Properties that hold as long as requests do not overlap and no          *)
(* statement's error is dropped.                                           *)
(***************************************************************************)

\* "Archives the previous active version" (strategy_service.go:69).
AtMostOneActive ==
    \A v, w \in ActiveVersions : v = w

\* "can only activate draft versions" (strategy_service.go:76): a version that
\* exists becomes active only from draft.
OnlyDraftsActivated ==
    [][\A v \in DOMAIN versions :
          (versions'[v].status = "active" /\ versions[v].status # "active")
              => versions[v].status = "draft"]_vars
=============================================================================
