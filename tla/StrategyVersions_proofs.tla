----------------------- MODULE StrategyVersions_proofs -----------------------
(***************************************************************************)
(* Proofs about StrategyVersions, for any sets of requests and contents,   *)
(* any bound on the rows and any faults, and about the discovery queue     *)
(* that reads the versions meanwhile.  The strengthening of the versions'  *)
(* invariant is InFlight: what a request holds in its variables between    *)
(* two statements still describes rows of the table, because rows are      *)
(* appended and never rewritten but for their status.                      *)
(***************************************************************************)
EXTENDS MCStrategyVersions, DiscoveryQueue, SequenceTheorems, FiniteSetTheorems,
        WellFoundedInduction, TLAPS

Copying == {"get_active", "mark_rolled_back", "next_number", "insert_copy"}

\* What a request has read is still true of the table, or, for the number it
\* will insert, was the next number when it was read.
Holds(r) ==
    /\ req[r].at \in {"archive", "set_active"} \cup Copying => req[r].target \in DOMAIN versions
    /\ req[r].at \in Copying => req[r].content = versions[req[r].target].content
    /\ req[r].at = "mark_rolled_back" =>
          /\ req[r].current \in DOMAIN versions
          /\ versions[req[r].current].activated
    /\ req[r].at = "insert_draft" => req[r].content \in Contents
    /\ req[r].at \in {"insert_draft", "insert_copy"} => req[r].number \in 1 .. (Len(versions) + 1)

InFlight == \A r \in Requests : Holds(r)

IInv == TypeOK /\ NumbersFollowCreation /\ CopiesFaithful /\ AuditTrail /\ InFlight
-----------------------------------------------------------------------------
\* The highest number is the number of rows, so the next one is one more.
LEMMA NextNumber ==
    ASSUME TypeOK, NumbersFollowCreation
    PROVE  NextVersionNumber = Len(versions) + 1
<1>1. CASE versions = <<>>
  BY <1>1 DEF NextVersionNumber
<1>2. CASE versions # <<>>
  <2>1. Len(versions) \in Nat /\ Len(versions) > 0 /\ DOMAIN versions = 1 .. Len(versions)
    BY <1>2 DEF TypeOK
  <2>2. Numbers = 1 .. Len(versions)
    BY <2>1 DEF Numbers, NumbersFollowCreation
  <2>3. Max(Numbers) = Len(versions)
    BY <2>1, <2>2 DEF Max
  <2>. QED  BY <1>2, <2>3 DEF NextVersionNumber
<1>. QED  BY <1>1, <1>2

\* Of the numbers a request can hold only the next one is still free.
LEMMA FreeNumber ==
    ASSUME TypeOK, NumbersFollowCreation,
           NEW n \in 1 .. (Len(versions) + 1), NumberFree(n)
    PROVE  n = Len(versions) + 1
<1>1. DOMAIN versions = 1 .. Len(versions) /\ Len(versions) \in Nat
  BY DEF TypeOK
<1>2. Numbers = 1 .. Len(versions)
  BY <1>1 DEF Numbers, NumbersFollowCreation
<1>. QED  BY <1>1, <1>2 DEF NumberFree

\* A non-empty set of numbers up to n has a greatest member: the least
\* distance to n is attained.
LEMMA Greatest ==
    ASSUME NEW n \in Nat, NEW S \in SUBSET (1 .. n), S # {}
    PROVE  \E m \in S : \A w \in S : w <= m
<1>. DEFINE D == {n - v : v \in S}
<1>0. \A v \in S : v \in Nat /\ v <= n /\ n - v \in Nat
  OBVIOUS
<1>1. D \subseteq Nat /\ D # {}
  BY <1>0
<1>2. PICK d \in D : \A e \in D : ~(<<e, d>> \in OpToRel(<, Nat))
  BY <1>1, NatLessThanWellFounded, WFMin
<1>3. \A e \in D : ~(e < d)
  BY <1>1, <1>2 DEF OpToRel
<1>4. PICK m \in S : d = n - m
  OBVIOUS
<1>5. \A w \in S : ~(n - w < n - m)
  BY <1>3, <1>4
<1>6. \A w \in S : w <= m
  BY <1>0, <1>5
<1>. QED  BY <1>6

\* GetActive returns a row that is active, or 0.
LEMMA GetActiveIsActive ==
    ASSUME TypeOK, NumbersFollowCreation
    PROVE  GetActive \in ActiveVersions \cup {0}
<1>1. CASE ActiveVersions = {}
  BY <1>1 DEF GetActive
<1>2. CASE ActiveVersions # {}
  <2>1. ActiveVersions \in SUBSET (1 .. Len(versions)) /\ Len(versions) \in Nat
    BY DEF ActiveVersions, TypeOK
  <2>2. \A v \in ActiveVersions : versions[v].number = v
    BY DEF ActiveVersions, NumbersFollowCreation
  <2>3. \E m \in ActiveVersions : \A w \in ActiveVersions : w <= m
    BY <1>2, <2>1, Greatest
  <2>4. \E m \in ActiveVersions :
           \A w \in ActiveVersions : versions[w].number <= versions[m].number
    BY <2>2, <2>3
  <2>. QED  BY <1>2, <2>4 DEF GetActive
<1>. QED  BY <1>1, <1>2
-----------------------------------------------------------------------------
(* The two ways the table changes.                                         *)

\* An insert keeps the rows and appends one.
LEMMA InsertRow ==
    ASSUME TypeOK, NEW row \in Row, Insert(row)
    PROVE  /\ versions' \in Seq(Row)
           /\ DOMAIN versions = 1 .. Len(versions)
           /\ DOMAIN versions' = 1 .. (Len(versions) + 1)
           /\ Len(versions') = Len(versions) + 1
           /\ \A v \in DOMAIN versions : versions'[v] = versions[v]
           /\ versions'[Len(versions) + 1] = row
BY DEF TypeOK, Insert

\* The other statements keep the rows' number, content and parent, and never
\* clear a time stamp.
SameRows ==
    /\ versions' \in Seq(Row)
    /\ Len(versions') = Len(versions)
    /\ DOMAIN versions' = DOMAIN versions
    /\ \A v \in DOMAIN versions :
          /\ versions'[v].number = versions[v].number
          /\ versions'[v].content = versions[v].content
          /\ versions'[v].parent = versions[v].parent
          /\ versions[v].activated => versions'[v].activated

LEMMA UpdateRows ==
    ASSUME TypeOK,
           \/ versions' = ArchiveActive
           \/ \E v \in DOMAIN versions : versions' = SetActive(v) \/ versions' = SetRolledBack(v)
           \/ versions' = versions
    PROVE  SameRows
<1>1. CASE versions' = versions
  BY <1>1 DEF TypeOK, SameRows
<1>0. /\ versions \in [1 .. Len(versions) -> Row]
      /\ DOMAIN versions = 1 .. Len(versions)
      /\ Len(versions) \in Nat
  BY DEF TypeOK
<1>a. ASSUME NEW f, f \in [1 .. Len(versions) -> Row]
      PROVE  f \in Seq(Row) /\ Len(f) = Len(versions) /\ DOMAIN f = 1 .. Len(versions)
  BY <1>0, <1>a
<1>2. CASE versions' = ArchiveActive
  <2>1. \A v \in DOMAIN versions : ArchiveActive[v] \in Row
    BY <1>0 DEF ArchiveActive, Row, Statuses
  <2>2. ArchiveActive \in [1 .. Len(versions) -> Row]
    BY <1>0, <2>1 DEF ArchiveActive
  <2>3. \A v \in DOMAIN versions :
           /\ ArchiveActive[v].number = versions[v].number
           /\ ArchiveActive[v].content = versions[v].content
           /\ ArchiveActive[v].parent = versions[v].parent
           /\ ArchiveActive[v].activated = versions[v].activated
    BY <1>0 DEF ArchiveActive, Row
  <2>. QED  BY <1>0, <1>a, <1>2, <2>2, <2>3 DEF SameRows
<1>3. ASSUME NEW v \in DOMAIN versions, versions' = SetActive(v)
      PROVE  SameRows
  <2>1. SetActive(v) \in [1 .. Len(versions) -> Row]
    BY <1>0, ZenonT(60) DEF SetActive, Row, Statuses
  <2>2. \A w \in DOMAIN versions :
           /\ SetActive(v)[w].number = versions[w].number
           /\ SetActive(v)[w].content = versions[w].content
           /\ SetActive(v)[w].parent = versions[w].parent
           /\ versions[w].activated => SetActive(v)[w].activated
    BY <1>0 DEF SetActive, Row
  <2>. QED  BY <1>0, <1>a, <1>3, <2>1, <2>2 DEF SameRows
<1>4. ASSUME NEW v \in DOMAIN versions, versions' = SetRolledBack(v)
      PROVE  SameRows
  <2>1. SetRolledBack(v) \in [1 .. Len(versions) -> Row]
    BY <1>0, ZenonT(60) DEF SetRolledBack, Row, Statuses
  <2>2. \A w \in DOMAIN versions :
           /\ SetRolledBack(v)[w].number = versions[w].number
           /\ SetRolledBack(v)[w].content = versions[w].content
           /\ SetRolledBack(v)[w].parent = versions[w].parent
           /\ versions[w].activated => SetRolledBack(v)[w].activated
    BY <1>0 DEF SetRolledBack, Row
  <2>. QED  BY <1>0, <1>a, <1>4, <2>1, <2>2 DEF SameRows
<1>. QED  BY <1>1, <1>2, <1>3, <1>4

\* Rows that stay the same keep numbers and copies.
LEMMA SameRowsKeep ==
    ASSUME NumbersFollowCreation, CopiesFaithful, SameRows, TypeOK
    PROVE  NumbersFollowCreation' /\ CopiesFaithful'
BY DEF NumbersFollowCreation, CopiesFaithful, SameRows, TypeOK
-----------------------------------------------------------------------------
(* Each action preserves IInv.                                             *)

\* Steps that leave the table alone: only the request's own variables need
\* to be looked at.
LEMMA TableUnchanged ==
    ASSUME IInv, UNCHANGED versions, req' \in [Requests -> Local], InFlight'
    PROVE  IInv'
BY DEF IInv, TypeOK, NumbersFollowCreation, CopiesFaithful, AuditTrail

\* A request that is done holds nothing, and an appended row takes nothing
\* away from what the others hold.
LEMMA FinishedInFlight ==
    ASSUME IInv, NEW r \in Requests, Finish(r),
           \/ SameRows
           \/ \E row \in Row : Insert(row)
    PROVE  req' \in [Requests -> Local] /\ InFlight'
<1>1. req' \in [Requests -> Local] /\ req'[r].at = "idle"
  BY DEF IInv, TypeOK, Finish, Idle, Holding, Local, Steps
<1>2. \A q \in Requests : q # r => req'[q] = req[q]
  BY DEF IInv, TypeOK, Finish
<1>. DEFINE Kept == /\ Len(versions) \in Nat /\ Len(versions') \in Nat
                    /\ Len(versions) <= Len(versions')
                    /\ DOMAIN versions \subseteq DOMAIN versions'
                    /\ \A v \in DOMAIN versions :
                          /\ versions'[v].content = versions[v].content
                          /\ versions[v].activated => versions'[v].activated
<1>3. Kept
  <2>1. CASE SameRows
    BY <2>1 DEF SameRows, IInv, TypeOK
  <2>2. ASSUME NEW row \in Row, Insert(row)
        PROVE  Kept
    BY <2>2, InsertRow DEF IInv, TypeOK
  <2>. QED  BY <2>1, <2>2
<1>4. ASSUME NEW q \in Requests
      PROVE  Holds(q)'
  <2>1. CASE q = r
    BY <1>1, <2>1 DEF Holds, Copying
  <2>2. CASE q # r
    BY <1>2, <1>3, <2>2 DEF IInv, InFlight, Holds, Copying
  <2>. QED  BY <2>1, <2>2
<1>. QED  BY <1>1, <1>4 DEF InFlight

\* Inserting a row with a free number, a faithful copy of its parent and
\* consistent time stamps.
LEMMA InsertPreserves ==
    ASSUME IInv, NEW r \in Requests, Finish(r), NEW row \in Row, Insert(row),
           row.number = Len(versions) + 1,
           row.parent # 0 => /\ row.parent \in DOMAIN versions
                             /\ row.content = versions[row.parent].content,
           row.status = "draft" <=> ~row.activated,
           row.status # "rolled_back", ~row.rolledBack
    PROVE  IInv'
<1>1. TypeOK /\ TypeOK' /\ InFlight'
  BY InsertRow, FinishedInFlight DEF IInv, TypeOK
<1>2. /\ DOMAIN versions = 1 .. Len(versions) /\ Len(versions) \in Nat
      /\ DOMAIN versions' = 1 .. (Len(versions) + 1)
      /\ \A v \in DOMAIN versions : versions'[v] = versions[v]
      /\ versions'[Len(versions) + 1] = row
  BY <1>1, InsertRow DEF TypeOK
<1>3. NumbersFollowCreation'
  BY <1>2 DEF IInv, NumbersFollowCreation
<1>4. CopiesFaithful'
  <2>. SUFFICES ASSUME NEW v \in DOMAIN versions', versions'[v].parent # 0
                PROVE  /\ versions'[v].parent \in 1 .. (v - 1)
                       /\ versions'[v].content = versions'[versions'[v].parent].content
    BY DEF CopiesFaithful
  <2>1. CASE v = Len(versions) + 1
    BY <1>2, <2>1
  <2>2. CASE v \in DOMAIN versions
    <3>1. versions[v].parent \in 1 .. (v - 1)
      BY <1>2, <2>2 DEF IInv, CopiesFaithful
    <3>2. versions[v].parent \in DOMAIN versions
      BY <1>2, <2>2, <3>1
    <3>. QED  BY <1>2, <2>2, <3>1, <3>2 DEF IInv, CopiesFaithful
  <2>. QED  BY <1>2, <2>1, <2>2
<1>5. AuditTrail'
  BY <1>2 DEF IInv, AuditTrail
<1>. QED  BY <1>1, <1>3, <1>4, <1>5 DEF IInv

LEMMA InitIInv == Init => IInv
BY DEF Init, IInv, TypeOK, Local, Steps, Idle, Holding, NumbersFollowCreation, CopiesFaithful,
       AuditTrail, InFlight, Holds, Copying

LEMMA NextIInv == IInv /\ [Next]_vars => IInv'
<1>. SUFFICES ASSUME IInv, [Next]_vars PROVE IInv'
  OBVIOUS
<1>0. TypeOK /\ Len(versions) \in Nat /\ DOMAIN versions = 1 .. Len(versions)
  BY DEF IInv, TypeOK
<1>n. NextVersionNumber = Len(versions) + 1
  BY NextNumber DEF IInv
\* A step that only changes what one request holds.
<1>q. ASSUME NEW r \in Requests, NEW l \in Local, req' = [req EXCEPT ![r] = l],
             UNCHANGED versions, Holds(r)'
      PROVE  IInv'
  <2>1. req' \in [Requests -> Local] /\ \A q \in Requests : q # r => req'[q] = req[q]
    BY <1>0, <1>q DEF TypeOK
  <2>2. InFlight'
    BY <1>q, <2>1 DEF IInv, InFlight, Holds
  <2>. QED  BY <1>q, <2>1, <2>2, TableUnchanged
<1>1. ASSUME NEW r \in Requests, NEW c \in Contents, BeginGenerate(r, c)
      PROVE  IInv'
  <2>. DEFINE l == Holding("insert_draft", 0, NextVersionNumber, c)
  <2>1. l \in Local /\ req' = [req EXCEPT ![r] = l] /\ UNCHANGED versions
    BY <1>0, <1>1, <1>n DEF BeginGenerate, Holding, Local, Steps
  <2>2. Holds(r)'
    BY <1>0, <1>n, <2>1 DEF Holds, TypeOK, Holding, Copying
  <2>. QED  BY <1>q, <2>1, <2>2
<1>2. ASSUME NEW r \in Requests, InsertDraft(r)
      PROVE  IInv'
  <2>1. CASE NumberFree(req[r].number)
    <3>1. DraftRow(req[r]) \in Row /\ req[r].number = Len(versions) + 1
      BY <1>0, <1>2, <2>1, FreeNumber
         DEF IInv, TypeOK, InFlight, Holds, InsertDraft, DraftRow, Row, Statuses, Local
    <3>. QED  BY <1>2, <2>1, <3>1, InsertPreserves DEF InsertDraft, DraftRow
  <2>2. CASE ~NumberFree(req[r].number)
    BY <1>0, <1>2, <2>2, UpdateRows, FinishedInFlight, TableUnchanged DEF InsertDraft
  <2>. QED  BY <2>1, <2>2
<1>3. ASSUME NEW r \in Requests, NEW v \in DOMAIN versions, BeginActivate(r, v)
      PROVE  IInv'
  <2>. DEFINE l == Holding("archive", v, 0, NoContent)
  <2>1. l \in Local /\ req' = [req EXCEPT ![r] = l] /\ UNCHANGED versions
    BY <1>0, <1>3 DEF BeginActivate, Holding, Local, Steps
  <2>2. Holds(r)'
    BY <1>0, <2>1 DEF Holds, TypeOK, Holding, Copying
  <2>. QED  BY <1>q, <2>1, <2>2
<1>4. ASSUME NEW r \in Requests, ArchivePrevious(r)
      PROVE  IInv'
  <2>1. SameRows
    BY <1>0, <1>4, UpdateRows DEF ArchivePrevious
  <2>2. NumbersFollowCreation' /\ CopiesFaithful'
    BY <1>0, <2>1, SameRowsKeep DEF IInv
  <2>3. AuditTrail'
    <3>1. CASE versions' = ArchiveActive
      <4>1. \A v \in DOMAIN versions :
               /\ versions'[v].status = IF versions[v].status = "active" THEN "archived"
                                                                         ELSE versions[v].status
               /\ versions'[v].activated = versions[v].activated
               /\ versions'[v].rolledBack = versions[v].rolledBack
        BY <1>0, <3>1 DEF ArchiveActive, TypeOK, Row
      <4>. QED  BY <2>1, <4>1 DEF IInv, AuditTrail, SameRows
    <3>2. CASE versions' = versions
      BY <3>2 DEF IInv, AuditTrail
    <3>. QED  BY <1>4, <3>1, <3>2 DEF ArchivePrevious
  <2>4. /\ req' \in [Requests -> Local] /\ req'[r] = [req[r] EXCEPT !.at = "set_active"]
        /\ \A q \in Requests : q # r => req'[q] = req[q]
    BY <1>0, <1>4 DEF TypeOK, ArchivePrevious, Local, Steps
  <2>5. InFlight'
    BY <1>0, <1>4, <2>1, <2>4 DEF IInv, InFlight, Holds, SameRows, Copying, ArchivePrevious
  <2>. QED  BY <2>1, <2>2, <2>3, <2>4, <2>5 DEF IInv, TypeOK, SameRows
<1>5. ASSUME NEW r \in Requests, ActivateTarget(r)
      PROVE  IInv'
  <2>0. req[r].target \in DOMAIN versions
    BY <1>5 DEF IInv, InFlight, Holds, ActivateTarget
  <2>1. SameRows
    BY <1>0, <1>5, <2>0, UpdateRows DEF ActivateTarget
  <2>2. NumbersFollowCreation' /\ CopiesFaithful'
    BY <1>0, <2>1, SameRowsKeep DEF IInv
  <2>3. AuditTrail'
    BY <1>0, <1>5, <2>0 DEF IInv, AuditTrail, ActivateTarget, SetActive, TypeOK, Row
  <2>4. req' \in [Requests -> Local] /\ InFlight'
    BY <1>5, <2>1, FinishedInFlight DEF ActivateTarget
  <2>. QED  BY <2>1, <2>2, <2>3, <2>4 DEF IInv, TypeOK, SameRows
<1>6. ASSUME NEW r \in Requests, NEW v \in DOMAIN versions, BeginRollback(r, v)
      PROVE  IInv'
  <2>. DEFINE l == Holding("get_active", v, 0, versions[v].content)
  <2>0. versions[v] \in Row
    BY <1>0 DEF TypeOK
  <2>a. versions[v].content \in Contents
    BY <2>0 DEF Row
  <2>1. l \in Local /\ req' = [req EXCEPT ![r] = l] /\ UNCHANGED versions
    BY <1>0, <1>6, <2>a DEF BeginRollback, Holding, Local, Steps
  <2>2. Holds(r)'
    BY <1>0, <2>1 DEF Holds, TypeOK, Holding, Copying
  <2>. QED  BY <1>q, <2>1, <2>2
<1>7. ASSUME NEW r \in Requests, ReadCurrent(r)
      PROVE  IInv'
  <2>. DEFINE read == [req[r] EXCEPT !.current = GetActive,
                                     !.at = IF GetActive = 0 THEN "next_number"
                                                             ELSE "mark_rolled_back"]
              failed == [req[r] EXCEPT !.at = "next_number"]
  <2>1. GetActive \in ActiveVersions \cup {0} /\ ActiveVersions \subseteq 1 .. Len(versions)
    BY <1>0, GetActiveIsActive DEF IInv, ActiveVersions
  <2>2. GetActive # 0 => GetActive \in DOMAIN versions /\ versions[GetActive].activated
    BY <1>0, <2>1 DEF IInv, AuditTrail, ActiveVersions
  <2>3. CASE req' = [req EXCEPT ![r] = read]
    <3>0. GetActive \in Nat /\ req[r] \in Local
      BY <1>0, <2>1 DEF TypeOK
    <3>1. read \in Local
      BY <3>0 DEF Local, Steps
    <3>2. Holds(r)'
      BY <1>0, <1>7, <2>2, <2>3 DEF ReadCurrent, IInv, InFlight, Holds, TypeOK, Local, Copying
    <3>. QED  BY <1>7, <1>q, <2>3, <3>1, <3>2 DEF ReadCurrent
  <2>4. CASE req' = [req EXCEPT ![r] = failed]
    <3>1. failed \in Local
      BY <1>0 DEF TypeOK, Local, Steps
    <3>2. Holds(r)'
      BY <1>0, <1>7, <2>4 DEF ReadCurrent, IInv, InFlight, Holds, TypeOK, Local, Copying
    <3>. QED  BY <1>7, <1>q, <2>4, <3>1, <3>2 DEF ReadCurrent
  <2>5. req' = [req EXCEPT ![r] = read] \/ req' = [req EXCEPT ![r] = failed]
    BY <1>0, <1>7 DEF ReadCurrent, TypeOK, Local
  <2>. QED  BY <2>3, <2>4, <2>5
<1>8. ASSUME NEW r \in Requests, MarkRolledBack(r)
      PROVE  IInv'
  <2>0. req[r].current \in DOMAIN versions /\ versions[req[r].current].activated
    BY <1>8 DEF IInv, InFlight, Holds, MarkRolledBack
  <2>1. SameRows
    BY <1>0, <1>8, <2>0, UpdateRows DEF MarkRolledBack
  <2>2. NumbersFollowCreation' /\ CopiesFaithful'
    BY <1>0, <2>1, SameRowsKeep DEF IInv
  <2>3. AuditTrail'
    <3>1. CASE versions' = SetRolledBack(req[r].current)
      BY <1>0, <2>0, <3>1 DEF IInv, AuditTrail, SetRolledBack, TypeOK, Row
    <3>2. CASE versions' = versions
      BY <3>2 DEF IInv, AuditTrail
    <3>. QED  BY <1>8, <3>1, <3>2 DEF MarkRolledBack
  <2>4. /\ req' \in [Requests -> Local] /\ req'[r] = [req[r] EXCEPT !.at = "next_number"]
        /\ \A q \in Requests : q # r => req'[q] = req[q]
    BY <1>0, <1>8 DEF TypeOK, MarkRolledBack, Local, Steps
  <2>5. InFlight'
    BY <1>0, <1>8, <2>1, <2>4 DEF IInv, InFlight, Holds, SameRows, Copying, MarkRolledBack
  <2>. QED  BY <2>1, <2>2, <2>3, <2>4, <2>5 DEF IInv, TypeOK, SameRows
<1>9. ASSUME NEW r \in Requests, TakeNumber(r)
      PROVE  IInv'
  <2>. DEFINE l == [req[r] EXCEPT !.number = NextVersionNumber, !.at = "insert_copy"]
  <2>1. req' = [req EXCEPT ![r] = l] /\ l \in Local
    BY <1>0, <1>9, <1>n DEF TakeNumber, TypeOK, Local, Steps
  <2>2. Holds(r)'
    BY <1>0, <1>9, <1>n, <2>1 DEF TakeNumber, IInv, InFlight, Holds, TypeOK, Local, Copying
  <2>. QED  BY <1>9, <1>q, <2>1, <2>2 DEF TakeNumber
<1>10. ASSUME NEW r \in Requests, InsertCopy(r)
       PROVE  IInv'
  <2>0. /\ req[r].target \in DOMAIN versions
        /\ req[r].content = versions[req[r].target].content
        /\ req[r].number \in 1 .. (Len(versions) + 1)
    BY <1>10 DEF IInv, InFlight, Holds, InsertCopy, Copying
  <2>1. CASE NumberFree(req[r].number)
    <3>1. CopyRow(req[r]) \in Row /\ req[r].number = Len(versions) + 1
      <4>1. req[r].number = Len(versions) + 1
        BY <1>0, <2>0, <2>1, FreeNumber DEF IInv
      <4>0. versions[req[r].target] \in Row
        BY <1>0, <2>0 DEF TypeOK
      <4>2. req[r].content \in Contents /\ req[r].target \in Nat /\ req[r].number \in Nat \ {0}
        BY <1>0, <2>0, <4>0, <4>1 DEF Row
      <4>. QED  BY <4>1, <4>2 DEF CopyRow, Row, Statuses
    <3>. QED  BY <1>10, <2>0, <2>1, <3>1, InsertPreserves DEF InsertCopy, CopyRow
  <2>2. CASE ~NumberFree(req[r].number)
    BY <1>0, <1>10, <2>2, UpdateRows, FinishedInFlight, TableUnchanged DEF InsertCopy
  <2>. QED  BY <2>1, <2>2
<1>11. ASSUME NEW r \in Requests, Abort(r)
       PROVE  IInv'
  BY <1>0, <1>11, UpdateRows, FinishedInFlight, TableUnchanged DEF Abort
<1>12. CASE UNCHANGED vars
  BY <1>12 DEF vars, IInv, TypeOK, NumbersFollowCreation, CopiesFaithful, AuditTrail,
               InFlight, Holds
<1>13. ASSUME NEW r \in Requests, NEW v \in DOMAIN versions, RefuseActivate(r, v)
       PROVE  IInv'
  BY <1>12, <1>13 DEF RefuseActivate
<1>. QED
  BY <1>1, <1>2, <1>3, <1>4, <1>5, <1>6, <1>7, <1>8, <1>9, <1>10, <1>11, <1>12, <1>13
     DEF Next, Proceed
-----------------------------------------------------------------------------
\* IInv holds in every reachable state.
THEOREM Invariance == Spec => []IInv
<1>. QED  BY InitIInv, NextIInv, PTL DEF Spec

\* Every variable keeps its type.
THEOREM TypeCorrect == Spec => []TypeOK
<1>1. IInv => TypeOK
  BY DEF IInv
<1>. QED  BY <1>1, Invariance, PTL

\* Version numbers follow the order of creation without gap or repetition,
\* for any number of concurrent requests (NextVersionNumber, Create).
THEOREM NumbersAreOrdered == Spec => []NumbersFollowCreation
<1>1. IInv => NumbersFollowCreation
  BY DEF IInv
<1>. QED  BY <1>1, Invariance, PTL

\* A rolled-back-to version is a copy of an older one (RollbackToVersion).
THEOREM CopiesAreFaithful == Spec => []CopiesFaithful
<1>1. IInv => CopiesFaithful
  BY DEF IInv
<1>. QED  BY <1>1, Invariance, PTL

\* The time stamps tell which versions were active (SetStatus).
THEOREM AuditTrailHolds == Spec => []AuditTrail
<1>1. IInv => AuditTrail
  BY DEF IInv
<1>. QED  BY <1>1, Invariance, PTL

\* Wherever requests interleave and stop, the table tells its history
\* (strategy_version_repo.go:21-50, 119-153).
THEOREM HistoryHolds == Spec => []VersionHistory
<1>1. TypeOK /\ NumbersFollowCreation /\ CopiesFaithful /\ AuditTrail => VersionHistory
  BY DEF VersionHistory
<1>. QED  BY <1>1, TypeCorrect, NumbersAreOrdered, CopiesAreFaithful, AuditTrailHolds, PTL
-----------------------------------------------------------------------------
(* The table implements the journal.                                       *)

Journal == [v \in DOMAIN versions |-> SnapshotOf(versions[v])]

\* An insert appends the row's snapshot to the journal.
LEMMA InsertAppends ==
    ASSUME TypeOK, NEW row \in Row, Insert(row)
    PROVE  /\ Journal' = Append(Journal, SnapshotOf(row))
           /\ Len(Journal) = Len(versions)
<1>1. /\ DOMAIN versions = 1 .. Len(versions) /\ Len(versions) \in Nat
      /\ DOMAIN versions' = 1 .. (Len(versions) + 1)
      /\ \A v \in DOMAIN versions : versions'[v] = versions[v]
      /\ versions'[Len(versions) + 1] = row
  BY InsertRow DEF TypeOK
<1>. DEFINE S == {SnapshotOf(x) : x \in Row}
<1>2. \A v \in DOMAIN versions : versions[v] \in Row
  BY DEF TypeOK
<1>3. Journal \in [1 .. Len(versions) -> S]
  BY <1>1, <1>2 DEF Journal
<1>4. Journal \in Seq(S) /\ Len(Journal) = Len(versions) /\ SnapshotOf(row) \in S
  BY <1>1, <1>3
<1>. DEFINE A == Append(Journal, SnapshotOf(row))
<1>. HIDE DEF S
<1>5. /\ A \in Seq(S) /\ Len(A) = Len(versions) + 1
      /\ DOMAIN A = 1 .. (Len(versions) + 1)
      /\ \A v \in 1 .. Len(versions) : A[v] = Journal[v]
      /\ A[Len(versions) + 1] = SnapshotOf(row)
  BY <1>1, <1>4, AppendProperties
<1>. HIDE DEF A
<1>6. /\ DOMAIN Journal' = 1 .. (Len(versions) + 1)
      /\ \A v \in 1 .. Len(versions) : Journal'[v] = SnapshotOf(versions[v])
      /\ Journal'[Len(versions) + 1] = SnapshotOf(row)
  BY <1>1 DEF Journal
<1>7. \A v \in 1 .. Len(versions) : A[v] = SnapshotOf(versions[v])
  BY <1>1, <1>5 DEF Journal
<1>8. \A v \in DOMAIN A : A[v] = Journal'[v]
  BY <1>1, <1>5, <1>6, <1>7
<1>9. A = [v \in DOMAIN A |-> A[v]] /\ Journal' = [v \in DOMAIN Journal' |-> Journal'[v]]
  BY <1>5, <1>1 DEF Journal
<1>10. A = Journal'
  BY <1>5, <1>6, <1>8, <1>9
<1>. QED  BY <1>4, <1>10 DEF A

\* A statement that keeps the rows' numbers, contents and parents does not
\* show in the journal.
LEMMA SameJournal ==
    ASSUME SameRows
    PROVE  Journal' = Journal
BY DEF Journal, SameRows, SnapshotOf

\* StrategyVersions implements VersionJournal.
THEOREM Refinement == Spec => ImplementsJournal
<1>1. Init => J!JournalInit
  BY DEF Init, J!JournalInit
<1>2. IInv /\ [Next]_vars => [J!JournalNext]_Journal
  <2>. SUFFICES ASSUME IInv, [Next]_vars PROVE J!JournalNext \/ Journal' = Journal
    OBVIOUS
  <2>0. TypeOK /\ Len(versions) \in Nat /\ DOMAIN versions = 1 .. Len(versions)
    BY DEF IInv, TypeOK
  <2>1. CASE versions' = versions
    BY <2>1 DEF Journal
  <2>2. ASSUME NEW r \in Requests, InsertDraft(r), NumberFree(req[r].number)
        PROVE  J!JournalNext
    <3>1. /\ DraftRow(req[r]) \in Row /\ Insert(DraftRow(req[r]))
          /\ req[r].number = Len(versions) + 1 /\ req[r].content \in Contents
      BY <2>0, <2>2, FreeNumber
         DEF IInv, TypeOK, InFlight, Holds, InsertDraft, DraftRow, Row, Statuses, Local
    <3>2. SnapshotOf(DraftRow(req[r])) =
             [number |-> Len(versions) + 1, content |-> req[r].content, parent |-> 0]
      BY <3>1 DEF SnapshotOf, DraftRow
    <3>3. J!Record(req[r].content)
      BY <2>0, <3>1, <3>2, InsertAppends DEF J!Record, Journal
    <3>. QED  BY <3>1, <3>3 DEF J!JournalNext
  <2>3. ASSUME NEW r \in Requests, InsertCopy(r), NumberFree(req[r].number)
        PROVE  J!JournalNext
    <3>0. /\ req[r].target \in DOMAIN versions
          /\ req[r].content = versions[req[r].target].content
          /\ req[r].number \in 1 .. (Len(versions) + 1)
      BY <2>3 DEF IInv, InFlight, Holds, InsertCopy, Copying
    <3>1. req[r].number = Len(versions) + 1 /\ versions[req[r].target] \in Row
      BY <2>0, <2>3, <3>0, FreeNumber DEF IInv, TypeOK
    <3>2. req[r].content \in Contents /\ req[r].target \in Nat /\ req[r].number \in Nat \ {0}
      BY <2>0, <3>0, <3>1 DEF Row
    <3>3. CopyRow(req[r]) \in Row /\ Insert(CopyRow(req[r]))
      BY <2>3, <3>2 DEF InsertCopy, CopyRow, Row, Statuses
    <3>4. SnapshotOf(CopyRow(req[r])) =
             [number |-> Len(versions) + 1, content |-> Journal[req[r].target].content,
              parent |-> req[r].target]
      BY <3>0, <3>1 DEF SnapshotOf, CopyRow, Journal
    <3>5. J!RecordCopy(req[r].target)
      BY <2>0, <3>3, <3>4, InsertAppends DEF J!RecordCopy, Journal
    <3>. QED  BY <3>0, <3>5 DEF J!JournalNext
  <2>4. ASSUME NEW r \in Requests,
               ArchivePrevious(r) \/ ActivateTarget(r) \/ MarkRolledBack(r)
        PROVE  Journal' = Journal
    <3>1. ActivateTarget(r) => req[r].target \in DOMAIN versions
      BY DEF IInv, InFlight, Holds, ActivateTarget
    <3>2. MarkRolledBack(r) => req[r].current \in DOMAIN versions
      BY DEF IInv, InFlight, Holds, MarkRolledBack
    <3>3. \/ versions' = ArchiveActive
          \/ \E v \in DOMAIN versions : versions' = SetActive(v) \/ versions' = SetRolledBack(v)
          \/ versions' = versions
      BY <2>4, <3>1, <3>2 DEF ArchivePrevious, ActivateTarget, MarkRolledBack
    <3>. QED  BY <2>0, <3>3, UpdateRows, SameJournal
  <2>. QED
    BY <2>1, <2>2, <2>3, <2>4
       DEF Next, Proceed, BeginGenerate, BeginActivate, RefuseActivate, BeginRollback, ReadCurrent,
           TakeNumber, Abort, InsertDraft, InsertCopy, vars
<1>. QED  BY <1>1, <1>2, Invariance, PTL DEF Spec, ImplementsJournal, J!JournalSpec, Journal
-----------------------------------------------------------------------------
(* One request at a time.                                                  *)

\* Between the statements of the one request under way: nothing is active once
\* the previous versions are archived or rolled back, the target of an
\* activation is still the draft it was, and no other version was active than
\* the one a rollback has read.
Alone ==
    \A r \in Requests :
        /\ req[r].at \in {"archive", "set_active"} => versions[req[r].target].status = "draft"
        /\ req[r].at \in {"set_active", "next_number", "insert_copy"} => ActiveVersions = {}
        /\ req[r].at = "mark_rolled_back" => ActiveVersions \subseteq {req[r].current}

SerialInv == IInv /\ AtMostOneActive /\ Alone

LEMMA SerialInit == Init => SerialInv
BY InitIInv DEF Init, SerialInv, AtMostOneActive, ActiveVersions, Alone, Idle, Holding

\* What a table change does to the active versions.
LEMMA ActiveAfterInsert ==
    ASSUME TypeOK, NEW row \in Row, Insert(row)
    PROVE  /\ row.status # "active" => ActiveVersions' = ActiveVersions
           /\ ActiveVersions' \subseteq ActiveVersions \cup {Len(versions) + 1}
BY InsertRow DEF ActiveVersions

\* A version that is not active becomes active only from draft.
OnlyFromDraft ==
    \A v \in DOMAIN versions :
        (versions'[v].status = "active" /\ versions[v].status # "active")
            => versions[v].status = "draft"

SerialStep == AtMostOneActive' /\ Alone' /\ OnlyFromDraft

StepOf(r) ==
    \/ \E c \in Contents : BeginGenerate(r, c)
    \/ \E v \in DOMAIN versions :
          BeginActivate(r, v) \/ RefuseActivate(r, v) \/ BeginRollback(r, v)
    \/ Proceed(r)
    \/ Abort(r)

\* A step of a request leaves the other requests alone.
LEMMA OneMoves ==
    ASSUME TypeOK, NEW r \in Requests, StepOf(r)
    PROVE  \A q \in Requests \ {r} : req'[q] = req[q]
<1>1. req = [q \in Requests |-> req[q]]
  BY DEF TypeOK
<1>2. UNCHANGED req \/ \E l : req' = [req EXCEPT ![r] = l]
  BY <1>1 DEF StepOf, Proceed, BeginGenerate, BeginActivate, RefuseActivate, BeginRollback, InsertDraft,
              ArchivePrevious, ActivateTarget, ReadCurrent, MarkRolledBack, TakeNumber, InsertCopy, Abort,
              Finish, vars
<1>. QED  BY <1>1, <1>2

\* A step of the only request under way, whose errors are not dropped.
LEMMA SerialNext ==
    ASSUME NEW r0 \in Requests, \A q \in Requests \ {r0} : req[q].at = "idle",
           SerialInv, StepOf(r0), "ignored" \in Faults => ~ErrorDropped(r0)
    PROVE  SerialStep
<1>1. TypeOK /\ IInv
  BY DEF IInv, SerialInv
<1>2. /\ DOMAIN versions = 1 .. Len(versions) /\ Len(versions) \in Nat
      /\ req[r0] \in Local /\ DOMAIN req = Requests
      /\ \A v \in DOMAIN versions : versions[v] \in Row
      /\ \A q \in Requests : req[q] \in Local
  BY <1>1 DEF TypeOK
<1>o. \A q \in Requests \ {r0} : req'[q] = req[q] /\ req'[q].at = "idle"
  BY <1>1, OneMoves
<1>3. /\ AtMostOneActive
      /\ req[r0].at \in {"archive", "set_active"} =>
            /\ req[r0].target \in DOMAIN versions
            /\ versions[req[r0].target].status = "draft"
      /\ req[r0].at \in {"set_active", "next_number", "insert_copy"} => ActiveVersions = {}
      /\ req[r0].at = "mark_rolled_back" => ActiveVersions \subseteq {req[r0].current}
      /\ req[r0].at = "mark_rolled_back" => req[r0].current \in DOMAIN versions
  BY <1>1 DEF SerialInv, Alone, IInv, InFlight, Holds
\* Only what this request holds needs to be looked at.
<1>p. ASSUME /\ req'[r0].at \in {"archive", "set_active"} => versions'[req'[r0].target].status = "draft"
             /\ req'[r0].at \in {"set_active", "next_number", "insert_copy"} => ActiveVersions' = {}
             /\ req'[r0].at = "mark_rolled_back" => ActiveVersions' \subseteq {req'[r0].current}
      PROVE  Alone'
  BY <1>o, <1>p DEF Alone
\* Steps that leave the table alone.
<1>a. ASSUME UNCHANGED versions, Alone'
      PROVE  SerialStep
  BY <1>3, <1>a DEF SerialStep, AtMostOneActive, ActiveVersions, OnlyFromDraft
<1>b. ASSUME UNCHANGED versions, Finish(r0)
      PROVE  SerialStep
  BY <1>a, <1>b, <1>2 DEF Finish, Idle, Holding, Alone
\* Inserting a row, with the request done.
<1>c. ASSUME NEW row \in Row, Insert(row), Finish(r0),
             row.status = "active" => ActiveVersions = {}
      PROVE  SerialStep
  <2>1. Alone'
    BY <1>2, <1>c DEF Finish, Idle, Holding, Alone
  <2>2. OnlyFromDraft
    BY <1>1, <1>c, InsertRow DEF OnlyFromDraft
  <2>3. AtMostOneActive'
    BY <1>1, <1>3, <1>c, ActiveAfterInsert DEF AtMostOneActive
  <2>. QED  BY <2>1, <2>2, <2>3 DEF SerialStep
<1>4. ASSUME NEW c \in Contents, BeginGenerate(r0, c)
      PROVE  SerialStep
  BY <1>a, <1>2, <1>4 DEF BeginGenerate, Alone, Holding
<1>5. ASSUME InsertDraft(r0)
      PROVE  SerialStep
  <2>1. CASE NumberFree(req[r0].number)
    <3>1. DraftRow(req[r0]) \in Row
      BY <1>1, <1>2, <1>5, <2>1, FreeNumber
         DEF IInv, InFlight, Holds, InsertDraft, DraftRow, Row, Statuses, Local
    <3>. QED  BY <1>c, <1>5, <2>1, <3>1 DEF InsertDraft, DraftRow
  <2>. QED  BY <1>b, <1>5, <2>1 DEF InsertDraft
<1>6. ASSUME NEW v \in DOMAIN versions, BeginActivate(r0, v)
      PROVE  SerialStep
  <2>1. UNCHANGED versions /\ versions[v].status = "draft"
        /\ req' = [req EXCEPT ![r0] = Holding("archive", v, 0, NoContent)]
    BY <1>6 DEF BeginActivate, Activable
  <2>. QED  BY <1>a, <1>2, <2>1 DEF Alone, Holding
<1>7. ASSUME ArchivePrevious(r0)
      PROVE  SerialStep
  <2>1. versions' = ArchiveActive /\ req[r0].at = "archive"
        /\ req' = [req EXCEPT ![r0].at = "set_active"]
    <3>1. req[r0].at = "archive" /\ req' = [req EXCEPT ![r0].at = "set_active"]
      BY <1>7 DEF ArchivePrevious
    <3>2. ASSUME UNCHANGED versions, "ignored" \in Faults PROVE versions = ArchiveActive
      <4>1. req'[r0].at = "set_active"
        BY <1>2, <3>1 DEF Local
      <4>2. ActiveVersions = {}
        BY <3>1, <3>2, <4>1 DEF ErrorDropped
      <4>3. versions = [v \in DOMAIN versions |-> versions[v]]
        BY <1>1 DEF TypeOK
      <4>. QED  BY <4>2, <4>3 DEF ArchiveActive, ActiveVersions
    <3>. QED  BY <1>7, <3>1, <3>2 DEF ArchivePrevious
  <2>2. /\ DOMAIN versions' = DOMAIN versions
        /\ \A v \in DOMAIN versions :
              /\ versions'[v].status # "active"
              /\ versions[v].status = "draft" => versions'[v].status = "draft"
    BY <1>2, <2>1 DEF ArchiveActive, Row
  <2>3. ActiveVersions' = {}
    BY <2>2 DEF ActiveVersions
  <2>4. req'[r0].at = "set_active" /\ req'[r0].target = req[r0].target
    BY <1>2, <2>1 DEF Local
  <2>5. Alone'
    BY <1>3, <1>p, <2>1, <2>2, <2>3, <2>4
  <2>. QED  BY <2>2, <2>3, <2>5 DEF SerialStep, AtMostOneActive, OnlyFromDraft
<1>8. ASSUME ActivateTarget(r0)
      PROVE  SerialStep
  <2>. DEFINE t == req[r0].target
  <2>1. versions' = SetActive(t) /\ ActiveVersions = {} /\ t \in DOMAIN versions
        /\ versions[t].status = "draft" /\ Finish(r0)
    BY <1>3, <1>8 DEF ActivateTarget
  <2>2. /\ DOMAIN versions' = DOMAIN versions
        /\ \A v \in DOMAIN versions : v # t => versions'[v] = versions[v]
    BY <1>2, <2>1 DEF SetActive
  <2>3. ActiveVersions' \subseteq {t}
    BY <2>1, <2>2 DEF ActiveVersions
  <2>4. Alone'
    BY <1>2, <2>1 DEF Finish, Idle, Holding, Alone
  <2>. QED  BY <2>1, <2>2, <2>3, <2>4 DEF SerialStep, AtMostOneActive, OnlyFromDraft
<1>9. ASSUME NEW v \in DOMAIN versions, BeginRollback(r0, v)
      PROVE  SerialStep
  <2>1. UNCHANGED versions
        /\ req' = [req EXCEPT ![r0] = Holding("get_active", v, 0, versions[v].content)]
    BY <1>9 DEF BeginRollback
  <2>. QED  BY <1>a, <1>2, <2>1 DEF Alone, Holding
<1>10. ASSUME ReadCurrent(r0)
       PROVE  SerialStep
  <2>1. /\ UNCHANGED versions
        /\ GetActive = 0 => req'[r0].at = "next_number"
        /\ GetActive # 0 => req'[r0].at = "mark_rolled_back" /\ req'[r0].current = GetActive
    <3>1. UNCHANGED versions /\ req[r0].at = "get_active"
      BY <1>10 DEF ReadCurrent
    <3>2. CASE "ignored" \in Faults /\ req' = [req EXCEPT ![r0].at = "next_number"]
      <4>1. req'[r0].at = "next_number"
        BY <1>2, <3>2 DEF Local
      <4>2. GetActive = 0
        BY <3>1, <3>2, <4>1 DEF ErrorDropped
      <4>. QED  BY <3>1, <4>1, <4>2
    <3>3. CASE req' = [req EXCEPT ![r0].current = GetActive,
                                  ![r0].at = IF GetActive = 0 THEN "next_number" ELSE "mark_rolled_back"]
      BY <1>2, <3>1, <3>3 DEF Local
    <3>. QED  BY <1>10, <3>1, <3>2, <3>3 DEF ReadCurrent
  <2>2. GetActive \in ActiveVersions \cup {0}
    BY <1>1, GetActiveIsActive DEF IInv
  <2>3. CASE GetActive = 0
    <3>1. ActiveVersions = {}
      <4>1. ASSUME ActiveVersions # {} PROVE FALSE
        <5>1. \E v \in ActiveVersions :
                 \A w \in ActiveVersions : versions[w].number <= versions[v].number
          BY <1>1, <1>2, <1>3, <4>1 DEF AtMostOneActive, ActiveVersions, Row
        <5>2. GetActive \in ActiveVersions
          BY <4>1, <5>1, Zenon DEF GetActive
        <5>. QED  BY <1>2, <2>3, <5>2 DEF ActiveVersions
      <4>. QED  BY <4>1
    <3>2. ActiveVersions' = {} /\ req'[r0].at = "next_number"
      BY <2>1, <2>3, <3>1 DEF ActiveVersions
    <3>. QED  BY <1>a, <1>p, <2>1, <3>2
  <2>4. CASE GetActive # 0
    <3>1. ActiveVersions \subseteq {GetActive}
      BY <1>3, <2>2, <2>4 DEF AtMostOneActive
    <3>2. ActiveVersions' \subseteq {GetActive}
      BY <2>1, <3>1 DEF ActiveVersions
    <3>3. req'[r0].at = "mark_rolled_back" /\ req'[r0].current = GetActive
      BY <2>1, <2>4
    <3>. QED  BY <1>a, <1>p, <2>1, <3>2, <3>3
  <2>. QED  BY <2>3, <2>4
<1>11. ASSUME MarkRolledBack(r0)
       PROVE  SerialStep
  <2>. DEFINE c == req[r0].current
  <2>1. versions' = SetRolledBack(c) /\ ActiveVersions \subseteq {c} /\ c \in DOMAIN versions
        /\ req' = [req EXCEPT ![r0].at = "next_number"]
    <3>1. req[r0].at = "mark_rolled_back" /\ req' = [req EXCEPT ![r0].at = "next_number"]
      BY <1>11 DEF MarkRolledBack
    <3>2. req'[r0].at = "next_number"
      BY <1>2, <3>1 DEF Local
    <3>3. "ignored" \in Faults => versions' # versions
      BY <3>1, <3>2 DEF ErrorDropped
    <3>. QED  BY <1>3, <1>11, <3>1, <3>3 DEF MarkRolledBack
  <2>2. /\ DOMAIN versions' = DOMAIN versions
        /\ \A v \in DOMAIN versions : v # c => versions'[v] = versions[v]
        /\ versions'[c].status # "active"
    BY <1>2, <2>1 DEF SetRolledBack, Row
  <2>3. ActiveVersions' = {}
    BY <2>1, <2>2 DEF ActiveVersions
  <2>4. req'[r0].at = "next_number"
    BY <1>2, <2>1 DEF Local
  <2>5. Alone'
    BY <1>p, <2>3, <2>4
  <2>. QED  BY <2>1, <2>2, <2>3, <2>5 DEF SerialStep, AtMostOneActive, OnlyFromDraft
<1>12. ASSUME TakeNumber(r0)
       PROVE  SerialStep
  <2>1. UNCHANGED versions /\ req'[r0].at = "insert_copy" /\ ActiveVersions = {}
    BY <1>2, <1>3, <1>12 DEF TakeNumber, Local
  <2>2. ActiveVersions' = {}
    BY <2>1 DEF ActiveVersions
  <2>. QED  BY <1>a, <1>p, <2>1, <2>2
<1>13. ASSUME InsertCopy(r0)
       PROVE  SerialStep
  <2>1. CASE NumberFree(req[r0].number)
    <3>1. CopyRow(req[r0]) \in Row
      <4>1. /\ req[r0].target \in DOMAIN versions
            /\ req[r0].content = versions[req[r0].target].content
            /\ req[r0].number \in 1 .. (Len(versions) + 1)
        BY <1>1, <1>13 DEF IInv, InFlight, Holds, InsertCopy, Copying
      <4>2. req[r0].content \in Contents
        BY <1>2, <4>1 DEF Row
      <4>. QED  BY <1>2, <4>1, <4>2 DEF CopyRow, Row, Statuses
    <3>. QED  BY <1>c, <1>3, <1>13, <2>1, <3>1 DEF InsertCopy
  <2>. QED  BY <1>b, <1>13, <2>1 DEF InsertCopy
<1>14. ASSUME UNCHANGED vars
       PROVE  SerialStep
  BY <1>a, <1>14 DEF vars, SerialInv, Alone, ActiveVersions
<1>15. ASSUME Abort(r0)
       PROVE  SerialStep
  BY <1>b, <1>15 DEF Abort
<1>. QED
  BY <1>4, <1>5, <1>6, <1>7, <1>8, <1>9, <1>10, <1>11, <1>12, <1>13, <1>14, <1>15
     DEF StepOf, Proceed, RefuseActivate

\* Activating archives the previous active version, and a rollback replaces it:
\* where there is one request at a time and no error is dropped, two versions are
\* never active (ActivateVersion, RollbackToVersion).
LEMMA OneRequest ==
    ASSUME NEW r0, Requests = {r0}, "ignored" \notin Faults, SerialInv, [Next]_vars
    PROVE  SerialInv' /\ [OnlyFromDraft]_vars
<1>1. IInv'
  BY NextIInv DEF SerialInv
<1>2. CASE Next
  <2>1. StepOf(r0)
    BY <1>2 DEF Next, StepOf
  <2>. QED  BY <1>1, <2>1, SerialNext DEF SerialInv, SerialStep
<1>3. CASE UNCHANGED vars
  BY <1>1, <1>3 DEF SerialInv, vars, AtMostOneActive, ActiveVersions, Alone
<1>. QED  BY <1>2, <1>3

THEOREM OneActive ==
    ASSUME NEW r0, Requests = {r0}, "ignored" \notin Faults
    PROVE  Spec => []AtMostOneActive
<1>1. SerialInv /\ [Next]_vars => SerialInv'
  BY OneRequest
<1>2. SerialInv => AtMostOneActive
  BY DEF SerialInv
<1>. QED  BY <1>1, <1>2, SerialInit, PTL DEF Spec

\* In the same service a version becomes active only from draft, although the
\* check is made on a row read before (ActivateVersion).
THEOREM ActivatedFromDraft ==
    ASSUME NEW r0, Requests = {r0}, "ignored" \notin Faults
    PROVE  Spec => OnlyDraftsActivated
<1>1. SerialInv /\ [Next]_vars => SerialInv'
  BY OneRequest
<1>2. SerialInv /\ [Next]_vars => [OnlyFromDraft]_vars
  BY OneRequest
<1>. QED  BY <1>1, <1>2, SerialInit, PTL DEF Spec, OnlyDraftsActivated, OnlyFromDraft
-----------------------------------------------------------------------------
(* The histories of MCStrategyVersions: any requests, which may overlap,   *)
(* drop errors and be cut short; then the properties ask for less.         *)

\* What the active versions are for, unless the one request under way has just
\* archived or rolled back the old one.
Survival ==
    (/\ \E v \in DOMAIN versions : versions[v].activated
     /\ \A r \in Requests : req[r].at \notin {"set_active", "next_number", "insert_copy"})
        => \E v \in ActiveVersions : ActiveVersions = {v}

\* The premise of the serial properties: at most one request is under way.
Serially == \A q, r \in Requests : q # r => req[q].at = "idle" \/ req[r].at = "idle"

MCInv ==
    /\ IInv
    /\ ~disturbed => Serially /\ AtMostOneActive /\ Alone
    /\ ~disturbed /\ ~interrupted => Survival

LEMMA MCInitInv == MCInit => MCInv
<1>. SUFFICES ASSUME MCInit PROVE MCInv
  OBVIOUS
<1>1. Init /\ SerialInv /\ versions = <<>> /\ \A r \in Requests : req[r].at = "idle"
  BY SerialInit DEF MCInit, Init, Idle, Holding
<1>. QED  BY <1>1 DEF SerialInv, MCInv, Serially, Survival

\* A version is left active by whatever leaves the table alone, and by the last
\* statement of an activation or a rollback.
LEMMA SurvivalKept ==
    ASSUME SerialInv, NEW r \in Requests, \A q \in Requests \ {r} : req[q].at = "idle",
           StepOf(r), "ignored" \in Faults => ~ErrorDropped(r),
           ~CutShort(r), Completes(r) \/ Survival
    PROVE  Survival'
<1>. SUFFICES ASSUME \A q \in Requests : req'[q].at \notin {"set_active", "next_number", "insert_copy"},
                     \E v \in DOMAIN versions' : versions'[v].activated
              PROVE  \E v \in ActiveVersions' : ActiveVersions' = {v}
  BY DEF Survival
<1>0. /\ TypeOK /\ DOMAIN versions = 1 .. Len(versions) /\ Len(versions) \in Nat /\ req[r] \in Local
      /\ DOMAIN req = Requests
      /\ \A v \in DOMAIN versions : versions[v] \in Row
      /\ \A q \in Requests \ {r} : req'[q] = req[q]
  BY OneMoves DEF SerialInv, IInv, TypeOK
<1>1. CASE UNCHANGED versions
  <2>1. ~Completes(r) /\ ActiveVersions' = ActiveVersions
    BY <1>1 DEF Completes, ActiveVersions
  <2>2. req[r].at \notin {"set_active", "next_number", "insert_copy"}
    <3>. SUFFICES ASSUME req[r].at \in {"set_active", "next_number", "insert_copy"} PROVE FALSE
      OBVIOUS
    <3>1. ActivateTarget(r) \/ TakeNumber(r) \/ InsertCopy(r) \/ Abort(r)
      BY DEF StepOf, Proceed, BeginGenerate, BeginActivate, RefuseActivate, BeginRollback, InsertDraft,
             ArchivePrevious, ReadCurrent, MarkRolledBack
    <3>2. CASE ActivateTarget(r)
      <4>1. /\ versions' = SetActive(req[r].target) /\ req[r].target \in DOMAIN versions
            /\ versions[req[r].target].status = "draft"
        BY <3>2 DEF ActivateTarget, SerialInv, Alone, IInv, InFlight, Holds
      <4>2. versions'[req[r].target].status = "active"
        BY <1>0, <4>1 DEF SetActive, Row
      <4>. QED  BY <1>1, <4>1, <4>2
    <3>3. CASE TakeNumber(r)
      <4>1. req'[r].at = "insert_copy"
        BY <1>0, <3>3 DEF TakeNumber, Local
      <4>. QED  BY <4>1
    <3>4. CASE InsertCopy(r) \/ Abort(r)
      <4>1. req'[r].at = "idle"
        BY <1>0, <3>4 DEF InsertCopy, Abort, Finish, Idle, Holding
      <4>. QED  BY <1>1, <4>1 DEF CutShort
    <3>. QED  BY <3>1, <3>2, <3>3, <3>4
  <2>. QED  BY <1>1, <2>1, <2>2 DEF Survival
<1>2. CASE versions' # versions /\ InsertDraft(r)
  <2>1. /\ Insert(DraftRow(req[r])) /\ DraftRow(req[r]).status = "draft"
        /\ ~DraftRow(req[r]).activated /\ DraftRow(req[r]) \in Row
    BY <1>0, <1>2 DEF InsertDraft, DraftRow, SerialInv, IInv, InFlight, Holds, Row, Statuses, Local
  <2>2. ActiveVersions' = ActiveVersions
    BY <1>0, <2>1, ActiveAfterInsert
  <2>3. \E v \in DOMAIN versions : versions[v].activated
    BY <1>0, <2>1, InsertRow
  <2>4. req[r].at = "insert_draft" /\ ~Completes(r)
    BY <1>2 DEF InsertDraft, Completes
  <2>. QED  BY <2>2, <2>3, <2>4 DEF Survival
<1>3. CASE versions' # versions /\ InsertCopy(r)
  <2>1. Insert(CopyRow(req[r])) /\ ActiveVersions = {} /\ CopyRow(req[r]).status = "active"
    BY <1>3 DEF InsertCopy, CopyRow, SerialInv, Alone
  <2>2. versions' = Append(versions, CopyRow(req[r]))
    BY <2>1 DEF Insert
  <2>3. /\ DOMAIN versions' = 1 .. Len(versions) + 1 /\ versions'[Len(versions) + 1] = CopyRow(req[r])
        /\ \A v \in DOMAIN versions : versions'[v] = versions[v]
    BY <1>0, <2>2 DEF TypeOK
  <2>4. ActiveVersions' = {Len(versions) + 1}
    BY <1>0, <2>1, <2>3 DEF ActiveVersions
  <2>. QED  BY <2>4
<1>4. CASE ActivateTarget(r)
  <2>. DEFINE t == req[r].target
  <2>1. versions' = SetActive(t) /\ ActiveVersions = {} /\ t \in DOMAIN versions
    BY <1>4 DEF ActivateTarget, SerialInv, Alone, IInv, InFlight, Holds
  <2>2. /\ DOMAIN versions' = DOMAIN versions
        /\ versions'[t].status = "active"
        /\ \A v \in DOMAIN versions : v # t => versions'[v] = versions[v]
    BY <1>0, <2>1 DEF SetActive, Row
  <2>3. ActiveVersions' = {t}
    BY <2>1, <2>2 DEF ActiveVersions
  <2>. QED  BY <2>3
<1>5. CASE ArchivePrevious(r) \/ MarkRolledBack(r)
  <2>1. req'[r].at \in {"set_active", "next_number"}
    BY <1>0, <1>5 DEF ArchivePrevious, MarkRolledBack, Local
  <2>. QED  BY <2>1
<1>6. versions' # versions => InsertDraft(r) \/ InsertCopy(r) \/ ActivateTarget(r) \/ ArchivePrevious(r) \/ MarkRolledBack(r)
  BY DEF StepOf, Proceed, BeginGenerate, BeginActivate, RefuseActivate, BeginRollback, ReadCurrent,
         TakeNumber, Abort, vars
<1>. QED  BY <1>1, <1>2, <1>3, <1>4, <1>5, <1>6

\* As long as requests do not overlap, the one that takes a step is the only one.
LEMMA MCNextInv ==
    ASSUME MCInv, [MCNext]_mcVars
    PROVE  MCInv' /\ (~disturbed' => OnlyFromDraft)
<1>1. CASE UNCHANGED mcVars
  <2>1. UNCHANGED <<vars, disturbed, interrupted>>
    BY <1>1 DEF mcVars
  <2>2. IInv'
    BY <2>1, NextIInv DEF MCInv
  <2>. QED
    BY <2>1, <2>2 DEF MCInv, vars, Serially, AtMostOneActive, ActiveVersions, Alone, Survival, OnlyFromDraft
<1>2. CASE MCNext
  <2>1. IInv'
    BY <1>2, NextIInv DEF MCInv, MCNext
  <2>2. PICK r \in Requests : StepOf(r)
    BY <1>2 DEF MCNext, Next, StepOf
  <2>. SUFFICES ASSUME ~disturbed'
                PROVE  /\ Serially' /\ AtMostOneActive' /\ Alone' /\ OnlyFromDraft
                       /\ ~interrupted' => Survival'
    BY <2>1 DEF MCInv
  <2>3. ~disturbed /\ ~Overlapping' /\ \A q \in Requests : ~ErrorDropped(q)
    BY <1>2 DEF MCNext
  <2>4. SerialInv /\ Serially
    BY <2>3 DEF MCInv, SerialInv
  <2>5. TypeOK /\ \A q \in Requests \ {r} : req'[q] = req[q]
    BY <2>2, OneMoves DEF MCInv, IInv
  <2>6. Serially'
    BY <2>3 DEF Overlapping, Serially
  <2>7. CASE UNCHANGED vars
    <3>1. AtMostOneActive' /\ Alone' /\ OnlyFromDraft
      BY <2>4, <2>7 DEF vars, SerialInv, AtMostOneActive, ActiveVersions, Alone, OnlyFromDraft
    <3>2. ~interrupted' => ~interrupted
      BY <1>2, <2>3, <2>7 DEF MCNext, vars, Completes
    <3>3. ~interrupted' => Survival'
      BY <2>3, <2>7, <3>2 DEF MCInv, vars, Survival, ActiveVersions
    <3>. QED  BY <2>6, <3>1, <3>3
  <2>8. CASE \A q \in Requests \ {r} : req[q].at = "idle"
    <3>1. SerialStep
      BY <2>2, <2>3, <2>4, <2>8, SerialNext
    <3>2. ASSUME ~interrupted' PROVE Survival'
      <4>1. ~CutShort(r) /\ (interrupted => \E q \in Requests : Completes(q))
        BY <1>2, <3>2 DEF MCNext
      <4>2. \A q \in Requests \ {r} : ~Completes(q)
        BY <2>8 DEF Completes
      <4>3. Completes(r) \/ Survival
        BY <2>3, <4>1, <4>2 DEF MCInv
      <4>. QED  BY <2>2, <2>3, <2>4, <2>8, <4>1, <4>3, SurvivalKept
    <3>. QED  BY <2>6, <3>1, <3>2 DEF SerialStep
  <2>9. CASE ~UNCHANGED vars /\ \E q \in Requests \ {r} : req[q].at # "idle"
    <3>1. PICK q \in Requests \ {r} : req[q].at # "idle"
      BY <2>9
    <3>2. req[r].at = "idle" /\ req'[q].at # "idle"
      BY <2>4, <2>5, <3>1 DEF Serially
    <3>3. req'[r].at # "idle"
      BY <2>2, <2>5, <2>9, <3>2
         DEF TypeOK, StepOf, Proceed, BeginGenerate, BeginActivate, RefuseActivate, BeginRollback,
             InsertDraft, ArchivePrevious, ActivateTarget, ReadCurrent, MarkRolledBack, TakeNumber,
             InsertCopy, Abort, Holding
    <3>. QED  BY <2>6, <3>2, <3>3 DEF Serially
  <2>. QED  BY <2>7, <2>8, <2>9
<1>. QED  BY <1>1, <1>2

THEOREM MCInvariance == MCSpec => []MCInv
<1>1. MCInv /\ [MCNext]_mcVars => MCInv'
  BY MCNextInv
<1>. QED  BY <1>1, MCInitInv, PTL DEF MCSpec

\* Never two versions are active, for any requests that do not overlap, even if
\* they are cut short anywhere (strategy_service.go:69).
THEOREM SerialOneActiveHolds == MCSpec => []SerialOneActive
<1>1. MCInv => SerialOneActive
  BY DEF MCInv, SerialOneActive
<1>. QED  BY <1>1, MCInvariance, PTL

\* Only drafts become active, under the same premise (strategy_service.go:76).
THEOREM SerialDraftsOnlyHolds == MCSpec => SerialDraftsOnly
<1>1. MCInv /\ [MCNext]_mcVars => [~disturbed' => OnlyFromDraft]_mcVars
  BY MCNextInv
<1>. QED  BY <1>1, MCInvariance, PTL DEF MCSpec, SerialDraftsOnly, OnlyFromDraft

\* A tenant that had an active version has exactly one whenever no request is
\* under way, unless one was cut short and none was completed since: what an
\* interrupted activation or rollback leaves behind the next one repairs
\* (ActivateVersion, RollbackToVersion).
THEOREM ActiveVersionSurvives == MCSpec => []ActiveSurvives
<1>1. MCInv => ActiveSurvives
  BY DEF MCInv, Survival, ActiveSurvives
<1>. QED  BY <1>1, MCInvariance, PTL

-----------------------------------------------------------------------------
(* The discovery queue, for any strategies, offers, callers, cap and       *)
(* faults, while any number of requests activate and roll back versions.   *)
(* A run acts on what it read of a version: rows keep their content and    *)
(* stay activated (RowsKept), so it still holds when the suggestions are   *)
(* stored.  The cap holds because the day's count and the room of the only *)
(* run under way never exceed it together.                                 *)

QueueRow == [asin : Products, version : Nat, status : {"pending", "dismissed"}, today : BOOLEAN]
Run == [at : {"idle", "strategy", "search", "catalog", "store"}, room : Nat, version : Nat,
        todo : Seq(DOMAIN Offers), found : Seq(Products), row : Nat]

QueueTypeOK ==
    /\ queue \in Seq(QueueRow)
    /\ run \in [Callers -> Run]

\* A version that was put in force, and what its categories offer.
InForce(v) == v \in DOMAIN versions /\ versions[v].activated
CategoriesOf(v) == Categories[versions[v].content]
Offered(v) == UNION {ToSet(Offers[CategoriesOf(v)[n]]) : n \in DOMAIN CategoriesOf(v)}
Asked(v) == Offered(v) \cap Suits[versions[v].content]

\* What a run holds.  It works on a version that was put in force, its categories
\* and offers, has found nothing before its search, is at a row it has found, and
\* stores what fits its room.
Sound(l) ==
    /\ l.at \in {"idle", "strategy"} => l.found = <<>>
    /\ l.at # "catalog" => l.row = 0
    /\ l.at = "catalog" => l.row < Len(l.found)
    /\ l.at \in {"search", "catalog", "store"} =>
          /\ InForce(l.version)
          /\ ToSet(l.todo) \subseteq ToSet(CategoriesOf(l.version))
          /\ ToSet(l.found) \subseteq Offered(l.version)
          /\ l.at # "search" => ToSet(l.found) \subseteq Asked(l.version)
    /\ l.at = "store" => Len(l.found) <= l.room

RunsSound == \A c \in Callers : Sound(run[c])

QueueAsked ==
    \A i \in DOMAIN queue : InForce(queue[i].version) /\ queue[i].asin \in Asked(queue[i].version)

\* Without overlap and miscounts one run at most is under way, and the room it
\* found is still there.
RoomKept ==
    ~loose =>
        /\ CountToday <= Cap
        /\ \A c, d \in Callers : run[c].at # "idle" /\ run[d].at # "idle" => c = d
        /\ \A c \in Callers : run[c].at # "idle" => CountToday + run[c].room <= Cap

QueueInv == QueueTypeOK /\ RunsSound /\ QueueAsked /\ RoomKept /\ FreshAccountedFor
-----------------------------------------------------------------------------
(* The table of versions, as a run sees it.                                *)

\* A step of the strategy service leaves a row its content and its first time
\* stamp, and takes none away.
LEMMA RowsKept ==
    ASSUME IInv, [Next]_vars
    PROVE  \A v \in DOMAIN versions :
              /\ v \in DOMAIN versions'
              /\ versions'[v].content = versions[v].content
              /\ versions[v].activated => versions'[v].activated
<1>0. TypeOK /\ Len(versions) \in Nat /\ DOMAIN versions = 1 .. Len(versions)
  BY DEF IInv, TypeOK
<1>1. CASE versions' = versions
  BY <1>1
<1>2. ASSUME NEW r \in Requests, InsertDraft(r) \/ InsertCopy(r), versions' # versions
      PROVE  \E row : versions' = Append(versions, row)
  BY <1>2 DEF InsertDraft, InsertCopy, Insert
<1>3. ASSUME NEW row, versions' = Append(versions, row)
      PROVE  \A v \in DOMAIN versions : v \in DOMAIN versions' /\ versions'[v] = versions[v]
  BY <1>0, <1>3 DEF TypeOK
<1>4. ASSUME NEW r \in Requests, ArchivePrevious(r) \/ ActivateTarget(r) \/ MarkRolledBack(r)
      PROVE  SameRows
  <2>1. ActivateTarget(r) => req[r].target \in DOMAIN versions
    BY DEF IInv, InFlight, Holds, ActivateTarget
  <2>2. MarkRolledBack(r) => req[r].current \in DOMAIN versions
    BY DEF IInv, InFlight, Holds, MarkRolledBack
  <2>3. \/ versions' = ArchiveActive
        \/ \E v \in DOMAIN versions : versions' = SetActive(v) \/ versions' = SetRolledBack(v)
        \/ versions' = versions
    BY <1>4, <2>1, <2>2 DEF ArchivePrevious, ActivateTarget, MarkRolledBack
  <2>. QED  BY <1>0, <2>3, UpdateRows
<1>5. SameRows => \A v \in DOMAIN versions :
                     /\ v \in DOMAIN versions'
                     /\ versions'[v].content = versions[v].content
                     /\ versions[v].activated => versions'[v].activated
  BY DEF SameRows
<1>6. \/ versions' = versions
      \/ \E r \in Requests : InsertDraft(r) \/ InsertCopy(r)
      \/ \E r \in Requests : ArchivePrevious(r) \/ ActivateTarget(r) \/ MarkRolledBack(r)
  BY DEF Next, Proceed, BeginGenerate, BeginActivate, RefuseActivate, BeginRollback, ReadCurrent,
         TakeNumber, Abort, vars
<1>. QED  BY <1>1, <1>2, <1>3, <1>4, <1>5, <1>6

\* The strategy a run reads is a version that was put in force.
LEMMA DirectingInForce ==
    ASSUME IInv, Directing # 0
    PROVE  InForce(Directing) /\ versions[Directing].content \in Contents
<1>1. Directing \in ActiveVersions
  BY GetActiveIsActive DEF IInv, Directing
<1>2. Directing \in DOMAIN versions /\ versions[Directing].status = "active" /\ versions[Directing] \in Row
  BY <1>1 DEF ActiveVersions, IInv, TypeOK
<1>. QED  BY <1>2 DEF InForce, IInv, AuditTrail, Row
-----------------------------------------------------------------------------
(* Sequences.                                                              *)

\* Induction, for a set of numbers: the least number outside it does not exist.
LEMMA AllNumbers ==
    ASSUME NEW T, NEW n \in Nat, 0 \in T, \A k \in 0 .. n : k < n /\ k \in T => k + 1 \in T
    PROVE  \A k \in 0 .. n : k \in T
<1>. DEFINE D == {k \in 0 .. n : k \notin T}
<1>. SUFFICES ASSUME D # {} PROVE FALSE
  OBVIOUS
<1>1. PICK k \in D : \A j \in D : ~(<<j, k>> \in OpToRel(<, Nat))
  <2>1. D \subseteq Nat
    OBVIOUS
  <2>. QED  BY <2>1, NatLessThanWellFounded, WFMin
<1>2. k # 0 /\ k \in 1 .. n /\ k - 1 \in 0 .. n /\ k - 1 < n /\ k - 1 + 1 = k
  OBVIOUS
<1>3. k - 1 \notin D
  <2>1. k - 1 \in D => <<k - 1, k>> \in OpToRel(<, Nat)
    BY <1>2 DEF OpToRel
  <2>. QED  BY <1>1, <2>1
<1>. QED  BY <1>2, <1>3

\* What is selected comes from the sequence and is in the set.
LEMMA SelectedMembers ==
    ASSUME NEW S, NEW s \in Seq(S), NEW G
    PROVE  /\ Selected(s, G) \in Seq(S)
           /\ ToSet(Selected(s, G)) \subseteq ToSet(s) \cap G
<1>. DEFINE L == Len(s)
            One(f, n) == IF n = 0 THEN <<>>
                         ELSE IF s[n] \in G THEN Append(f[n - 1], s[n]) ELSE f[n - 1]
            Upto(k, f) == f \in [0 .. k -> Seq(S)] /\ \A n \in 0 .. k : f[n] = One(f, n)
            T == {k \in 0 .. L : \E f : Upto(k, f)}
<1>0. L \in Nat /\ \A n \in 1 .. L : s[n] \in S /\ s[n] \in ToSet(s)
  BY DEF ToSet
<1>1. 0 \in T
  <2>1. Upto(0, [n \in 0 .. 0 |-> <<>>])
    OBVIOUS
  <2>. HIDE DEF Upto
  <2>. QED  BY <1>0, <2>1
<1>2. ASSUME NEW k \in 0 .. L, k < L, k \in T
      PROVE  k + 1 \in T
  <2>1. PICK f : Upto(k, f)
    BY <1>2
  <2>. DEFINE g == [n \in 0 .. k + 1 |-> IF n <= k THEN f[n] ELSE One(f, k + 1)]
  <2>2. f[k] \in Seq(S) /\ s[k + 1] \in S /\ k \in Nat /\ k + 1 \in 0 .. L
    BY <1>0, <1>2, <2>1, SMTT(40)
  <2>3. One(f, k + 1) \in Seq(S)
    BY <2>2
  <2>4. g \in [0 .. k + 1 -> Seq(S)]
    BY <2>1, <2>2, <2>3
  <2>5. ASSUME NEW n \in 0 .. k + 1 PROVE g[n] = One(g, n)
    <3>1. CASE n <= k
      <4>1. n \in 0 .. k /\ g[n] = f[n] /\ (n # 0 => g[n - 1] = f[n - 1])
        BY <2>2, <3>1
      <4>2. f[n] = One(f, n)
        BY <2>1, <4>1
      <4>. QED  BY <4>1, <4>2
    <3>2. CASE n = k + 1
      <4>1. n # 0 /\ g[n] = One(f, n) /\ g[n - 1] = f[n - 1]
        BY <2>2, <3>2
      <4>. QED  BY <4>1
    <3>. QED  BY <2>2, <3>1, <3>2
  <2>6. Upto(k + 1, g)
    BY <2>4, <2>5
  <2>. HIDE DEF Upto
  <2>. QED  BY <2>2, <2>6
<1>3. L \in T
  <2>. HIDE DEF T, L
  <2>1. \A k \in 0 .. L : k \in T
    BY <1>0, <1>1, <1>2, AllNumbers
  <2>. QED  BY <1>0, <2>1
<1>4. PICK f : f = [n \in 0 .. L |-> One(f, n)]
  <2>1. PICK f : Upto(L, f)
    BY <1>0, <1>3
  <2>2. f = [n \in 0 .. L |-> One(f, n)]
    BY <2>1
  <2>. QED  BY <2>2
<1>. DEFINE chosen == CHOOSE f_ : f_ = [n \in 0 .. L |-> One(f_, n)]
<1>5. chosen = [n \in 0 .. L |-> One(chosen, n)]
  BY <1>4
<1>6. Selected(s, G) = chosen[L]
  BY Zenon DEF Selected
<1>. HIDE DEF chosen
<1>. DEFINE Good(q) == q \in Seq(S) /\ ToSet(q) \subseteq ToSet(s) \cap G
            R == {n \in 0 .. L : Good(chosen[n])}
<1>7. 0 \in R
  <2>1. chosen[0] = <<>>
    BY <1>0, <1>5
  <2>2. Good(<<>>)
    BY DEF ToSet
  <2>. HIDE DEF Good
  <2>. QED  BY <1>0, <2>1, <2>2
<1>8. ASSUME NEW n \in 0 .. L, n < L, n \in R
      PROVE  n + 1 \in R
  <2>1. chosen[n] \in Seq(S) /\ ToSet(chosen[n]) \subseteq ToSet(s) \cap G
    BY <1>8
  <2>2. n + 1 \in 1 .. L /\ s[n + 1] \in S /\ s[n + 1] \in ToSet(s)
    BY <1>0, <1>8
  <2>3. chosen[n + 1] = IF s[n + 1] \in G THEN Append(chosen[n], s[n + 1]) ELSE chosen[n]
    <3>1. chosen[n + 1] = One(chosen, n + 1)
      <4>. HIDE DEF One
      <4>. QED  BY <1>0, <1>5, <2>2
    <3>. QED  BY <2>2, <3>1
  <2>4. CASE s[n + 1] \notin G
    BY <2>1, <2>2, <2>3, <2>4
  <2>5. CASE s[n + 1] \in G
    <3>1. ToSet(Append(chosen[n], s[n + 1])) \subseteq ToSet(chosen[n]) \cup {s[n + 1]}
      BY <2>1 DEF ToSet
    <3>2. Good(chosen[n + 1])
      BY <2>1, <2>2, <2>3, <2>5, <3>1
    <3>. HIDE DEF Good
    <3>. QED  BY <2>2, <3>2
  <2>. QED  BY <2>4, <2>5
<1>9. L \in R
  <2>. HIDE DEF R, L
  <2>1. \A n \in 0 .. L : n \in R
    BY <1>0, <1>7, <1>8, AllNumbers
  <2>. QED  BY <1>0, <2>1
<1>. QED  BY <1>0, <1>6, <1>9
-----------------------------------------------------------------------------
(* What the steps have in common.                                          *)

\* A step of one run leaves the others alone.
LEMMA RunKept ==
    ASSUME QueueTypeOK, RunsSound, UNCHANGED versions,
           NEW c \in Callers, NEW l \in Run, Sound(l), run' = [run EXCEPT ![c] = l]
    PROVE  /\ run' \in [Callers -> Run]
           /\ RunsSound'
           /\ run'[c] = l /\ \A d \in Callers \ {c} : run'[d] = run[d]
<1>1. run' \in [Callers -> Run] /\ run'[c] = l /\ \A d \in Callers \ {c} : run'[d] = run[d]
  BY DEF QueueTypeOK
<1>2. ASSUME NEW d \in Callers PROVE Sound(run'[d])
  BY <1>1 DEF RunsSound
<1>3. ASSUME NEW d \in Callers PROVE Sound(run[d])'
  <2>1. Sound(run'[d])
    BY <1>2
  <2>2. versions' = versions
    OBVIOUS
  <2>3. /\ InForce(run[d].version)' <=> InForce(run'[d].version)
        /\ CategoriesOf(run[d].version)' = CategoriesOf(run'[d].version)
        /\ Offered(run[d].version)' = Offered(run'[d].version)
        /\ Asked(run[d].version)' = Asked(run'[d].version)
    BY <2>2 DEF InForce, CategoriesOf, Offered, Asked
  <2>. QED  BY <2>1, <2>3 DEF Sound
<1>4. RunsSound'
  BY <1>3 DEF RunsSound
<1>. QED  BY <1>1, <1>4

LEMMA RunsSame == ASSUME RunsSound, UNCHANGED <<versions, run>> PROVE RunsSound'
<1>1. ASSUME NEW d \in Callers PROVE Sound(run[d])'
  <2>1. Sound(run[d])
    BY DEF RunsSound
  <2>. QED  BY <2>1 DEF Sound, InForce, CategoriesOf, Offered, Asked
<1>. QED  BY <1>1 DEF RunsSound

\* The room of a run under way stays what it is.
LEMMA RoomSame ==
    ASSUME RoomKept, UNCHANGED <<queue, loose>>, NEW c \in Callers, run[c].at # "idle",
           run'[c].at # "idle" => run'[c].room = run[c].room,
           \A d \in Callers \ {c} : run'[d] = run[d]
    PROVE  RoomKept'
<1>1. CountToday' = CountToday
  BY DEF CountToday
<1>2. \A d \in Callers : run'[d].at # "idle" => run[d].at # "idle" /\ run'[d].room = run[d].room
  OBVIOUS
<1>. QED  BY <1>1, <1>2 DEF RoomKept

\* What a run awaits to suggest, by what it does next.
LEMMA AwaitingOf ==
    ASSUME NEW l
    PROVE  /\ l.at \notin {"catalog", "store"} => Awaiting(l) = {}
           /\ l.at = "store" => Awaiting(l) = ToSet(l.found)
           /\ l.at = "catalog" =>
                 \A p : p \in Awaiting(l) <=>
                           \E n \in DOMAIN l.found : n <= l.row /\ n <= l.room /\ p = l.found[n]
<1>1. l.at \notin {"catalog", "store"} => Awaiting(l) = {}
  BY DEF Awaiting, Awaits
<1>2. l.at = "store" => Awaiting(l) = ToSet(l.found)
  BY DEF Awaiting, Awaits, ToSet
<1>3. l.at = "catalog" =>
         \A p : p \in Awaiting(l) <=>
                   \E n \in DOMAIN l.found : n <= l.row /\ n <= l.room /\ p = l.found[n]
  BY Zenon DEF Awaiting, Awaits
<1>. QED  BY <1>1, <1>2, <1>3

\* A step of a run keeps the account of fresh products when what becomes fresh,
\* or is no longer kept, is awaited by the run, and what it no longer awaits is kept.
LEMMA FreshMoves ==
    ASSUME FreshAccountedFor, UNCHANGED queue, NEW c \in Callers,
           \A d \in Callers \ {c} : run'[d] = run[d],
           \A p \in fresh' \ kept' :
              \/ p \in Awaiting(run'[c])
              \/ p \in fresh \ kept /\ p \notin Awaiting(run[c])
    PROVE  FreshAccountedFor'
<1>. SUFFICES ASSUME NEW p \in fresh' \ kept'
              PROVE  \/ \E i \in DOMAIN queue : queue[i].asin = p
                     \/ \E d \in Callers : p \in Awaiting(run'[d])
  BY DEF FreshAccountedFor
<1>1. CASE p \in Awaiting(run'[c])
  BY <1>1
<1>2. CASE p \in fresh \ kept /\ p \notin Awaiting(run[c])
  <2>1. \/ \E i \in DOMAIN queue : queue[i].asin = p
        \/ \E d \in Callers \ {c} : p \in Awaiting(run[d])
    BY <1>2 DEF FreshAccountedFor
  <2>. QED  BY <2>1
<1>. QED  BY <1>1, <1>2

\* Only a run that writes or stores accounts for fresh products.
LEMMA FreshSame ==
    ASSUME FreshAccountedFor, UNCHANGED <<queue, fresh, kept>>, NEW c \in Callers,
           run[c].at \notin {"catalog", "store"},
           \A d \in Callers \ {c} : run'[d] = run[d]
    PROVE  FreshAccountedFor'
<1>1. Awaiting(run[c]) = {}
  BY AwaitingOf
<1>. QED  BY <1>1, FreshMoves

\* The suggestions stay, but for their status and day.
LEMMA AskedSame ==
    ASSUME QueueAsked, UNCHANGED versions, DOMAIN queue' = DOMAIN queue,
           \A i \in DOMAIN queue : queue'[i].version = queue[i].version /\ queue'[i].asin = queue[i].asin
    PROVE  QueueAsked'
BY ZenonT(60) DEF QueueAsked, InForce, Asked, Offered, CategoriesOf

\* Today's suggestions can be counted.
LEMMA Countable ==
    ASSUME QueueTypeOK
    PROVE  /\ CountToday \in Nat
           /\ IsFiniteSet({i \in DOMAIN queue : queue[i].today})
<1>. DEFINE Today == {i \in DOMAIN queue : queue[i].today}
<1>1. DOMAIN queue = 1 .. Len(queue) /\ Len(queue) \in Nat
  BY DEF QueueTypeOK
<1>2. IsFiniteSet(1 .. Len(queue)) /\ Today \in SUBSET (1 .. Len(queue))
  BY <1>1, FS_Interval
<1>3. IsFiniteSet(Today)
  BY <1>2, FS_Subset
<1>. QED  BY <1>3, FS_CardinalityType DEF CountToday

\* A run that has no room for one product more than it has found does not store one.
LEMMA CappedFits ==
    ASSUME NEW S, NEW found \in Seq(S), NEW room \in Nat
    PROVE  /\ Capped(found, room) \in Seq(S)
           /\ Len(Capped(found, room)) <= room
           /\ ToSet(Capped(found, room)) \subseteq ToSet(found)
           /\ \A n \in DOMAIN found : n <= room => found[n] \in ToSet(Capped(found, room))
<1>0. Len(found) \in Nat /\ DOMAIN found = 1 .. Len(found) /\ \A i \in 1 .. Len(found) : found[i] \in S
  OBVIOUS
<1>1. CASE Len(found) <= room
  <2>1. Capped(found, room) = found
    <3>1. ~(Len(found) > room)
      BY <1>0, <1>1
    <3>. QED  BY <3>1, Zenon DEF Capped
  <2>2. \A m \in DOMAIN found : found[m] \in ToSet(found)
    BY DEF ToSet
  <2>. QED  BY <1>1, <2>1, <2>2
<1>2. CASE Len(found) > room
  <2>. DEFINE head == SubSeq(found, 1, room)
  <2>1. /\ head \in Seq(S) /\ Len(head) = room /\ DOMAIN head = 1 .. room
        /\ \A i \in 1 .. room : head[i] = found[i] /\ i \in 1 .. Len(found)
    BY <1>0, <1>2
  <2>2. Capped(found, room) = head
    BY <1>2 DEF Capped
  <2>. HIDE DEF head
  <2>3. \A n \in DOMAIN found : n <= room => n \in 1 .. room
    BY <1>0
  <2>. QED  BY <1>0, <2>1, <2>2, <2>3 DEF ToSet
<1>. QED  BY <1>0, <1>1, <1>2
-----------------------------------------------------------------------------
(* The steps of a run.                                                     *)

\* Steps that neither store nor leave the queue.
LEMMA RunMoves ==
    ASSUME QueueInv, UNCHANGED <<versions, queue, loose, fresh, kept>>,
           NEW c \in Callers, run[c].at \notin {"idle", "catalog", "store"},
           NEW l \in Run, Sound(l), run' = [run EXCEPT ![c] = l], l.at # "idle" => l.room = run[c].room
    PROVE  QueueInv'
<1>1. /\ run' \in [Callers -> Run] /\ RunsSound'
      /\ run'[c] = l /\ \A d \in Callers \ {c} : run'[d] = run[d]
  BY RunKept DEF QueueInv
<1>2. QueueTypeOK'
  BY <1>1 DEF QueueInv, QueueTypeOK
<1>3. QueueAsked'
  BY AskedSame DEF QueueInv
<1>4. RoomKept'
  BY <1>1, RoomSame DEF QueueInv
<1>5. FreshAccountedFor'
  BY <1>1, FreshSame DEF QueueInv
<1>. QED  BY <1>1, <1>2, <1>3, <1>4, <1>5 DEF QueueInv

LEMMA IdleRun == NoRun \in Run /\ Sound(NoRun)
BY DEF NoRun, Run, Sound

LEMMA CountKept == ASSUME QueueInv, NEW c \in Callers, Count(c), UNCHANGED vars PROVE QueueInv'
<1>1. PICK n \in {CountToday, 0} :
         /\ n < Cap
         /\ run' = [run EXCEPT ![c].at = "strategy", ![c].room = Cap - n]
         /\ loose' = (loose \/ n # CountToday \/ \E d \in Callers : run[d].at # "idle")
  BY DEF Count
<1>2. UNCHANGED <<versions, queue, fresh, kept>> /\ run[c].at = "idle"
  BY DEF Count, vars
<1>. DEFINE l == [run[c] EXCEPT !.at = "strategy", !.room = Cap - n]
<1>3. CountToday \in Nat /\ Cap \in Nat
  BY Countable, QueueAssumption DEF QueueInv
<1>4. run[c] \in Run /\ run[c].found = <<>> /\ run[c].row = 0
  BY <1>2 DEF QueueInv, QueueTypeOK, RunsSound, Sound
<1>5. l \in Run /\ l.at = "strategy" /\ l.found = <<>> /\ l.room = Cap - n /\ l.row = 0
  <2>1. Cap - n \in Nat
    BY <1>1, <1>3
  <2>. QED  BY <1>4, <2>1 DEF Run
<1>6. Sound(l)
  BY <1>5 DEF Sound
<1>7. run' = [run EXCEPT ![c] = l]
  BY <1>1
<1>. HIDE DEF l
<1>8. /\ run' \in [Callers -> Run] /\ RunsSound'
      /\ run'[c] = l /\ \A d \in Callers \ {c} : run'[d] = run[d]
  BY <1>2, <1>5, <1>6, <1>7, RunKept DEF QueueInv
<1>9. QueueTypeOK' /\ QueueAsked' /\ FreshAccountedFor'
  BY <1>2, <1>8, AskedSame, FreshSame DEF QueueInv, QueueTypeOK
<1>10. RoomKept'
  <2>. SUFFICES ASSUME ~loose' PROVE RoomKept'
    BY DEF RoomKept
  <2>1. ~loose /\ n = CountToday /\ \A d \in Callers : run[d].at = "idle"
    BY <1>1
  <2>2. CountToday' = CountToday
    BY <1>2 DEF CountToday
  <2>3. \A d \in Callers : run'[d].at # "idle" => d = c
    BY <1>8, <2>1
  <2>. QED  BY <1>1, <1>3, <1>5, <1>8, <2>1, <2>2, <2>3 DEF RoomKept, QueueInv
<1>. QED  BY <1>8, <1>9, <1>10 DEF QueueInv

LEMMA ReadStrategyKept ==
    ASSUME QueueInv, IInv, NEW c \in Callers, ReadStrategy(c), UNCHANGED vars PROVE QueueInv'
<1>1. UNCHANGED <<versions, queue, loose, fresh, kept>> /\ run[c].at = "strategy" /\ run[c] \in Run
  BY DEF ReadStrategy, vars, QueueInv, QueueTypeOK
<1>2. CASE Leave(c)
  BY <1>1, <1>2, IdleRun, RunMoves DEF Leave, NoRun
<1>3. CASE ~Leave(c)
  <2>. DEFINE l == [run[c] EXCEPT !.at = "search", !.version = Directing,
                                  !.todo = Categories[versions[Directing].content]]
  <2>1. Directing # 0 /\ run' = [run EXCEPT ![c] = l]
    BY <1>3 DEF ReadStrategy
  <2>2. InForce(Directing) /\ versions[Directing].content \in Contents /\ run[c].found = <<>> /\ run[c].row = 0
    BY <1>1, <2>1, DirectingInForce DEF QueueInv, RunsSound, Sound
  <2>3. Directing \in Nat /\ CategoriesOf(Directing) \in Seq(DOMAIN Offers)
    BY <2>2, QueueAssumption DEF InForce, IInv, TypeOK, CategoriesOf
  <2>4. /\ l \in Run /\ l.at = "search" /\ l.version = Directing /\ l.found = <<>>
        /\ l.todo = CategoriesOf(Directing) /\ l.room = run[c].room /\ l.row = 0
    BY <1>1, <2>2, <2>3 DEF Run, CategoriesOf
  <2>. HIDE DEF l
  <2>5. Sound(l)
    BY <2>2, <2>4 DEF Sound, ToSet
  <2>. QED  BY <1>1, <2>1, <2>4, <2>5, RunMoves
<1>. QED  BY <1>2, <1>3

\* A search adds offers of the version's categories, or none.
LEMMA SearchKept == ASSUME QueueInv, IInv, NEW c \in Callers, Search(c), UNCHANGED vars PROVE QueueInv'
<1>. DEFINE todo == run[c].todo
            v == run[c].version
            answer == Offers[Head(todo)]
<1>1. /\ UNCHANGED <<versions, queue, loose, fresh, kept>> /\ run[c].at = "search" /\ run[c] \in Run
      /\ todo # <<>> /\ Sound(run[c])
  BY DEF Search, vars, QueueInv, QueueTypeOK, RunsSound
<1>2. /\ todo \in Seq(DOMAIN Offers) /\ Tail(todo) \in Seq(DOMAIN Offers)
      /\ ToSet(Tail(todo)) \subseteq ToSet(todo) /\ Head(todo) \in ToSet(todo) /\ Head(todo) \in DOMAIN Offers
  <2>1. todo \in Seq(DOMAIN Offers)
    BY <1>1 DEF Run
  <2>. HIDE DEF todo
  <2>2. /\ Len(todo) \in Nat \ {0} /\ DOMAIN todo = 1 .. Len(todo) /\ Head(todo) = todo[1]
        /\ Tail(todo) \in Seq(DOMAIN Offers) /\ DOMAIN Tail(todo) = 1 .. Len(todo) - 1
        /\ \A i \in 1 .. Len(todo) - 1 : Tail(todo)[i] = todo[i + 1]
    BY <1>1, <2>1
  <2>3. 1 \in DOMAIN todo /\ todo[1] \in DOMAIN Offers
    BY <2>1, <2>2
  <2>4. \A i \in 1 .. Len(todo) - 1 : i + 1 \in 1 .. Len(todo)
    BY <2>2
  <2>. QED  BY <2>1, <2>2, <2>3, <2>4 DEF ToSet
<1>3. answer \in Seq(Products) /\ ToSet(answer) \subseteq Offered(v)
  <2>1. Head(todo) \in ToSet(CategoriesOf(v))
    BY <1>1, <1>2 DEF Sound
  <2>2. PICK n \in DOMAIN CategoriesOf(v) : Head(todo) = CategoriesOf(v)[n]
    BY <2>1 DEF ToSet
  <2>. QED  BY <1>2, <2>2, QueueAssumption DEF Offered
<1>4. ASSUME NEW found \in Seq(Products), ToSet(found) \subseteq Offered(v),
             run' = [run EXCEPT ![c] = [run[c] EXCEPT !.todo = Tail(todo), !.found = found]]
      PROVE  QueueInv'
  <2>. DEFINE l == [run[c] EXCEPT !.todo = Tail(todo), !.found = found]
  <2>1. /\ l \in Run /\ l.at = "search" /\ l.version = v /\ l.found = found
        /\ l.todo = Tail(todo) /\ l.room = run[c].room /\ l.row = 0
    BY <1>1, <1>2 DEF Run, Sound
  <2>2. run' = [run EXCEPT ![c] = l]
    BY <1>4
  <2>. HIDE DEF l
  <2>3. Sound(l)
    BY <1>1, <1>2, <1>4, <2>1 DEF Sound
  <2>. QED  BY <1>1, <2>1, <2>2, <2>3, RunMoves
<1>5. run[c].found \in Seq(Products) /\ ToSet(run[c].found) \subseteq Offered(v)
  BY <1>1 DEF Run, Sound
<1>6. CASE run' = [run EXCEPT ![c].todo = Tail(@), ![c].found = @ \o answer]
  <2>1. /\ run[c].found \o answer \in Seq(Products)
        /\ ToSet(run[c].found \o answer) \subseteq ToSet(run[c].found) \cup ToSet(answer)
    <3>. HIDE DEF answer
    <3>. QED  BY <1>3, <1>5 DEF ToSet
  <2>2. run' = [run EXCEPT ![c] = [run[c] EXCEPT !.todo = Tail(todo), !.found = run[c].found \o answer]]
    BY <1>6
  <2>. HIDE DEF answer
  <2>. QED  BY <1>3, <1>4, <1>5, <2>1, <2>2
<1>7. CASE run' = [run EXCEPT ![c].todo = Tail(@)]
  <2>1. run' = [run EXCEPT ![c] = [run[c] EXCEPT !.todo = Tail(todo), !.found = run[c].found]]
    BY <1>1, <1>7 DEF Run
  <2>. QED  BY <1>4, <1>5, <2>1
<1>. QED  BY <1>6, <1>7 DEF Search

\* The funnel leaves products that suit the version's thresholds.
LEMMA FilterKept == ASSUME QueueInv, IInv, NEW c \in Callers, Filter(c), UNCHANGED vars PROVE QueueInv'
<1>. DEFINE v == run[c].version
<1>1. /\ UNCHANGED <<versions, queue, loose, fresh, kept>> /\ run[c].at = "search" /\ run[c] \in Run
      /\ Sound(run[c])
  BY DEF Filter, vars, QueueInv, QueueTypeOK, RunsSound
<1>2. PICK known : run' = [run EXCEPT ![c] = IF Survivors(c, known) = <<>> THEN NoRun
                                             ELSE [@ EXCEPT !.at = "catalog", !.found = Survivors(c, known)]]
  BY DEF Filter
<1>. DEFINE left == Survivors(c, known)
            l == [run[c] EXCEPT !.at = "catalog", !.found = left]
<1>3. left \in Seq(Products) /\ ToSet(left) \subseteq Asked(v)
  <2>1. run[c].found \in Seq(Products) /\ ToSet(run[c].found) \subseteq Offered(v)
    BY <1>1 DEF Run, Sound
  <2>2. left = Selected(run[c].found, Suits[versions[v].content] \ known)
    BY Zenon DEF Survivors
  <2>. HIDE DEF left
  <2>. QED  BY <2>1, <2>2, SelectedMembers DEF Asked
<1>. HIDE DEF left
<1>4. /\ l \in Run /\ l.at = "catalog" /\ l.version = v /\ l.found = left
      /\ l.todo = run[c].todo /\ l.room = run[c].room /\ l.row = 0
  BY <1>1, <1>3 DEF Run, Sound
<1>. HIDE DEF l
<1>5. CASE left = <<>>
  <2>1. run' = [run EXCEPT ![c] = NoRun]
    BY <1>2, <1>5 DEF left
  <2>. QED  BY <1>1, <2>1, IdleRun, RunMoves DEF NoRun
<1>6. CASE left # <<>>
  <2>1. run' = [run EXCEPT ![c] = l]
    BY <1>2, <1>6 DEF l, left
  <2>2. 0 < Len(left)
    BY <1>3, <1>6
  <2>3. Sound(l)
    BY <1>1, <1>3, <1>4, <2>2 DEF Sound, Asked
  <2>. QED  BY <1>1, <1>4, <2>1, <2>3, RunMoves
<1>. QED  BY <1>5, <1>6

\* A row that becomes fresh is about to be suggested, or beyond the cap.
LEMMA CatalogKept == ASSUME QueueInv, IInv, NEW c \in Callers, Catalog(c), UNCHANGED vars PROVE QueueInv'
<1>. DEFINE v == run[c].version
            found == run[c].found
            room == run[c].room
            n == run[c].row + 1
            chosen == Capped(found, room)
<1>1. /\ UNCHANGED <<versions, queue, loose>> /\ run[c].at = "catalog" /\ run[c] \in Run /\ Sound(run[c])
  BY DEF Catalog, vars, QueueInv, QueueTypeOK, RunsSound
<1>2. /\ found \in Seq(Products) /\ room \in Nat /\ run[c].row \in Nat
      /\ ToSet(found) \subseteq Asked(v) /\ run[c].row < Len(found)
  BY <1>1 DEF Run, Sound
<1>3. n \in DOMAIN found /\ n \in Nat /\ run[c].row < n
  <2>. HIDE DEF found
  <2>. QED  BY <1>2
<1>4. /\ chosen \in Seq(Products) /\ Len(chosen) <= room /\ ToSet(chosen) \subseteq ToSet(found)
      /\ \A m \in DOMAIN found : m <= room => found[m] \in ToSet(chosen)
  <2>. HIDE DEF found, room
  <2>. QED  BY <1>2, CappedFits
<1>5. PICK l \in {CutOff(run[c]), [run[c] EXCEPT !.row = n]} :
         /\ run' = [run EXCEPT ![c] = l]
         /\ l # CutOff(run[c]) => n # Len(found)
         /\ \/ UNCHANGED <<fresh, kept>>
            \/ /\ fresh' = fresh \cup {found[n]}
               /\ kept' = IF n > room THEN kept \cup {found[n]} ELSE kept \ {found[n]}
  BY DEF Catalog
<1>. HIDE DEF chosen
\* Either way the run awaits what it has written within its room.
<1>6. /\ l \in Run /\ Sound(l) /\ l.at # "idle" /\ l.room = room
      /\ Awaiting(run[c]) \subseteq Awaiting(l)
      /\ n <= room => found[n] \in Awaiting(l)
  <2>1. CASE l = CutOff(run[c])
    <3>1. /\ l \in Run /\ l.at = "store" /\ l.found = chosen /\ l.row = 0
          /\ l.version = v /\ l.todo = run[c].todo /\ l.room = room
      BY <1>1, <1>4, <2>1 DEF CutOff, Run, chosen
    <3>2. Sound(l)
      BY <1>1, <1>2, <1>4, <3>1 DEF Sound, Asked
    <3>3. Awaiting(l) = ToSet(chosen)
      BY <3>1, AwaitingOf
    <3>4. \A p \in Awaiting(run[c]) : \E m \in DOMAIN found : m <= room /\ p = found[m]
      BY <1>1, AwaitingOf
    <3>. QED  BY <1>3, <1>4, <3>1, <3>2, <3>3, <3>4
  <2>2. CASE l # CutOff(run[c])
    <3>1. /\ l = [run[c] EXCEPT !.row = n] /\ n # Len(found)
      BY <1>5, <2>2
    <3>2. /\ l \in Run /\ l.at = "catalog" /\ l.found = found /\ l.row = n
          /\ l.version = v /\ l.todo = run[c].todo /\ l.room = room
      BY <1>1, <1>3, <3>1 DEF Run
    <3>3. n < Len(found)
      <4>. HIDE DEF n, found
      <4>. QED  BY <1>2, <1>3, <3>1
    <3>4. Sound(l)
      BY <1>1, <1>2, <3>2, <3>3 DEF Sound, Asked
    <3>5. /\ \A p : p \in Awaiting(l) <=> \E m \in DOMAIN found : m <= n /\ m <= room /\ p = found[m]
          /\ \A p : p \in Awaiting(run[c]) <=>
                       \E m \in DOMAIN found : m <= run[c].row /\ m <= room /\ p = found[m]
      <4>1. \A p : p \in Awaiting(l) <=> \E m \in DOMAIN l.found : m <= l.row /\ m <= l.room /\ p = l.found[m]
        BY <3>2, AwaitingOf, Zenon
      <4>2. \A p : p \in Awaiting(run[c]) <=>
                      \E m \in DOMAIN run[c].found : m <= run[c].row /\ m <= run[c].room /\ p = run[c].found[m]
        BY <1>1, AwaitingOf, Zenon
      <4>3. \A p : p \in Awaiting(l) <=> \E m \in DOMAIN found : m <= n /\ m <= room /\ p = found[m]
        <5>. HIDE DEF n, found, room
        <5>. QED  BY <3>2, <4>1
      <4>. QED  BY <4>2, <4>3
    <3>6. \A m \in DOMAIN found : m <= run[c].row => m <= n
      <4>. HIDE DEF found
      <4>. QED  BY <1>2
    <3>7. n <= n
      BY <1>3
    <3>8. l.at # "idle"
      BY <3>2
    <3>. HIDE DEF n, found, room
    <3>9. Awaiting(run[c]) \subseteq Awaiting(l)
      <4>. SUFFICES ASSUME NEW p \in Awaiting(run[c]) PROVE p \in Awaiting(l)
        OBVIOUS
      <4>1. PICK m \in DOMAIN found : m <= run[c].row /\ m <= room /\ p = found[m]
        BY <3>5, Zenon
      <4>2. m <= n
        BY <3>6, <4>1, Zenon
      <4>. QED  BY <3>5, <4>1, <4>2, Zenon
    <3>10. n <= room => found[n] \in Awaiting(l)
      BY <1>3, <3>5, <3>7, Zenon
    <3>. QED  BY <3>2, <3>4, <3>8, <3>9, <3>10, Zenon
  <2>. QED  BY <2>1, <2>2
<1>. HIDE DEF n
<1>7. /\ run' \in [Callers -> Run] /\ RunsSound'
      /\ run'[c] = l /\ \A d \in Callers \ {c} : run'[d] = run[d]
  BY <1>1, <1>5, <1>6, RunKept DEF QueueInv
<1>8. QueueTypeOK' /\ QueueAsked' /\ RoomKept'
  BY <1>1, <1>6, <1>7, AskedSame, RoomSame DEF QueueInv, QueueTypeOK
<1>9. FreshAccountedFor'
  <2>1. ~(n > room) => n <= room
    BY <1>2, <1>3
  <2>2. ASSUME NEW p \in fresh' \ kept'
        PROVE  p \in Awaiting(l) \/ (p \in fresh \ kept /\ p \notin Awaiting(run[c]))
    BY <1>5, <1>6, <2>1, <2>2
  <2>. QED  BY <1>1, <1>7, <2>2, FreshMoves DEF QueueInv
<1>. QED  BY <1>7, <1>8, <1>9 DEF QueueInv

\* A run that is over, without a suggestion: what it awaited is kept.
LEMMA LeaveKept ==
    ASSUME QueueInv, NEW c \in Callers, run[c].at # "idle", Leave(c), UNCHANGED <<versions, queue, loose, fresh>>,
           kept' = kept \cup (Awaiting(run[c]) \cap fresh)
    PROVE  QueueInv'
<1>1. /\ run' \in [Callers -> Run] /\ RunsSound'
      /\ run'[c] = NoRun /\ \A d \in Callers \ {c} : run'[d] = run[d]
  BY IdleRun, RunKept DEF QueueInv, Leave
<1>2. QueueTypeOK' /\ QueueAsked' /\ RoomKept'
  BY <1>1, AskedSame, RoomSame DEF QueueInv, QueueTypeOK, NoRun
<1>3. FreshAccountedFor'
  <2>1. \A p \in fresh' \ kept' : p \in fresh \ kept /\ p \notin Awaiting(run[c])
    OBVIOUS
  <2>. QED  BY <1>1, <2>1, FreshMoves DEF QueueInv
<1>. QED  BY <1>1, <1>2, <1>3 DEF QueueInv

\* The survivors become suggestions: they fit the room, which was still there.
LEMMA StoreKept == ASSUME QueueInv, IInv, NEW c \in Callers, Store(c), UNCHANGED vars PROVE QueueInv'
<1>. DEFINE v == run[c].version
            found == run[c].found
            rows == [i \in DOMAIN found |-> Suggestion(found[i], v)]
<1>1. /\ UNCHANGED <<versions, loose, fresh>> /\ run[c].at = "store" /\ run[c] \in Run
      /\ Sound(run[c]) /\ Leave(c)
  BY DEF Store, vars, QueueInv, QueueTypeOK, RunsSound
<1>2. CASE UNCHANGED queue /\ kept' = kept \cup (Awaiting(run[c]) \cap fresh)
  BY <1>1, <1>2, LeaveKept
<1>3. CASE UNCHANGED kept /\ queue' = queue \o rows
  <2>1. /\ found \in Seq(Products) /\ Len(found) \in Nat /\ DOMAIN found = 1 .. Len(found)
        /\ \A i \in DOMAIN found : found[i] \in Products
        /\ v \in Nat /\ InForce(v) /\ ToSet(found) \subseteq Asked(v) /\ Len(found) <= run[c].room
    BY <1>1 DEF Run, Sound
  <2>2. /\ queue \in Seq(QueueRow) /\ Len(queue) \in Nat /\ DOMAIN queue = 1 .. Len(queue)
    BY DEF QueueInv, QueueTypeOK
  <2>. HIDE DEF found
  <2>3. rows \in Seq(QueueRow) /\ Len(rows) = Len(found)
    <3>1. \A i \in DOMAIN found : Suggestion(found[i], v) \in QueueRow
      BY <2>1 DEF Suggestion, QueueRow
    <3>2. rows \in [1 .. Len(found) -> QueueRow]
      BY <2>1, <3>1
    <3>. HIDE DEF rows
    <3>. QED  BY <2>1, <3>2
  <2>4. \A i \in 1 .. Len(found) : rows[i].asin = found[i] /\ rows[i].version = v /\ rows[i].today
    BY <2>1 DEF Suggestion
  <2>. HIDE DEF rows
  <2>5. /\ queue' \in Seq(QueueRow) /\ DOMAIN queue' = 1 .. Len(queue) + Len(found)
        /\ \A i \in 1 .. Len(queue) : queue'[i] = queue[i]
        /\ \A i \in 1 .. Len(found) : queue'[Len(queue) + i] = rows[i]
    <3>1. Len(rows) \in Nat /\ DOMAIN rows = 1 .. Len(rows)
      BY <2>3
    <3>2. \A i \in 1 .. Len(found) : Len(queue) + i \in 1 .. Len(queue) + Len(found) /\ Len(queue) + i > Len(queue)
      BY <2>1, <2>2
    <3>3. queue \o rows \in Seq(QueueRow) /\ Len(queue \o rows) = Len(queue) + Len(found)
      BY <2>2, <2>3
    <3>4. \A i \in 1 .. Len(queue) + Len(found) :
             (queue \o rows)[i] = IF i <= Len(queue) THEN queue[i] ELSE rows[i - Len(queue)]
      BY <2>2, <2>3
    <3>5. \A i \in 1 .. Len(queue) : i \in 1 .. Len(queue) + Len(found)
      BY <2>1, <2>2
    <3>. QED  BY <1>3, <2>1, <2>2, <3>2, <3>3, <3>4, <3>5
  <2>6. \A i \in DOMAIN queue' : i \in DOMAIN queue \/ \E k \in 1 .. Len(found) : i = Len(queue) + k
    <3>1. \A i \in DOMAIN queue' : i > Len(queue) => i - Len(queue) \in 1 .. Len(found)
                                                     /\ i = Len(queue) + (i - Len(queue))
      BY <2>1, <2>2, <2>5
    <3>. QED  BY <2>2, <2>5, <3>1
  <2>7. /\ run' \in [Callers -> Run] /\ RunsSound'
        /\ run'[c] = NoRun /\ \A d \in Callers \ {c} : run'[d] = run[d]
    BY <1>1, IdleRun, RunKept DEF QueueInv, Leave
  <2>8. QueueTypeOK'
    BY <2>5, <2>7 DEF QueueTypeOK
  <2>9. QueueAsked'
    <3>1. ASSUME NEW i \in DOMAIN queue' PROVE InForce(queue'[i].version) /\ queue'[i].asin \in Asked(queue'[i].version)
      <4>1. CASE i \in DOMAIN queue
        BY <2>2, <2>5, <4>1 DEF QueueInv, QueueAsked
      <4>2. CASE i \notin DOMAIN queue
        <5>1. PICK k \in 1 .. Len(found) : i = Len(queue) + k
          BY <2>6, <4>2
        <5>2. queue'[i].version = v /\ queue'[i].asin = found[k] /\ found[k] \in ToSet(found)
          BY <2>1, <2>4, <2>5, <5>1 DEF ToSet
        <5>. QED  BY <2>1, <5>2
      <4>. QED  BY <4>1, <4>2
    <3>2. ASSUME NEW i \in DOMAIN queue'
          PROVE  (InForce(queue[i].version) /\ queue[i].asin \in Asked(queue[i].version))'
      BY <1>1, <3>1 DEF InForce, Asked, Offered, CategoriesOf
    <3>. QED  BY <3>2 DEF QueueAsked
  <2>10. RoomKept'
    <3>. SUFFICES ASSUME ~loose' PROVE RoomKept'
      BY DEF RoomKept
    <3>1. CountToday + run[c].room <= Cap /\ \A d \in Callers \ {c} : run[d].at = "idle"
      BY <1>1 DEF QueueInv, RoomKept
    <3>2. CountToday' \in Nat /\ CountToday' <= CountToday + Len(found)
      <4>. DEFINE Old == {i \in DOMAIN queue : queue[i].today}
                  New == Len(queue) + 1 .. Len(queue) + Len(found)
                  Now == {i \in DOMAIN queue' : queue'[i].today}
      <4>1. IsFiniteSet(Old) /\ CountToday = Cardinality(Old) /\ CountToday \in Nat
        BY Countable DEF QueueInv, CountToday
      <4>2. IsFiniteSet(New) /\ Cardinality(New) = Len(found)
        <5>1. Len(queue) + 1 \in Int /\ Len(queue) + Len(found) \in Int
          BY <2>1, <2>2
        <5>2. /\ IsFiniteSet(New)
              /\ Cardinality(New) = IF Len(queue) + 1 > Len(queue) + Len(found) THEN 0
                                    ELSE Len(queue) + Len(found) - (Len(queue) + 1) + 1
          BY <5>1, FS_Interval
        <5>. HIDE DEF New
        <5>. QED  BY <2>1, <2>2, <5>2
      <4>3. Now \in SUBSET (Old \cup New)
        BY <2>1, <2>2, <2>5
      <4>. HIDE DEF Old, New, Now
      <4>4. /\ IsFiniteSet(Old \cup New) /\ IsFiniteSet(Old \cap New)
            /\ Cardinality(Old \cup New) = Cardinality(Old) + Cardinality(New) - Cardinality(Old \cap New)
        BY <4>1, <4>2, FS_Union, FS_Intersection
      <4>5. Cardinality(Old \cap New) \in Nat /\ Cardinality(Old \cup New) \in Nat
        BY <4>4, FS_CardinalityType
      <4>6. IsFiniteSet(Now) /\ Cardinality(Now) <= Cardinality(Old \cup New)
        BY <4>3, <4>4, FS_Subset
      <4>7. Cardinality(Now) \in Nat /\ CountToday' = Cardinality(Now)
        BY <4>6, FS_CardinalityType DEF CountToday, Now
      <4>. QED  BY <2>1, <4>1, <4>2, <4>4, <4>5, <4>6, <4>7
    <3>3. CountToday \in Nat /\ Cap \in Nat /\ run[c].room \in Nat
      BY <1>1, Countable, QueueAssumption DEF QueueInv, Run
    <3>4. CountToday' <= Cap
      BY <2>1, <3>1, <3>2, <3>3
    <3>. QED  BY <2>7, <3>1, <3>4 DEF RoomKept, NoRun
  <2>11. FreshAccountedFor'
    <3>. SUFFICES ASSUME NEW p \in fresh \ kept
                  PROVE  \/ \E i \in DOMAIN queue' : queue'[i].asin = p
                         \/ \E d \in Callers : p \in Awaiting(run'[d])
      BY <1>1, <1>3 DEF FreshAccountedFor
    <3>1. \/ \E i \in DOMAIN queue : queue[i].asin = p
          \/ \E d \in Callers : p \in Awaiting(run[d])
      BY DEF QueueInv, FreshAccountedFor
    <3>0. Awaiting(run[c]) = ToSet(found)
      BY <1>1, AwaitingOf DEF found
    <3>2. CASE \E i \in DOMAIN queue : queue[i].asin = p
      BY <2>1, <2>2, <2>5, <3>2
    <3>3. CASE p \in ToSet(found)
      <4>1. PICK k \in 1 .. Len(found) : p = found[k]
        BY <2>1, <3>3 DEF ToSet
      <4>2. Len(queue) + k \in DOMAIN queue' /\ queue'[Len(queue) + k].asin = p
        BY <2>1, <2>2, <2>4, <2>5, <4>1, SMTT(40)
      <4>. QED  BY <4>2
    <3>4. CASE \E d \in Callers \ {c} : p \in Awaiting(run[d])
      BY <2>7, <3>4
    <3>. QED  BY <3>0, <3>1, <3>2, <3>3, <3>4
  <2>. QED  BY <2>7, <2>8, <2>9, <2>10, <2>11 DEF QueueInv
<1>. QED  BY <1>2, <1>3 DEF Store
-----------------------------------------------------------------------------
(* The other steps.                                                        *)

LEMMA RunStepKept == ASSUME QueueInv, IInv, NEW c \in Callers, RunStep(c), UNCHANGED vars PROVE QueueInv'
<1>1. CASE CapReached(c)
  <2>1. UNCHANGED <<queueVars, vars>>
    BY <1>1 DEF CapReached
  <2>. QED  BY <2>1, RunsSame, AskedSame
            DEF queueVars, vars, QueueInv, QueueTypeOK, RoomKept, CountToday, FreshAccountedFor
<1>2. CASE Stop(c)
  BY <1>2, LeaveKept DEF Stop, vars
<1>. QED  BY <1>1, <1>2, CountKept, ReadStrategyKept, SearchKept, FilterKept, CatalogKept, StoreKept DEF RunStep

\* Suggestions are dismissed, and grow old: those of the day only become fewer.
LEMMA RowsChanged ==
    ASSUME QueueInv, UNCHANGED <<versions, fresh, run, loose, kept>>, queue' \in Seq(QueueRow),
           DOMAIN queue' = DOMAIN queue,
           \A i \in DOMAIN queue : /\ queue'[i].version = queue[i].version /\ queue'[i].asin = queue[i].asin
                                   /\ queue'[i].today => queue[i].today
    PROVE  QueueInv'
<1>1. QueueTypeOK' /\ QueueAsked' /\ FreshAccountedFor'
  BY AskedSame DEF QueueInv, QueueTypeOK, FreshAccountedFor
<1>2. RunsSound'
  BY RunsSame DEF QueueInv
<1>3. CountToday' \in Nat /\ CountToday' <= CountToday
  <2>. DEFINE Old == {i \in DOMAIN queue : queue[i].today}
              Now == {i \in DOMAIN queue' : queue'[i].today}
  <2>1. IsFiniteSet(Old) /\ CountToday = Cardinality(Old)
    BY Countable DEF QueueInv, CountToday
  <2>2. Now \in SUBSET Old
    OBVIOUS
  <2>. HIDE DEF Old, Now
  <2>3. IsFiniteSet(Now) /\ Cardinality(Now) <= Cardinality(Old)
    BY <2>1, <2>2, FS_Subset
  <2>. QED  BY <2>1, <2>3, FS_CardinalityType DEF CountToday, Now
<1>4. RoomKept'
  <2>1. CountToday \in Nat /\ Cap \in Nat /\ \A c \in Callers : run[c].room \in Nat
    BY Countable, QueueAssumption DEF QueueInv, QueueTypeOK, Run
  <2>. QED  BY <1>3, <2>1 DEF QueueInv, RoomKept
<1>. QED  BY <1>1, <1>2, <1>4 DEF QueueInv

LEMMA DismissKept == ASSUME QueueInv, NEW i \in DOMAIN queue, Dismiss(i), UNCHANGED vars PROVE QueueInv'
<1>1. queue \in Seq(QueueRow) /\ UNCHANGED versions
  BY DEF QueueInv, QueueTypeOK, vars
<1>2. /\ queue' \in Seq(QueueRow) /\ DOMAIN queue' = DOMAIN queue
      /\ \A k \in DOMAIN queue : /\ queue'[k].version = queue[k].version /\ queue'[k].asin = queue[k].asin
                                 /\ queue'[k].today = queue[k].today
  <2>1. [queue[i] EXCEPT !.status = "dismissed"] \in QueueRow
    <3>1. queue[i] \in QueueRow
      BY <1>1
    <3>. QED  BY <3>1 DEF QueueRow
  <2>2. queue' = [queue EXCEPT ![i] = [queue[i] EXCEPT !.status = "dismissed"]]
    BY DEF Dismiss
  <2>3. queue[i] \in QueueRow
    BY <1>1
  <2>. QED  BY <1>1, <2>1, <2>2, <2>3 DEF QueueRow
<1>. QED  BY <1>1, <1>2, RowsChanged DEF Dismiss

LEMMA MidnightKept == ASSUME QueueInv, Midnight, UNCHANGED vars PROVE QueueInv'
<1>1. queue \in Seq(QueueRow) /\ UNCHANGED versions /\ DOMAIN queue = 1 .. Len(queue) /\ Len(queue) \in Nat
  BY DEF QueueInv, QueueTypeOK, vars
<1>. DEFINE Old(k) == [queue[k] EXCEPT !.today = FALSE]
<1>2. \A k \in DOMAIN queue : /\ Old(k) \in QueueRow /\ Old(k).version = queue[k].version
                              /\ Old(k).asin = queue[k].asin /\ Old(k).today = FALSE
  <2>1. \A k \in DOMAIN queue : queue[k] \in QueueRow
    BY <1>1
  <2>. QED  BY <2>1 DEF QueueRow
<1>3. queue' = [k \in 1 .. Len(queue) |-> Old(k)]
  BY <1>1 DEF Midnight
<1>. HIDE DEF Old
<1>4. queue' \in Seq(QueueRow) /\ DOMAIN queue' = DOMAIN queue /\ \A k \in DOMAIN queue : queue'[k] = Old(k)
  <2>1. queue' \in [1 .. Len(queue) -> QueueRow]
    BY <1>1, <1>2, <1>3
  <2>. QED  BY <1>1, <1>3, <2>1
<1>. QED  BY <1>1, <1>2, <1>4, RowsChanged DEF Midnight

LEMMA ExpireKept == ASSUME QueueInv, NEW p, Expire(p), UNCHANGED vars PROVE QueueInv'
<1>1. UNCHANGED <<versions, queue, run, loose>> /\ fresh' \ kept' \subseteq fresh \ kept
  BY DEF Expire, vars
<1>2. FreshAccountedFor'
  BY <1>1 DEF QueueInv, FreshAccountedFor
<1>. QED
  BY <1>1, <1>2, RunsSame, AskedSame DEF QueueInv, QueueTypeOK, RoomKept, CountToday

\* What others make fresh is kept.
LEMMA ElsewhereKept == ASSUME QueueInv, NEW p, Elsewhere(p), UNCHANGED vars PROVE QueueInv'
<1>1. UNCHANGED <<versions, queue, run, loose>> /\ fresh' \ kept' \subseteq fresh \ kept
  BY DEF Elsewhere, vars
<1>2. FreshAccountedFor'
  BY <1>1 DEF QueueInv, FreshAccountedFor
<1>. QED
  BY <1>1, <1>2, RunsSame, AskedSame DEF QueueInv, QueueTypeOK, RoomKept, CountToday

\* Whatever the strategy service does meanwhile.
LEMMA StrategyKept == ASSUME QueueInv, IInv, [Next]_vars, UNCHANGED queueVars PROVE QueueInv'
<1>1. UNCHANGED <<queue, run, fresh, loose, kept>>
  BY DEF queueVars
<1>2. ASSUME NEW v, InForce(v)
      PROVE  /\ InForce(v)' /\ CategoriesOf(v)' = CategoriesOf(v)
             /\ Offered(v)' = Offered(v) /\ Asked(v)' = Asked(v)
  BY <1>2, RowsKept DEF InForce, CategoriesOf, Offered, Asked
<1>3. ASSUME NEW l, Sound(l)
      PROVE  Sound(l)'
  BY <1>2, <1>3 DEF Sound
<1>4. RunsSound'
  BY <1>1, <1>3 DEF QueueInv, RunsSound
<1>5. QueueAsked'
  BY <1>1, <1>2 DEF QueueInv, QueueAsked
<1>. QED  BY <1>1, <1>4, <1>5 DEF QueueInv, QueueTypeOK, RoomKept, CountToday, FreshAccountedFor

LEMMA QueueNextKept == ASSUME QueueInv, IInv, [QueueNext]_allVars PROVE QueueInv'
<1>1. CASE Next /\ UNCHANGED queueVars
  BY <1>1, StrategyKept
<1>2. CASE UNCHANGED allVars
  BY <1>2, StrategyKept DEF allVars
<1>3. CASE UNCHANGED vars /\ \E i \in DOMAIN queue : AcceptRefused(i)
  BY <1>3, StrategyKept DEF AcceptRefused
<1>. QED  BY <1>1, <1>2, <1>3, RunStepKept, DismissKept, MidnightKept, ExpireKept, ElsewhereKept DEF QueueNext

LEMMA QueueInitInv == QueueInit => QueueInv
<1>. SUFFICES ASSUME QueueInit PROVE QueueInv
  OBVIOUS
<1>1. queue = <<>> /\ fresh = {} /\ run = [c \in Callers |-> NoRun]
  BY DEF QueueInit
<1>2. QueueTypeOK /\ RunsSound
  BY <1>1, IdleRun DEF QueueTypeOK, RunsSound
<1>3. CountToday = 0
  <2>1. {i \in DOMAIN queue : queue[i].today} = {}
    BY <1>1
  <2>. QED  BY <2>1, FS_EmptySet DEF CountToday
<1>. QED  BY <1>1, <1>2, <1>3, QueueAssumption DEF QueueInv, QueueAsked, RoomKept, FreshAccountedFor, NoRun
-----------------------------------------------------------------------------
(* The theorems.                                                           *)

\* The versions behave as they do without a queue, so their invariant holds.
THEOREM QueueInvariance == QueueSpec => [](IInv /\ QueueInv)
<1>1. QueueInit => IInv /\ QueueInv
  BY InitIInv, QueueInitInv DEF QueueInit
<1>2. IInv /\ QueueInv /\ [QueueNext]_allVars => (IInv /\ QueueInv)'
  <2>1. [QueueNext]_allVars => [Next]_vars
    BY DEF QueueNext, allVars
  <2>. QED  BY <2>1, NextIInv, QueueNextKept
<1>. QED  BY <1>1, <1>2, PTL DEF QueueSpec

\* No day has more than the cap of suggestions, for any cap, callers and faults
\* (discovery_queue_service.go:45-54, 107-110).
THEOREM CapHolds == QueueSpec => []DailyCap
<1>1. QueueInv => DailyCap
  BY DEF QueueInv, RoomKept, DailyCap, CountToday
<1>. QED  BY <1>1, QueueInvariance, PTL

\* Every suggestion names a version that was put in force, and is a product that
\* this version asks for, however many requests change versions meanwhile
\* (discovery_queue_service.go:57-60, 70-98, 118).
THEOREM SuggestionsFollowStrategy == QueueSpec => []FromStrategy
<1>1. QueueInv => FromStrategy
  BY DEF QueueInv, QueueAsked, FromStrategy, InForce, Asked, Offered, CategoriesOf
<1>. QED  BY <1>1, QueueInvariance, PTL

\* What a discovery run made fresh was suggested, is about to be, or was kept out
\* for a known reason, whatever others write to the catalog (funnel_service.go:286-297,
\* discovered_product_repo.go:61-68, discovery_queue_service.go:112-144).
THEOREM FreshIsAccountedFor == QueueSpec => []FreshAccountedFor
<1>1. QueueInv => FreshAccountedFor
  BY DEF QueueInv
<1>. QED  BY <1>1, QueueInvariance, PTL

\* The strategy service keeps its history with the queue beside it: a composition
\* of the two does nothing to the table that StrategyVersions forbids.
THEOREM QueueLeavesVersions == QueueSpec => Spec
<1>1. QueueInit => Init
  BY DEF QueueInit
<1>2. [QueueNext]_allVars => [Next]_vars
  BY DEF QueueNext, allVars
<1>. QED  BY <1>1, <1>2, PTL DEF QueueSpec, Spec
=============================================================================
