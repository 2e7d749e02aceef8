----------------------- MODULE AssessmentRecords_proofs -----------------------
(***************************************************************************)
(* Proofs about an account assessment, for any number of runs, retries and *)
(* resets, any faults and any categories and limits: what it leaves in the *)
(* database (AssessmentRecords), and how far the scan of the step          *)
(* search-categories may go past its limits (AssessmentScan).              *)
(***************************************************************************)
EXTENDS MCAssessmentRecords, AssessmentScan, FiniteSetTheorems, TLAPS

Places == {"new", "trigger", "search", "totals", "probes", "categories", "answer",
           "fail", "failing", "complete", "completing", "strategy", "ended"}

Flow == [at : Places, tries : 0 .. Retries]

Drafts == [by : Runs, from : SUBSET Attempts]

Active(r) == flow[r].at \notin {"new", "ended"}

\* Where the totals of the run are stored, unless that failed.
Stored == {"probes", "categories", "answer", "complete", "completing", "strategy"}

\* Runs and resets come one after the other.
Alone ==
    Never({"overlap"}) =>
        /\ \A q, r \in Runs : Active(q) /\ Active(r) => q = r
        /\ reset.at # "idle" => \A r \in Runs : ~Active(r)

\* The totals are there from the moment they are stored until the reset, which
\* deletes them just before the profile.
Kept ==
    Never({"overlap", "not deleted", "no totals"}) =>
        /\ \A r \in Runs : flow[r].at \in Stored => fingerprint # None
        /\ profile = "completed" /\ reset.at # "profile" => fingerprint # None

\* Where a run has got decides what the tables hold.
RunClean(r) ==
    /\ Active(r) => profile # "absent"
    /\ flow[r].at \in {"trigger", "search", "totals"} => fingerprint = None /\ probes = {} /\ categories = {}
    /\ flow[r].at \in {"probes", "categories"} => fingerprint = Attempt(r)
    /\ flow[r].at \in Stored => fingerprint \in {None} \cup ({r} \X (0 .. Retries))

\* A run finds empty tables and fills them from one attempt; a reset empties
\* them in the order of its statements.
Clean ==
    /\ profile = "absent" => fingerprint = None /\ probes = {} /\ categories = {}
    /\ \A r \in Runs : RunClean(r)
    /\ probes \cup categories \subseteq {fingerprint}
    /\ reset.at \in {"categories", "fingerprint", "profile"} => probes = {}
    /\ reset.at \in {"fingerprint", "profile"} => categories = {}
    /\ reset.at = "profile" => fingerprint = None

Single == Never({"overlap", "again", "rescan", "not deleted"}) => Clean

\* A run that has drafted a strategy is over.
DraftsOnce ==
    Never({"overlap", "again", "rescan", "redraft", "not deleted"}) =>
        /\ \A i \in DOMAIN drafts : flow[drafts[i].by].at = "ended"
        /\ DraftsFromOneScan

RecordsInv == TypeOK /\ Alone /\ Kept /\ Single /\ DraftsOnce
-----------------------------------------------------------------------------
\* The tables are empty and nothing is asked for at first.
LEMMA InitRecordsInv == MCInit => RecordsInv
<1>. SUFFICES ASSUME MCInit PROVE RecordsInv
  OBVIOUS
<1>. USE DEF MCInit, Init
<1>1. TypeOK
  <2>1. flow \in [Runs -> Flow]
    BY RetriesAssumption DEF Flow, Places
  <2>2. reset \in [at : {"idle", "probes", "categories", "fingerprint", "profile"}, count : 0 .. MaxResets]
    BY ResetsAssumption
  <2>. QED  BY <2>1, <2>2 DEF TypeOK, Profiles, Flow, Places
<1>2. \A r \in Runs : flow[r].at = "new"
  OBVIOUS
<1>3. Alone
  BY <1>2 DEF Alone, Active
<1>4. Kept
  BY <1>2 DEF Kept, Stored
<1>5. Single
  BY <1>2 DEF Single, Clean, RunClean, Active, Stored
<1>6. DraftsOnce
  <2>1. DOMAIN drafts = {}
    OBVIOUS
  <2>. QED  BY <2>1 DEF DraftsOnce, DraftsFromOneScan
<1>. QED  BY <1>1, <1>3, <1>4, <1>5, <1>6 DEF RecordsInv

\* The places an attempt of a step may lead to.
LEMMA Shapes ==
    ASSUME NEW f \in Flow, NEW step \in Places, NEW next \in Places, NEW giveUp \in Places
    PROVE  /\ Advanced(f, next) \in Flow /\ Advanced(f, next).at = next
           /\ Retried(f, step, giveUp) \in Flow /\ Retried(f, step, giveUp).at \in {step, giveUp}
           /\ \A g \in Answered(f, step, next, giveUp) : g \in Flow /\ g.at \in {next, step, giveUp}
<1>1. f.tries \in 0 .. Retries /\ Retries \in Nat /\ 0 \in 0 .. Retries
  BY RetriesAssumption DEF Flow
<1>2. \A to \in Places : Advanced(f, to) \in Flow /\ Advanced(f, to).at = to
  BY <1>1 DEF Advanced, Flow
<1>3. CASE f.tries < Retries
  <2>. DEFINE n == f.tries + 1
              g == [f EXCEPT !.at = step, !.tries = n]
  <2>1. n \in 0 .. Retries
    BY <1>1, <1>3
  <2>2. Retried(f, step, giveUp) = g
    BY <1>3 DEF Retried
  <2>. HIDE DEF n
  <2>3. g \in Flow /\ g.at = step
    BY <2>1 DEF Flow
  <2>. HIDE DEF g
  <2>. QED  BY <1>2, <2>2, <2>3 DEF Answered
<1>4. CASE ~(f.tries < Retries)
  <2>1. Retried(f, step, giveUp) = Advanced(f, giveUp)
    BY <1>4 DEF Retried
  <2>. QED  BY <1>2, <2>1 DEF Answered
<1>. QED  BY <1>3, <1>4

\* Moves that touch no table: an answer that is lost, a step that fails, a read
\* and what follows it.
Quiet ==
    ({"trigger"} \X {"search", "ended"}) \cup ({"search"} \X {"totals", "fail"})
    \cup ({"totals"} \X {"answer", "search", "fail"}) \cup ({"probes", "categories"} \X {"search", "fail"})
    \cup ({"answer"} \X {"complete", "search", "fail"})
    \cup ({"fail"} \X {"failing", "ended"}) \cup ({"failing"} \X {"ended"})
    \cup ({"complete"} \X {"completing", "complete", "ended"}) \cup ({"completing"} \X {"complete", "ended"})
    \cup ({"strategy"} \X {"strategy", "ended"})

\* What a step of a run does to the tables, by the places it leaves and reaches.
Effect(r) ==
    LET from == flow[r].at
        to == flow'[r].at
    IN \/ /\ from = "new" /\ to = "trigger" /\ profile' = "running"
          /\ UNCHANGED <<fingerprint, probes, categories, drafts>>
       \/ <<from, to>> \in Quiet /\ UNCHANGED <<profile, fingerprint, probes, categories, drafts>>
       \/ /\ from = "totals" /\ to = "probes" /\ fingerprint' = Attempt(r) /\ flow'[r].tries = flow[r].tries
          /\ UNCHANGED <<profile, probes, categories, drafts>>
       \/ /\ from = "probes" /\ to = "categories" /\ flow'[r].tries = flow[r].tries
          /\ probes' \in {probes, probes \cup {Attempt(r)}}
          /\ UNCHANGED <<profile, fingerprint, categories, drafts>>
       \/ /\ from = "categories" /\ to = "answer"
          /\ categories' \in {categories, categories \cup {Attempt(r)}}
          /\ UNCHANGED <<profile, fingerprint, probes, drafts>>
       \/ /\ from = "failing" /\ to = "ended" /\ profile' = Marked("failed")
          /\ UNCHANGED <<fingerprint, probes, categories, drafts>>
       \/ /\ from = "completing" /\ to \in {"strategy", "complete", "ended"} /\ profile' = Marked("completed")
          /\ UNCHANGED <<fingerprint, probes, categories, drafts>>
       \/ /\ from = "strategy" /\ to \in {"strategy", "ended"} /\ fingerprint # None /\ drafts' = Drafted(r)
          /\ UNCHANGED <<profile, fingerprint, probes, categories>>

RunMove(r) ==
    /\ UNCHANGED reset
    /\ flow'[r] \in Flow /\ \A q \in Runs \ {r} : flow'[q] = flow[q]
    /\ flow' \in [Runs -> Flow]
    /\ Effect(r)

\* A run changes only itself, to one of its places.
LEMMA OneRun ==
    ASSUME TypeOK, NEW r \in Runs, NEW f \in Flow, flow' = [flow EXCEPT ![r] = f]
    PROVE  flow'[r] = f /\ flow' \in [Runs -> Flow] /\ \A q \in Runs \ {r} : flow'[q] = flow[q]
BY DEF TypeOK, Flow, Places

LEMMA MovesRun ==
    ASSUME TypeOK, NEW r \in Runs, NEW to \in Places, Moves(r, to)
    PROVE  /\ flow'[r].at = to /\ flow'[r].tries = flow[r].tries /\ flow'[r] \in Flow
           /\ flow' \in [Runs -> Flow] /\ \A q \in Runs \ {r} : flow'[q] = flow[q]
<1>. DEFINE f == [flow[r] EXCEPT !.at = to]
<1>1. flow' = [flow EXCEPT ![r] = f] /\ flow[r] \in Flow
  BY DEF Moves, TypeOK, Flow, Places
<1>2. f \in Flow /\ f.at = to /\ f.tries = flow[r].tries
  BY <1>1 DEF Flow
<1>. HIDE DEF f
<1>. QED  BY <1>1, <1>2, OneRun

LEMMA StartMoves ==
    ASSUME TypeOK, NEW r \in Runs, Start(r)
    PROVE  RunMove(r)
BY MovesRun DEF Start, RunMove, Effect, Places

LEMMA StepMoves ==
    ASSUME TypeOK, NEW r \in Runs, RunStep(r)
    PROVE  RunMove(r)
<1>0. flow[r] \in Flow
  BY DEF TypeOK, Flow, Places
<1>p. {"search", "fail", "complete", "strategy", "ended"} \subseteq Places
  BY DEF Places
<1>s. \A step, next, giveUp \in Places :
         /\ Advanced(flow[r], next) \in Flow /\ Advanced(flow[r], next).at = next
         /\ Retried(flow[r], step, giveUp) \in Flow /\ Retried(flow[r], step, giveUp).at \in {step, giveUp}
         /\ \A f \in Answered(flow[r], step, next, giveUp) : f \in Flow /\ f.at \in {next, step, giveUp}
  BY <1>0, Shapes
<1>. USE DEF RunMove, Effect
<1>1. CASE Trigger(r)
  BY <1>1, MovesRun DEF Trigger, Places, Quiet
<1>2. CASE Search(r)
  BY <1>2, MovesRun DEF Search, Places, Quiet
<1>3. CASE StoreTotals(r)
  BY <1>3, MovesRun DEF StoreTotals, AfterTotals, Places, Quiet
<1>4. CASE StoreProbes(r)
  BY <1>4, MovesRun DEF StoreProbes, Places, Quiet
<1>5. CASE StoreCategories(r)
  BY <1>5, MovesRun DEF StoreCategories, Places, Quiet
<1>6. CASE AnswerSearch(r)
  <2>1. PICK f \in Answered(flow[r], "search", "complete", "fail") : flow' = [flow EXCEPT ![r] = f]
    BY <1>6 DEF AnswerSearch, SearchGivenUp
  <2>2. f \in Flow /\ f.at \in {"complete", "search", "fail"}
    BY <1>p, <1>s
  <2>3. flow'[r] = f /\ flow' \in [Runs -> Flow] /\ \A q \in Runs \ {r} : flow'[q] = flow[q]
    BY <2>1, <2>2, OneRun
  <2>. QED  BY <1>6, <2>2, <2>3 DEF AnswerSearch, Quiet
<1>7. CASE Interrupt(r)
  <2>1. flow' = [flow EXCEPT ![r] = Retried(flow[r], "search", "fail")]
    BY <1>7 DEF Interrupt, SearchGivenUp
  <2>2. Retried(flow[r], "search", "fail") \in Flow /\ Retried(flow[r], "search", "fail").at \in {"search", "fail"}
    BY <1>p, <1>s
  <2>3. /\ flow'[r] = Retried(flow[r], "search", "fail")
        /\ flow' \in [Runs -> Flow] /\ \A q \in Runs \ {r} : flow'[q] = flow[q]
    BY <2>1, <2>2, OneRun
  <2>. QED  BY <1>7, <2>2, <2>3 DEF Interrupt, Quiet
<1>8. CASE ReadProfile(r, "fail", "failing") \/ ReadProfile(r, "complete", "completing")
  BY <1>8, MovesRun DEF ReadProfile, Places, Quiet
<1>9. CASE Fail(r) /\ ~ReadProfile(r, "fail", "failing")
  <2>1. /\ flow' = [flow EXCEPT ![r] = Advanced(flow[r], "ended")]
        /\ UNCHANGED <<fingerprint, probes, categories, reset, drafts>>
        /\ \/ flow[r].at \in {"fail", "failing"} /\ UNCHANGED profile
           \/ flow[r].at = "failing" /\ profile' = Marked("failed")
    BY <1>9 DEF Fail
  <2>2. Advanced(flow[r], "ended") \in Flow /\ Advanced(flow[r], "ended").at = "ended"
    BY <1>p, <1>s
  <2>3. /\ flow'[r] = Advanced(flow[r], "ended")
        /\ flow' \in [Runs -> Flow] /\ \A q \in Runs \ {r} : flow'[q] = flow[q]
    BY <2>1, <2>2, OneRun
  <2>. QED  BY <2>1, <2>2, <2>3 DEF Quiet
<1>10. CASE Complete(r) /\ ~ReadProfile(r, "complete", "completing")
  <2>1. CASE /\ flow[r].at \in {"complete", "completing"}
             /\ flow' = [flow EXCEPT ![r] = Retried(flow[r], "complete", "ended")]
             /\ UNCHANGED <<profile, fingerprint, probes, categories, reset, drafts>>
    <3>1. /\ Retried(flow[r], "complete", "ended") \in Flow
          /\ Retried(flow[r], "complete", "ended").at \in {"complete", "ended"}
      BY <1>p, <1>s
    <3>2. /\ flow'[r] = Retried(flow[r], "complete", "ended")
          /\ flow' \in [Runs -> Flow] /\ \A q \in Runs \ {r} : flow'[q] = flow[q]
      BY <2>1, <3>1, OneRun
    <3>. QED  BY <2>1, <3>1, <3>2 DEF Quiet
  <2>2. CASE /\ flow[r].at = "completing"
             /\ profile' = Marked("completed")
             /\ \E f \in Answered(flow[r], "complete", "strategy", "ended") : flow' = [flow EXCEPT ![r] = f]
             /\ UNCHANGED <<fingerprint, probes, categories, reset, drafts>>
    <3>1. PICK f \in Answered(flow[r], "complete", "strategy", "ended") : flow' = [flow EXCEPT ![r] = f]
      BY <2>2
    <3>2. f \in Flow /\ f.at \in {"strategy", "complete", "ended"}
      BY <1>p, <1>s
    <3>3. flow'[r] = f /\ flow' \in [Runs -> Flow] /\ \A q \in Runs \ {r} : flow'[q] = flow[q]
      BY <3>1, <3>2, OneRun
    <3>. QED  BY <2>2, <3>2, <3>3
  <2>. QED  BY <1>10, <2>1, <2>2 DEF Complete
<1>11. CASE BuildStrategy(r)
  <2>1. PICK f \in {Advanced(flow[r], "ended"), Retried(flow[r], "strategy", "ended")}
                   \cup Answered(flow[r], "strategy", "ended", "ended") :
           /\ flow' = [flow EXCEPT ![r] = f]
           /\ UNCHANGED drafts \/ (fingerprint # None /\ drafts' = Drafted(r))
    BY <1>11 DEF BuildStrategy
  <2>2. f \in Flow /\ f.at \in {"strategy", "ended"}
    BY <1>p, <1>s
  <2>3. flow'[r] = f /\ flow' \in [Runs -> Flow] /\ \A q \in Runs \ {r} : flow'[q] = flow[q]
    BY <2>1, <2>2, OneRun
  <2>4. flow[r].at = "strategy" /\ UNCHANGED <<profile, fingerprint, probes, categories, reset>>
    BY <1>11 DEF BuildStrategy
  <2>. QED  BY <2>1, <2>2, <2>3, <2>4 DEF Quiet
<1>. QED  BY <1>1, <1>2, <1>3, <1>4, <1>5, <1>6, <1>7, <1>8, <1>9, <1>10, <1>11 DEF RunStep, Fail, Complete
-----------------------------------------------------------------------------
\* What has never happened did not happen in this step.
LEMMA NeverHappens ==
    ASSUME NEW S \in SUBSET Incidents, MCNext, seen' \cap S = {}
    PROVE  seen \cap S = {} /\ \A i \in S : ~Happens(i)
BY DEF MCNext

\* The steps there are.
LEMMA StepCases ==
    ASSUME TypeOK, MCNext
    PROVE  \/ \E r \in Runs : Start(r) /\ RunMove(r)
           \/ \E r \in Runs : flow[r].at \notin {"new", "ended"} /\ RunMove(r)
           \/ BeginReset
           \/ ResetStep
<1>1. ASSUME NEW r \in Runs, RunStep(r) PROVE flow[r].at \notin {"new", "ended"}
  BY <1>1 DEF RunStep, Trigger, Search, StoreTotals, StoreProbes, StoreCategories, AnswerSearch, Interrupt,
              Fail, ReadProfile, Complete, BuildStrategy
<1>. QED  BY <1>1, StartMoves, StepMoves DEF MCNext, Next

\* A step of a run leaves the run where it may be, and its tables typed.
LEMMA RunTyped ==
    ASSUME TypeOK, NEW r \in Runs, RunMove(r)
    PROVE  TypeOK'
<1>1. Attempt(r) \in Attempts
  BY DEF Attempt, Attempts, TypeOK
<1>2. flow' \in [Runs -> Flow]
  BY DEF RunMove
<1>3. /\ profile' \in Profiles /\ fingerprint' \in Attempts \cup {None}
      /\ probes' \subseteq Attempts /\ categories' \subseteq Attempts
  BY <1>1 DEF RunMove, Effect, TypeOK, Profiles, Marked
<1>4. drafts' \in Seq([by : Runs, from : SUBSET Attempts])
  <2>. DEFINE entry == [by |-> r, from |-> categories]
  <2>1. UNCHANGED drafts \/ drafts' = Append(drafts, entry)
    BY DEF RunMove, Effect, Drafted
  <2>2. entry \in Drafts /\ drafts \in Seq(Drafts)
    BY DEF TypeOK, Drafts
  <2>. HIDE DEF entry
  <2>3. drafts' \in Seq(Drafts)
    BY <2>1, <2>2
  <2>. QED  BY <2>3 DEF Drafts
<1>5. reset' = reset
  BY DEF RunMove
<1>. QED  BY <1>2, <1>3, <1>4, <1>5 DEF TypeOK, Flow, Places

LEMMA RecordsTyped ==
    ASSUME TypeOK, MCNext
    PROVE  TypeOK'
<1>1. CASE BeginReset
  <2>1. reset.count + 1 \in 0 .. MaxResets
    BY <1>1, ResetsAssumption DEF BeginReset, TypeOK
  <2>. QED  BY <1>1, <2>1 DEF BeginReset, TypeOK
<1>2. CASE ResetStep
  <2>1. /\ reset' \in [at : {"idle", "probes", "categories", "fingerprint", "profile"}, count : 0 .. MaxResets]
        /\ UNCHANGED <<flow, drafts>>
    BY <1>2 DEF ResetStep, DeleteProbes, DeleteCategories, DeleteFingerprint, DeleteProfile, TypeOK
  <2>2. /\ profile' \in Profiles /\ fingerprint' \in Attempts \cup {None}
        /\ probes' \subseteq Attempts /\ categories' \subseteq Attempts
    BY <1>2 DEF ResetStep, DeleteProbes, DeleteCategories, DeleteFingerprint, DeleteProfile, TypeOK, Profiles
  <2>. QED  BY <2>1, <2>2 DEF TypeOK
<1>. QED  BY <1>1, <1>2, RunTyped, StepCases

\* What the deletes of a reset leave when none of them fails.
LEMMA ResetEffect ==
    ASSUME TypeOK, ResetStep, ~Happens("not deleted")
    PROVE  /\ UNCHANGED <<flow, drafts>>
           /\ \/ /\ reset.at = "probes" /\ reset'.at = "categories" /\ probes' = {}
                 /\ UNCHANGED <<profile, fingerprint, categories>>
              \/ /\ reset.at = "categories" /\ reset'.at = "fingerprint" /\ categories' = {}
                 /\ UNCHANGED <<profile, fingerprint, probes>>
              \/ /\ reset.at = "fingerprint" /\ reset'.at = "profile" /\ fingerprint' = None
                 /\ UNCHANGED <<profile, probes, categories>>
              \/ /\ reset.at = "profile" /\ reset'.at = "idle" /\ profile' = "absent"
                 /\ UNCHANGED <<fingerprint, probes, categories>>
<1>1. /\ reset.at = "probes" => probes' = {}
      /\ reset.at = "categories" => categories' = {}
      /\ reset.at = "fingerprint" => fingerprint' = None
      /\ reset.at = "profile" => profile' = "absent"
  BY DEF Happens
<1>. QED  BY <1>1 DEF ResetStep, DeleteProbes, DeleteCategories, DeleteFingerprint, DeleteProfile, TypeOK

\* A start or a reset that does not overlap finds no run under way.
LEMMA NoOverlap ==
    ASSUME ~Happens("overlap")
    PROVE  /\ \A r \in Runs : Start(r) => reset.at = "idle" /\ \A q \in Runs : ~Active(q)
           /\ BeginReset => \A q \in Runs : ~Active(q)
BY DEF Happens, Starts, UnderWay, Active

\* A run moves on unless a step is repeated.
LEMMA NoRescan ==
    ASSUME ~Happens("rescan"), NEW r \in Runs, flow[r].at \in {"totals", "probes", "categories", "answer"}
    PROVE  flow'[r].at \notin {"search", "fail"}
BY DEF Happens, Goes

LEMMA NoRedraft ==
    ASSUME ~Happens("redraft"), NEW r \in Runs, flow[r].at = "strategy"
    PROVE  flow'[r].at # "strategy"
BY DEF Happens, Goes

LEMMA NoTotalsLost ==
    ASSUME ~Happens("no totals"), NEW r \in Runs, flow[r].at = "totals"
    PROVE  flow'[r].at # "answer"
BY DEF Happens, Goes

LEMMA NotAgain ==
    ASSUME ~Happens("again"), NEW r \in Runs, Start(r)
    PROVE  profile = "absent"
BY DEF Happens, Starts
-----------------------------------------------------------------------------
\* A run that has begun stays active until it ends; resets touch no run.
LEMMA AloneKept ==
    ASSUME TypeOK, Alone, MCNext
    PROVE  Alone'
<1>. SUFFICES ASSUME seen' \cap {"overlap"} = {}
              PROVE  /\ \A q, r \in Runs : Active(q)' /\ Active(r)' => q = r
                     /\ reset'.at # "idle" => \A r \in Runs : ~Active(r)'
  BY DEF Alone, Never
<1>1. seen \cap {"overlap"} = {} /\ ~Happens("overlap")
  <2>1. {"overlap"} \in SUBSET Incidents
    BY DEF Incidents
  <2>. QED  BY <2>1, NeverHappens
<1>2. /\ \A q, r \in Runs : Active(q) /\ Active(r) => q = r
      /\ reset.at # "idle" => \A r \in Runs : ~Active(r)
  BY <1>1 DEF Alone, Never
<1>3. ASSUME NEW r \in Runs, Start(r), RunMove(r) PROVE reset'.at = "idle" /\ \A q \in Runs \ {r} : ~Active(q)'
  BY <1>1, <1>3, NoOverlap DEF RunMove, Active
<1>4. ASSUME NEW r \in Runs, flow[r].at \notin {"new", "ended"}, RunMove(r)
      PROVE  reset'.at = "idle" /\ \A q \in Runs \ {r} : ~Active(q)'
  BY <1>2, <1>4 DEF RunMove, Active
<1>5. CASE BeginReset
  BY <1>1, <1>5, NoOverlap DEF BeginReset, Active
<1>6. CASE ResetStep
  <2>1. reset.at # "idle" /\ UNCHANGED flow
    BY <1>6 DEF ResetStep, DeleteProbes, DeleteCategories, DeleteFingerprint, DeleteProfile
  <2>. QED  BY <1>2, <2>1 DEF Active
<1>. QED  BY <1>3, <1>4, <1>5, <1>6, StepCases

\* The totals are written before the place where they are needed, and are
\* deleted only when no run is under way and the profile is about to go.
LEMMA KeptKept ==
    ASSUME TypeOK, Alone, Kept, MCNext
    PROVE  Kept'
<1>. DEFINE S == {"overlap", "not deleted", "no totals"}
<1>. SUFFICES ASSUME seen' \cap S = {}
              PROVE  /\ \A r \in Runs : flow'[r].at \in Stored => fingerprint' # None
                     /\ profile' = "completed" /\ reset'.at # "profile" => fingerprint' # None
  BY DEF Kept, Never
<1>1. seen \cap S = {} /\ \A i \in S : ~Happens(i)
  <2>1. S \in SUBSET Incidents
    BY DEF Incidents
  <2>. QED  BY <2>1, NeverHappens
<1>2. /\ \A r \in Runs : flow[r].at \in Stored => fingerprint # None
      /\ profile = "completed" /\ reset.at # "profile" => fingerprint # None
      /\ \A q, r \in Runs : Active(q) /\ Active(r) => q = r
      /\ reset.at # "idle" => \A r \in Runs : ~Active(r)
  BY <1>1 DEF Kept, Alone, Never
<1>3. ASSUME NEW r \in Runs PROVE Attempt(r) # None
  <2>1. Attempt(r) \in Attempts
    BY DEF Attempt, Attempts, TypeOK
  <2>. QED  BY <2>1, NoneAssumption
<1>4. ASSUME NEW r \in Runs, RunMove(r)
      PROVE  /\ \A q \in Runs : flow'[q].at \in Stored => fingerprint' # None
             /\ profile' = "completed" /\ reset'.at # "profile" => fingerprint' # None
  <2>1. flow[r].at = "totals" => flow'[r].at # "answer"
    BY <1>1, NoTotalsLost
  <2>2. fingerprint' = fingerprint \/ fingerprint' # None
    BY <1>3, <1>4 DEF RunMove, Effect
  <2>3. flow'[r].at \in Stored => flow[r].at \in Stored \/ fingerprint' # None
    BY <1>3, <1>4, <2>1 DEF RunMove, Effect, Quiet, Stored
  <2>4. profile' = "completed" => profile = "completed" \/ flow[r].at \in Stored
    BY <1>4 DEF RunMove, Effect, Marked, Stored
  <2>. QED  BY <1>2, <1>4, <2>2, <2>3, <2>4 DEF RunMove
<1>5. CASE BeginReset
  BY <1>2, <1>5 DEF BeginReset
<1>6. CASE ResetStep
  <2>1. \A r \in Runs : ~Active(r)
    BY <1>2, <1>6 DEF ResetStep, DeleteProbes, DeleteCategories, DeleteFingerprint, DeleteProfile
  <2>2. \A r \in Runs : flow'[r].at \notin Stored
    BY <1>6, <2>1 DEF ResetStep, DeleteProbes, DeleteCategories, DeleteFingerprint, DeleteProfile, Active, Stored
  <2>3. profile' = "completed" /\ reset'.at # "profile" => fingerprint' # None
    BY <1>1, <1>2, <1>6, ResetEffect
  <2>. QED  BY <2>2, <2>3
<1>. QED  BY <1>4, <1>5, <1>6, StepCases

\* A run starts on empty tables, fills them once and is alone with them.
LEMMA SingleKept ==
    ASSUME TypeOK, Alone, Single, MCNext
    PROVE  Single'
<1>. DEFINE S == {"overlap", "again", "rescan", "not deleted"}
<1>. SUFFICES ASSUME seen' \cap S = {} PROVE Clean'
  BY DEF Single, Never
<1>1. seen \cap S = {} /\ \A i \in S : ~Happens(i)
  <2>1. S \in SUBSET Incidents
    BY DEF Incidents
  <2>. QED  BY <2>1, NeverHappens
<1>. HIDE DEF S
<1>2. /\ Clean
      /\ \A q, r \in Runs : Active(q) /\ Active(r) => q = r
      /\ reset.at # "idle" => \A r \in Runs : ~Active(r)
  BY <1>1 DEF Single, Alone, Never, S
<1>3. ASSUME NEW r \in Runs, Start(r), RunMove(r) PROVE Clean'
  <2>1. profile = "absent" /\ reset.at = "idle" /\ \A q \in Runs : ~Active(q)
    BY <1>1, <1>3, NotAgain, NoOverlap DEF S
  <2>2. fingerprint = None /\ probes = {} /\ categories = {}
    BY <1>2, <2>1 DEF Clean
  <2>3. /\ profile' = "running" /\ UNCHANGED <<fingerprint, probes, categories, reset>>
        /\ flow'[r].at = "trigger" /\ \A q \in Runs \ {r} : flow'[q] = flow[q]
    BY <1>3 DEF Start, RunMove, Effect, Quiet
  <2>4. \A q \in Runs : RunClean(q)'
    BY <2>1, <2>2, <2>3 DEF RunClean, Active, Stored
  <2>. QED  BY <2>1, <2>2, <2>3, <2>4 DEF Clean
<1>4. ASSUME NEW r \in Runs, flow[r].at \notin {"new", "ended"}, RunMove(r) PROVE Clean'
  <2>1. reset.at = "idle" /\ reset' = reset /\ \A q \in Runs \ {r} : flow'[q] = flow[q] /\ ~Active(q)'
    BY <1>2, <1>4 DEF RunMove, Active
  <2>2. RunClean(r) /\ profile # "absent" /\ probes \cup categories \subseteq {fingerprint}
    BY <1>2, <1>4 DEF Clean, RunClean, Active
  <2>3. flow[r].at \in {"totals", "probes", "categories", "answer"} => flow'[r].at \notin {"search", "fail"}
    BY <1>1, NoRescan DEF S
  <2>4. Attempt(r) \in {r} \X (0 .. Retries)
    BY DEF Attempt, TypeOK
  <2>5. profile' # "absent"
    BY <2>2 , <1>4 DEF RunMove, Effect, Marked
  <2>6. \A q \in Runs \ {r} : RunClean(q)'
    BY <2>1 DEF RunClean, Active, Stored
  <2>7. RunClean(r)' /\ probes' \cup categories' \subseteq {fingerprint'}
    <3>1. CASE /\ <<flow[r].at, flow'[r].at>> \in Quiet
               /\ UNCHANGED <<profile, fingerprint, probes, categories>>
      BY <2>2, <2>3, <3>1 DEF Quiet, RunClean, Active, Stored
    <3>2. CASE /\ flow[r].at = "totals" /\ flow'[r].at = "probes" /\ fingerprint' = Attempt(r)
               /\ flow'[r].tries = flow[r].tries /\ UNCHANGED <<profile, probes, categories>>
      <4>1. Attempt(r)' = Attempt(r)
        BY <3>2 DEF Attempt
      <4>. QED  BY <2>2, <2>4, <2>5, <3>2, <4>1 DEF RunClean, Active, Stored
    <3>3. CASE /\ flow[r].at = "probes" /\ flow'[r].at = "categories" /\ flow'[r].tries = flow[r].tries
               /\ probes' \in {probes, probes \cup {Attempt(r)}}
               /\ UNCHANGED <<profile, fingerprint, categories>>
      <4>1. Attempt(r)' = Attempt(r)
        BY <3>3 DEF Attempt
      <4>. QED  BY <2>2, <2>4, <2>5, <3>3, <4>1 DEF RunClean, Active, Stored
    <3>4. CASE /\ flow[r].at = "categories" /\ flow'[r].at = "answer"
               /\ categories' \in {categories, categories \cup {Attempt(r)}}
               /\ UNCHANGED <<profile, fingerprint, probes>>
      BY <2>2, <2>4, <2>5, <3>4 DEF RunClean, Active, Stored
    <3>5. CASE /\ flow[r].at \in {"failing", "completing", "strategy"}
               /\ flow'[r].at = "ended" \/ (flow[r].at # "failing" /\ flow'[r].at \in {"complete", "strategy"})
               /\ UNCHANGED <<fingerprint, probes, categories>>
      BY <2>2, <2>5, <3>5 DEF RunClean, Active, Stored
    <3>. QED  BY <1>4, <3>1, <3>2, <3>3, <3>4, <3>5 DEF RunMove, Effect
  <2>. QED  BY <2>1, <2>5, <2>6, <2>7 DEF Clean
<1>5. CASE BeginReset
  <2>1. reset'.at = "probes" /\ UNCHANGED <<profile, fingerprint, probes, categories, flow>>
    BY <1>5 DEF BeginReset
  <2>. QED  BY <1>2, <2>1 DEF Clean, RunClean, Active, Attempt
<1>6. CASE ResetStep
  <2>1. ~Happens("not deleted")
    BY <1>1 DEF S
  <2>2. \A r \in Runs : ~Active(r)
    BY <1>2, <1>6 DEF ResetStep, DeleteProbes, DeleteCategories, DeleteFingerprint, DeleteProfile
  <2>3. \A r \in Runs : RunClean(r)'
    BY <1>6, <2>1, <2>2, ResetEffect DEF RunClean, Active, Stored
  <2>. QED  BY <1>2, <1>6, <2>1, <2>3, ResetEffect DEF Clean
<1>. QED  BY <1>3, <1>4, <1>5, <1>6, StepCases

\* A strategy is drafted by a run that had drafted none, and ends it.
LEMMA DraftsKept ==
    ASSUME TypeOK, Single, DraftsOnce, MCNext
    PROVE  DraftsOnce'
<1>. DEFINE S == {"overlap", "again", "rescan", "redraft", "not deleted"}
<1>. SUFFICES ASSUME seen' \cap S = {}
              PROVE  /\ \A i \in DOMAIN drafts' : flow'[drafts'[i].by].at = "ended"
                     /\ DraftsFromOneScan'
  BY DEF DraftsOnce, Never
<1>1. seen \cap S = {} /\ \A i \in S : ~Happens(i)
  <2>1. S \in SUBSET Incidents
    BY DEF Incidents
  <2>. QED  BY <2>1, NeverHappens
<1>. HIDE DEF S
<1>2. /\ \A i \in DOMAIN drafts : flow[drafts[i].by].at = "ended"
      /\ DraftsFromOneScan
      /\ Clean
  BY <1>1 DEF DraftsOnce, Single, Never, S
<1>0. \A i \in DOMAIN drafts : drafts[i].by \in Runs
  <2>1. drafts \in Seq(Drafts)
    BY DEF TypeOK, Drafts
  <2>2. \A i \in DOMAIN drafts : drafts[i] \in Drafts
    BY <2>1
  <2>. QED  BY <2>2 DEF Drafts
<1>3. ASSUME UNCHANGED drafts, NEW r \in Runs, flow[r].at # "ended", \A q \in Runs \ {r} : flow'[q] = flow[q]
      PROVE  /\ \A i \in DOMAIN drafts' : flow'[drafts'[i].by].at = "ended"
             /\ DraftsFromOneScan'
  BY <1>0, <1>2, <1>3 DEF DraftsFromOneScan
<1>4. ASSUME NEW r \in Runs, flow[r].at # "ended", RunMove(r)
      PROVE  /\ \A i \in DOMAIN drafts' : flow'[drafts'[i].by].at = "ended"
             /\ DraftsFromOneScan'
  <2>1. CASE UNCHANGED drafts
    BY <1>3, <1>4, <2>1 DEF RunMove
  <2>2. CASE drafts' # drafts
    <3>1. /\ flow[r].at = "strategy" /\ flow'[r].at \in {"strategy", "ended"}
          /\ fingerprint # None /\ drafts' = Drafted(r)
      BY <1>4, <2>2 DEF RunMove, Effect
    <3>2. flow'[r].at = "ended"
      BY <1>1, <3>1, NoRedraft DEF S
    <3>3. PICK n \in 0 .. Retries : fingerprint = <<r, n>>
      BY <1>2, <3>1 DEF Clean, RunClean, Stored
    <3>4. categories = {} \/ categories = {<<r, n>>}
      BY <1>2, <3>3 DEF Clean
    <3>. DEFINE entry == [by |-> r, from |-> categories]
    <3>5. /\ drafts' = Append(drafts, entry) /\ entry.by = r /\ entry.from = categories
          /\ entry \in [by : Runs, from : SUBSET Attempts]
      BY <3>1 DEF Drafted, TypeOK
    <3>. HIDE DEF entry
    <3>6. /\ DOMAIN drafts' = DOMAIN drafts \cup {Len(drafts) + 1} /\ Len(drafts) + 1 \notin DOMAIN drafts
          /\ \A i \in DOMAIN drafts : drafts'[i] = drafts[i]
          /\ drafts'[Len(drafts) + 1] = entry
      BY <3>5 DEF TypeOK
    <3>7. \A i \in DOMAIN drafts : drafts[i].by # r /\ flow'[drafts[i].by] = flow[drafts[i].by]
      BY <1>0, <1>2, <1>4 DEF RunMove
    <3>. DEFINE last == Len(drafts) + 1
    <3>. HIDE DEF last
    <3>8. /\ DOMAIN drafts' = DOMAIN drafts \cup {last}
          /\ \A i \in DOMAIN drafts : drafts'[i] = drafts[i]
          /\ drafts'[last].by = r /\ drafts'[last].from = categories
      BY <3>5, <3>6 DEF last
    <3>9. \A i \in DOMAIN drafts' : flow'[drafts'[i].by].at = "ended"
      BY <1>2, <3>2, <3>7, <3>8
    <3>10. \A i, j \in DOMAIN drafts' : drafts'[i].by = drafts'[j].by => i = j
      BY <1>2, <3>7, <3>8 DEF DraftsFromOneScan
    <3>11. \A i \in DOMAIN drafts' :
              \/ drafts'[i].from = {}
              \/ \E m \in 0 .. Retries : drafts'[i].from = {<<drafts'[i].by, m>>}
      BY <1>2, <3>4, <3>8 DEF DraftsFromOneScan
    <3>. QED  BY <3>9, <3>10, <3>11 DEF DraftsFromOneScan
  <2>. QED  BY <2>1, <2>2
<1>5. CASE BeginReset \/ ResetStep
  <2>1. UNCHANGED <<flow, drafts>>
    BY <1>5 DEF BeginReset, ResetStep, DeleteProbes, DeleteCategories, DeleteFingerprint, DeleteProfile
  <2>. QED  BY <1>2, <2>1 DEF DraftsFromOneScan
<1>. QED  BY <1>4, <1>5, StepCases DEF Start

\* The strengthened invariant holds throughout.
THEOREM RecordsInvariance == MCSpec => []RecordsInv
<1>1. RecordsInv /\ [MCNext]_<<vars, seen>> => RecordsInv'
  <2>. SUFFICES ASSUME RecordsInv, [MCNext]_<<vars, seen>> PROVE RecordsInv'
    OBVIOUS
  <2>1. CASE MCNext
    BY <2>1, RecordsTyped, AloneKept, KeptKept, SingleKept, DraftsKept DEF RecordsInv
  <2>2. CASE UNCHANGED <<vars, seen>>
    <3>1. TypeOK' /\ Alone'
      BY <2>2 DEF vars, RecordsInv, TypeOK, Alone, Active, Never
    <3>2. Kept' /\ DraftsOnce'
      BY <2>2 DEF vars, RecordsInv, Kept, DraftsOnce, DraftsFromOneScan, Never
    <3>3. Clean => Clean'
      BY <2>2 DEF vars, Clean, RunClean, Active, Attempt
    <3>4. Single'
      BY <2>2, <3>3 DEF vars, RecordsInv, Single, Never
    <3>. QED  BY <3>1, <3>2, <3>4 DEF RecordsInv
  <2>. QED  BY <2>1, <2>2
<1>. QED  BY <1>1, InitRecordsInv, PTL DEF MCSpec

\* For any runs, retries, resets and faults: without the incidents named, the
\* rows of a tenant tell of one scan, a completed assessment has its totals, and a
\* run drafts one strategy from its own scan (persistFingerprint, Delete,
\* CompleteAssessment and the step build-strategy).
THEOREM RecordsClean == MCSpec => []CleanRecords
<1>1. RecordsInv => CleanRecords
  <2>. SUFFICES ASSUME RecordsInv PROVE CleanRecords
    OBVIOUS
  <2>1. Never({"overlap", "again", "rescan", "not deleted"}) => ResultsOfOneScan
    BY DEF RecordsInv, Single, Clean, ResultsOfOneScan
  <2>2. Never({"overlap", "not deleted", "no totals"}) => CompletedHasResults
    BY DEF RecordsInv, Kept, CompletedHasResults
  <2>3. Never({"overlap", "again", "rescan", "redraft", "not deleted"}) => DraftsFromOneScan
    BY DEF RecordsInv, DraftsOnce
  <2>. QED  BY <2>1, <2>2, <2>3 DEF RecordsInv, CleanRecords
<1>. QED  BY <1>1, RecordsInvariance, PTL

\* The places of a run that will still write the status.
Owing == {"trigger", "search", "totals", "probes", "categories", "answer", "fail", "failing",
          "complete", "completing"}

\* Whoever finds the status "running" may wait: a run is on its way to change it,
\* unless the event that starts the run was not sent or a write of the status failed.
RunningIsOwed ==
    profile = "running" /\ Never({"stuck"}) => \E r \in Runs : flow[r].at \in Owing

\* A run that leaves these places has changed the status, or is stuck.
LEMMA OwedKept ==
    ASSUME TypeOK, RunningIsOwed, MCNext
    PROVE  RunningIsOwed'
<1>. SUFFICES ASSUME profile' = "running", seen' \cap {"stuck"} = {}
              PROVE  \E r \in Runs : flow'[r].at \in Owing
  BY DEF RunningIsOwed, Never
<1>1. seen \cap {"stuck"} = {} /\ ~Happens("stuck")
  BY NeverHappens DEF Incidents
<1>2. ASSUME NEW r \in Runs, flow[r].at \in {"trigger", "fail", "failing", "complete", "completing"}
      PROVE  flow'[r].at # "ended"
  BY <1>1, <1>2 DEF Happens, Goes
<1>3. CASE \E r \in Runs : Start(r) /\ RunMove(r)
  BY <1>3 DEF Start, RunMove, Effect, Owing, Quiet
<1>4. CASE \E r \in Runs : flow[r].at \notin {"new", "ended"} /\ RunMove(r)
  <2>1. PICK r \in Runs : flow[r].at \notin {"new", "ended"} /\ RunMove(r)
    BY <1>4
  <2>2. profile = "running"
    BY <2>1 DEF RunMove, Effect, Marked
  <2>3. PICK q \in Runs : flow[q].at \in Owing
    BY <1>1, <2>2 DEF RunningIsOwed, Never
  <2>4. CASE q # r
    BY <2>1, <2>3, <2>4 DEF RunMove
  <2>5. CASE q = r
    BY <1>2, <2>1, <2>3, <2>5 DEF RunMove, Effect, Owing, Quiet, Marked
  <2>. QED  BY <2>4, <2>5
<1>5. CASE BeginReset \/ ResetStep
  <2>1. flow' = flow /\ profile = "running"
    BY <1>5 DEF BeginReset, ResetStep, DeleteProbes, DeleteCategories, DeleteFingerprint, DeleteProfile
  <2>. QED  BY <1>1, <2>1 DEF RunningIsOwed, Never
<1>. QED  BY <1>3, <1>4, <1>5, StepCases

\* The safety half of StatusSettles (StartAssessment, FailAssessment, CompleteAssessment).
THEOREM RunningEnds == MCSpec => []RunningIsOwed
<1>1. MCInit => RunningIsOwed
  BY DEF MCInit, Init, RunningIsOwed
<1>2. RecordsInv /\ RunningIsOwed /\ [MCNext]_<<vars, seen>> => RunningIsOwed'
  BY OwedKept DEF RecordsInv, RunningIsOwed, Never, vars
<1>. QED  BY <1>1, <1>2, RecordsInvariance, PTL DEF MCSpec
-----------------------------------------------------------------------------
(* The scan of the step search-categories.                                 *)

\* Where the goroutine is in the category it scans.
Place ==
    /\ at \notin {"next", "done"} => category <= Last
    /\ at \in {"search", "lookup"} => left + accessible <= ProductsPerCategory /\ accessible = 0 /\ streak = 0
    /\ at \in {"product", "check"} => streak < PerCategoryLimit
    /\ at = "check" => left > 0

\* A call is begun below the limits, or follows one that was.  The search of a
\* category is where a request is not counted.
Limits ==
    /\ sent <= calls + (IF at \in {"next", "search", "done"} THEN category - 1 ELSE category)
    /\ ~ShouldStop => over = 0
    /\ at \in {"search", "check"} => calls < Budget /\ totalEligible < EarlySuccess /\ over = 0
    /\ at = "lookup" => calls <= Budget /\ over <= 1
    /\ at \in {"product", "check", "details"} /\ accessible > 0 => calls <= Budget /\ over <= 1

\* The categories scanned, and those left by a check of the limits.
Order ==
    /\ at \in {"next", "done"} => scanned = 1 .. category - 1
    /\ at \notin {"next", "done"} => scanned = 1 .. category
    /\ \A c \in cut : c = IF at \in {"next", "done"} THEN category - 1 ELSE category
    /\ cut # {} => ShouldStop
    /\ at = "done" => category = Last + 1 \/ fired \cap (Stops \cup {"context_canceled"}) # {}

CallsBounded == calls <= Budget + 2

ScanInv == ScanTypeOK /\ Place /\ Limits /\ CallsBounded /\ StopsSoon /\ EnoughIsEnough /\ Order
-----------------------------------------------------------------------------
\* Nothing is scanned or counted at first.
LEMMA InitScanInv == ScanInit => ScanInv
<1>. SUFFICES ASSUME ScanInit PROVE ScanInv
  OBVIOUS
<1>. USE LimitsAssumption DEF ScanInit
<1>1. ScanTypeOK
  <2>1. scanned \subseteq Categories /\ fired \subseteq Breakers /\ cut \subseteq Categories
    BY Zenon
  <2>2. late \in BOOLEAN /\ canceled \in BOOLEAN
    BY Zenon
  <2>3. category \in 1 .. Last + 1 /\ emptyRun \in 0 .. EmptyLimit - 1
    OBVIOUS
  <2>4. /\ streak \in 0 .. PerCategoryLimit
        /\ left \in 0 .. ProductsPerCategory /\ open \in 0 .. ProductsPerCategory
        /\ accessible \in 0 .. ProductsPerCategory
        /\ open <= accessible /\ accessible + left <= ProductsPerCategory
    OBVIOUS
  <2>5. totalEligible \in Nat /\ calls \in Nat /\ sent \in Nat /\ over \in Nat
    OBVIOUS
  <2>. QED  BY <2>1, <2>2, <2>3, <2>4, <2>5 DEF ScanTypeOK
<1>0. Place
  BY DEF Place
<1>2. Limits /\ CallsBounded /\ StopsSoon /\ EnoughIsEnough
  BY DEF Limits, CallsBounded, StopsSoon, EnoughIsEnough
<1>3. Order
  <2>1. scanned = 1 .. category - 1
    OBVIOUS
  <2>. QED  BY <2>1 DEF Order
<1>. QED  BY <1>0, <1>1, <1>2, <1>3 DEF ScanInv

\* The breakers that actions record are among those there are.
LEMMA BreakerNames ==
    /\ Reached \subseteq Breakers
    /\ {"context_canceled"} \subseteq Breakers
    /\ {"per_category_skip"} \subseteq Breakers
    /\ {"repeated_failure"} \subseteq Breakers
  BY DEF Reached, Breakers

\* A limit is reached exactly when the scan should stop.
LEMMA StopsReached ==
    /\ ShouldStop <=> Reached # {}
    /\ Reached \subseteq Stops \cup {"context_canceled"}
  BY DEF ShouldStop, Reached, Stops

\* The place in the category bounds what a product can add to.
LEMMA ScanTypeKept ==
    ASSUME ScanTypeOK, Place, [ScanNext]_scanVars
    PROVE  ScanTypeOK'
<1>. USE LimitsAssumption, BreakerNames
<1>1. CASE Stop
  BY <1>1 DEF Stop, categoryVars, totalVars, callVars, ScanTypeOK, Place, Categories
<1>2. CASE StopCanceled
  BY <1>2 DEF StopCanceled, categoryVars, totalVars, callVars, ScanTypeOK, Place, Categories
<1>3. CASE Begin
  BY <1>3 DEF Begin, categoryVars, totalVars, callVars, ScanTypeOK, Place, Categories
<1>4. CASE Finish
  BY <1>4 DEF Finish, categoryVars, totalVars, callVars, ScanTypeOK, Place, Categories
<1>5. CASE After
  BY <1>5 DEF After, RepeatedFailure, categoryVars, totalVars, callVars, ScanTypeOK, Place, Categories
<1>6. CASE SearchCategory
  BY <1>6 DEF SearchCategory, Call, categoryVars, totalVars, callVars, ScanTypeOK, Place, Categories
<1>7. CASE Lookup
  BY <1>7 DEF Lookup, Call, categoryVars, totalVars, callVars, ScanTypeOK, Place, Categories
<1>8. CASE NextProduct
  <2>1. category \in Categories
    BY <1>8 DEF NextProduct, ScanTypeOK, Place, Categories
  <2>. QED  BY <1>8, <2>1 DEF NextProduct, categoryVars, totalVars, callVars, ScanTypeOK
<1>9. CASE CheckFails
  BY <1>9 DEF CheckFails, CallCheck, Call, categoryVars, totalVars, callVars, ScanTypeOK, Place, Categories
<1>10. ASSUME NEW u \in BOOLEAN, CheckFinds(u) PROVE ScanTypeOK'
  BY <1>10 DEF CheckFinds, CallCheck, Call, categoryVars, totalVars, callVars, ScanTypeOK, Place, Categories
<1>11. CASE CheckRestricted
  BY <1>11 DEF CheckRestricted, CallCheck, Call, Skipped, categoryVars, totalVars, callVars, ScanTypeOK, Place, Categories
<1>12. CASE Details
  BY <1>12 DEF Details, Call, categoryVars, totalVars, callVars, ScanTypeOK, Place, Categories
<1>13. CASE TimePasses
  BY <1>13 DEF TimePasses, categoryVars, totalVars, callVars, ScanTypeOK, Place, Categories
<1>14. CASE Cancel
  BY <1>14 DEF Cancel, categoryVars, totalVars, callVars, ScanTypeOK, Place, Categories
<1>15. CASE UNCHANGED scanVars
  BY <1>15 DEF scanVars, categoryVars, totalVars, callVars, ScanTypeOK, Place, Categories
<1>. QED  BY <1>1, <1>2, <1>3, <1>4, <1>5, <1>6, <1>7, <1>8, <1>9, <1>10, <1>11, <1>12, <1>13, <1>14, <1>15 DEF ScanNext

\* A product is checked only while products are left and the streak is short.
LEMMA PlaceKept ==
    ASSUME ScanTypeOK, Place, [ScanNext]_scanVars
    PROVE  Place'
<1>. USE LimitsAssumption
<1>1. CASE Stop
  BY <1>1 DEF Stop, categoryVars, totalVars, callVars, ScanTypeOK, Place
<1>2. CASE StopCanceled
  BY <1>2 DEF StopCanceled, categoryVars, totalVars, callVars, ScanTypeOK, Place
<1>3. CASE Begin
  BY <1>3 DEF Begin, categoryVars, totalVars, callVars, ScanTypeOK, Place
<1>4. CASE Finish
  BY <1>4 DEF Finish, categoryVars, totalVars, callVars, ScanTypeOK, Place
<1>5. CASE After
  BY <1>5 DEF After, RepeatedFailure, categoryVars, totalVars, callVars, ScanTypeOK, Place
<1>6. CASE SearchCategory
  BY <1>6 DEF SearchCategory, Call, categoryVars, totalVars, callVars, ScanTypeOK, Place
<1>7. CASE Lookup
  BY <1>7 DEF Lookup, Call, categoryVars, totalVars, callVars, ScanTypeOK, Place
<1>8. CASE NextProduct
  BY <1>8 DEF NextProduct, categoryVars, totalVars, callVars, ScanTypeOK, Place
<1>9. CASE CheckFails
  BY <1>9 DEF CheckFails, CallCheck, Call, categoryVars, totalVars, callVars, ScanTypeOK, Place
<1>10. ASSUME NEW u \in BOOLEAN, CheckFinds(u) PROVE Place'
  BY <1>10 DEF CheckFinds, CallCheck, Call, categoryVars, totalVars, callVars, ScanTypeOK, Place
<1>11. CASE CheckRestricted
  BY <1>11 DEF CheckRestricted, CallCheck, Call, Skipped, categoryVars, totalVars, callVars, ScanTypeOK, Place
<1>12. CASE Details
  BY <1>12 DEF Details, Call, categoryVars, totalVars, callVars, ScanTypeOK, Place
<1>13. CASE TimePasses
  BY <1>13 DEF TimePasses, categoryVars, totalVars, callVars, ScanTypeOK, Place
<1>14. CASE Cancel
  BY <1>14 DEF Cancel, categoryVars, totalVars, callVars, ScanTypeOK, Place
<1>15. CASE UNCHANGED scanVars
  BY <1>15 DEF scanVars, categoryVars, totalVars, callVars, ScanTypeOK, Place
<1>. QED  BY <1>1, <1>2, <1>3, <1>4, <1>5, <1>6, <1>7, <1>8, <1>9, <1>10, <1>11, <1>12, <1>13, <1>14, <1>15 DEF ScanNext

\* At most the search, the lookup and its second count, or a check and the
\* details, follow the moment a limit is reached.
LEMMA LimitsKept ==
    ASSUME ScanTypeOK, Place, Limits, CallsBounded, StopsSoon, EnoughIsEnough, [ScanNext]_scanVars
    PROVE  (Limits /\ CallsBounded /\ StopsSoon /\ EnoughIsEnough)'
<1>. USE LimitsAssumption, StopsReached
<1>1. CASE Stop
  BY <1>1 DEF Stop, categoryVars, totalVars, callVars, ScanTypeOK, Place,
            Limits, CallsBounded, StopsSoon, EnoughIsEnough, ShouldStop, BudgetExhausted, EarlySuccessReached
<1>2. CASE StopCanceled
  BY <1>2 DEF StopCanceled, categoryVars, totalVars, callVars, ScanTypeOK, Place,
            Limits, CallsBounded, StopsSoon, EnoughIsEnough, ShouldStop, BudgetExhausted, EarlySuccessReached
<1>3. CASE Begin
  BY <1>3 DEF Begin, categoryVars, totalVars, callVars, ScanTypeOK, Place,
            Limits, CallsBounded, StopsSoon, EnoughIsEnough, ShouldStop, BudgetExhausted, EarlySuccessReached
<1>4. CASE Finish
  BY <1>4 DEF Finish, categoryVars, totalVars, callVars, ScanTypeOK, Place,
            Limits, CallsBounded, StopsSoon, EnoughIsEnough, ShouldStop, BudgetExhausted, EarlySuccessReached
<1>5. CASE After
  BY <1>5 DEF After, RepeatedFailure, categoryVars, totalVars, callVars, ScanTypeOK, Place,
            Limits, CallsBounded, StopsSoon, EnoughIsEnough, ShouldStop, BudgetExhausted, EarlySuccessReached
<1>6. CASE SearchCategory
  BY <1>6 DEF SearchCategory, Call, categoryVars, totalVars, callVars, ScanTypeOK, Place,
            Limits, CallsBounded, StopsSoon, EnoughIsEnough, ShouldStop, BudgetExhausted, EarlySuccessReached
<1>7. CASE Lookup
  BY <1>7 DEF Lookup, Call, categoryVars, totalVars, callVars, ScanTypeOK, Place,
            Limits, CallsBounded, StopsSoon, EnoughIsEnough, ShouldStop, BudgetExhausted, EarlySuccessReached
<1>8. CASE NextProduct
  BY <1>8 DEF NextProduct, categoryVars, totalVars, callVars, ScanTypeOK, Place,
            Limits, CallsBounded, StopsSoon, EnoughIsEnough, ShouldStop, BudgetExhausted, EarlySuccessReached
<1>9. CASE CheckFails
  BY <1>9 DEF CheckFails, CallCheck, Call, categoryVars, totalVars, callVars, ScanTypeOK, Place,
            Limits, CallsBounded, StopsSoon, EnoughIsEnough, ShouldStop, BudgetExhausted, EarlySuccessReached
<1>10. ASSUME NEW u \in BOOLEAN, CheckFinds(u) PROVE (Limits /\ CallsBounded /\ StopsSoon /\ EnoughIsEnough)'
  BY <1>10 DEF CheckFinds, CallCheck, Call, categoryVars, totalVars, callVars, ScanTypeOK, Place,
            Limits, CallsBounded, StopsSoon, EnoughIsEnough, ShouldStop, BudgetExhausted, EarlySuccessReached
<1>11. CASE CheckRestricted
  BY <1>11 DEF CheckRestricted, CallCheck, Call, Skipped, categoryVars, totalVars, callVars, ScanTypeOK, Place,
            Limits, CallsBounded, StopsSoon, EnoughIsEnough, ShouldStop, BudgetExhausted, EarlySuccessReached
<1>12. CASE Details
  BY <1>12 DEF Details, Call, categoryVars, totalVars, callVars, ScanTypeOK, Place,
            Limits, CallsBounded, StopsSoon, EnoughIsEnough, ShouldStop, BudgetExhausted, EarlySuccessReached
<1>13. CASE TimePasses
  BY <1>13 DEF TimePasses, categoryVars, totalVars, callVars, ScanTypeOK, Place,
            Limits, CallsBounded, StopsSoon, EnoughIsEnough, ShouldStop, BudgetExhausted, EarlySuccessReached
<1>14. CASE Cancel
  BY <1>14 DEF Cancel, categoryVars, totalVars, callVars, ScanTypeOK, Place,
            Limits, CallsBounded, StopsSoon, EnoughIsEnough, ShouldStop, BudgetExhausted, EarlySuccessReached
<1>15. CASE UNCHANGED scanVars
  BY <1>15 DEF scanVars, categoryVars, totalVars, callVars, ScanTypeOK, Place,
            Limits, CallsBounded, StopsSoon, EnoughIsEnough, ShouldStop, BudgetExhausted, EarlySuccessReached
<1>. QED  BY <1>1, <1>2, <1>3, <1>4, <1>5, <1>6, <1>7, <1>8, <1>9, <1>10, <1>11, <1>12, <1>13, <1>14, <1>15 DEF ScanNext

\* The loop ends at the head that follows the cut.
LEMMA OrderKept ==
    ASSUME ScanTypeOK, Place, Order, [ScanNext]_scanVars
    PROVE  Order'
<1>. USE LimitsAssumption, StopsReached
<1>1. CASE Stop
  BY <1>1 DEF Stop, categoryVars, totalVars, callVars, ScanTypeOK, Place, Order, Categories,
            ShouldStop, BudgetExhausted, EarlySuccessReached
<1>2. CASE StopCanceled
  BY <1>2 DEF StopCanceled, categoryVars, totalVars, callVars, ScanTypeOK, Place, Order, Categories,
            ShouldStop, BudgetExhausted, EarlySuccessReached
<1>3. CASE Begin
  BY <1>3 DEF Begin, categoryVars, totalVars, callVars, ScanTypeOK, Place, Order, Categories,
            ShouldStop, BudgetExhausted, EarlySuccessReached
<1>4. CASE Finish
  BY <1>4 DEF Finish, categoryVars, totalVars, callVars, ScanTypeOK, Place, Order, Categories,
            ShouldStop, BudgetExhausted, EarlySuccessReached
<1>5. CASE After
  BY <1>5 DEF After, RepeatedFailure, categoryVars, totalVars, callVars, ScanTypeOK, Place, Order, Categories,
            ShouldStop, BudgetExhausted, EarlySuccessReached
<1>6. CASE SearchCategory
  BY <1>6 DEF SearchCategory, Call, categoryVars, totalVars, callVars, ScanTypeOK, Place, Order, Categories,
            ShouldStop, BudgetExhausted, EarlySuccessReached
<1>7. CASE Lookup
  BY <1>7 DEF Lookup, Call, categoryVars, totalVars, callVars, ScanTypeOK, Place, Order, Categories,
            ShouldStop, BudgetExhausted, EarlySuccessReached
<1>8. CASE NextProduct
  BY <1>8 DEF NextProduct, categoryVars, totalVars, callVars, ScanTypeOK, Place, Order, Categories,
            ShouldStop, BudgetExhausted, EarlySuccessReached
<1>9. CASE CheckFails
  BY <1>9 DEF CheckFails, CallCheck, Call, categoryVars, totalVars, callVars, ScanTypeOK, Place, Order, Categories,
            ShouldStop, BudgetExhausted, EarlySuccessReached
<1>10. ASSUME NEW u \in BOOLEAN, CheckFinds(u) PROVE Order'
  BY <1>10 DEF CheckFinds, CallCheck, Call, categoryVars, totalVars, callVars, ScanTypeOK, Place, Order, Categories,
            ShouldStop, BudgetExhausted, EarlySuccessReached
<1>11. CASE CheckRestricted
  BY <1>11 DEF CheckRestricted, CallCheck, Call, Skipped, categoryVars, totalVars, callVars, ScanTypeOK, Place, Order, Categories,
            ShouldStop, BudgetExhausted, EarlySuccessReached
<1>12. CASE Details
  BY <1>12 DEF Details, Call, categoryVars, totalVars, callVars, ScanTypeOK, Place, Order, Categories,
            ShouldStop, BudgetExhausted, EarlySuccessReached
<1>13. CASE TimePasses
  BY <1>13 DEF TimePasses, categoryVars, totalVars, callVars, ScanTypeOK, Place, Order, Categories,
            ShouldStop, BudgetExhausted, EarlySuccessReached
<1>14. CASE Cancel
  BY <1>14 DEF Cancel, categoryVars, totalVars, callVars, ScanTypeOK, Place, Order, Categories,
            ShouldStop, BudgetExhausted, EarlySuccessReached
<1>15. CASE UNCHANGED scanVars
  BY <1>15 DEF scanVars, categoryVars, totalVars, callVars, ScanTypeOK, Place, Order, Categories,
            ShouldStop, BudgetExhausted, EarlySuccessReached
<1>. QED  BY <1>1, <1>2, <1>3, <1>4, <1>5, <1>6, <1>7, <1>8, <1>9, <1>10, <1>11, <1>12, <1>13, <1>14, <1>15 DEF ScanNext

\* The strengthened invariant holds throughout (ScanSpec is the whole of the scan).
THEOREM ScanInvariance == ScanSpec => []ScanInv
<1>1. ScanInv /\ [ScanNext]_scanVars => ScanInv'
  BY ScanTypeKept, PlaceKept, LimitsKept, OrderKept DEF ScanInv
<1>. QED  BY <1>1, InitScanInv, PTL DEF ScanSpec

\* Every variable keeps its type, for any number of categories, products and limits.
THEOREM ScanTypeCorrect == ScanSpec => []ScanTypeOK
  BY ScanInvariance, PTL DEF ScanInv

\* The budget is overshot by two counted calls, and the count by one request for
\* each category at most (cbAPIBudget, addAPICalls).
THEOREM BudgetHolds == ScanSpec => []CapHolds
<1>1. ScanInv => CapHolds
  <2>. SUFFICES ASSUME ScanInv PROVE CapHolds
    OBVIOUS
  <2>1. /\ category \in Nat \ {0} /\ calls \in Nat /\ sent \in Nat
        /\ scanned = 1 .. category - 1 \/ scanned = 1 .. category
        /\ at \notin {"next", "done"} => scanned = 1 .. category
    BY LimitsAssumption DEF ScanInv, ScanTypeOK, Order
  <2>2. Cardinality(1 .. category - 1) = category - 1 /\ Cardinality(1 .. category) = category
    BY <2>1, FS_Interval
  <2>3. sent <= calls + Cardinality(scanned)
    BY <2>1, <2>2 DEF ScanInv, Limits
  <2>. QED  BY <2>3 DEF CapHolds, ScanInv, CallsBounded
<1>. QED  BY <1>1, ScanInvariance, PTL

\* At most three calls are counted after a limit was reached (shouldStop).
THEOREM ScanStopsSoon == ScanSpec => []StopsSoon
  BY ScanInvariance, PTL DEF ScanInv

\* No product is counted as eligible beyond the early success (cbEarlySuccessThreshold).
THEOREM EligibleBounded == ScanSpec => []EnoughIsEnough
  BY ScanInvariance, PTL DEF ScanInv

\* For any categories, products and limits the scan stops where it has to.
THEOREM LimitsAreHeld == ScanSpec => []LimitsHold
<1>1. ScanTypeOK /\ CapHolds /\ StopsSoon /\ EnoughIsEnough => LimitsHold
  BY DEF LimitsHold
<1>. QED  BY <1>1, ScanTypeCorrect, BudgetHolds, ScanStopsSoon, EligibleBounded, PTL

\* As the categories are sorted, the jump of phase1SearchCategories finds nothing.
THEOREM JumpIsDead == ScanSpec => []NothingBetter
<1>1. ScanInv => NothingBetter
  BY SortedAssumption, LimitsAssumption DEF ScanInv, ScanTypeOK, Order, NothingBetter, Categories
<1>. QED  BY <1>1, ScanInvariance, PTL

\* What is left out is recorded, but for products of the last category (fireBreaker).
THEOREM ReasonsRecorded == ScanSpec => []StopsRecorded
<1>1. ScanInv => StopsRecorded
  <2>. SUFFICES ASSUME ScanInv, at = "done", scanned # Categories \/ cut \ {Last} # {}
                PROVE  fired \cap (Stops \cup {"context_canceled"}) # {}
    BY DEF StopsRecorded
  <2>1. ASSUME category = Last + 1 PROVE FALSE
    <3>1. scanned = 1 .. category - 1 /\ category - 1 = Last
      BY <2>1, LimitsAssumption DEF ScanInv, Order
    <3>2. \A c \in cut : c = Last
      BY <3>1 DEF ScanInv, Order
    <3>. QED  BY <3>1, <3>2 DEF Categories
  <2>. QED  BY <2>1 DEF ScanInv, Order
<1>. QED  BY <1>1, ScanInvariance, PTL
=============================================================================
