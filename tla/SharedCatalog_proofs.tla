------------------------ MODULE SharedCatalog_proofs ------------------------
(***************************************************************************)
(* Proofs about the credit account and the shared catalog that is paid     *)
(* from it, for any finite number of requests, any limits and any          *)
(* calendar.  They rest on what the calendar's operators compute: the      *)
(* first day of a month is defined by recursion, so its equation is        *)
(* established first, by the least number that would break it.             *)
(***************************************************************************)
EXTENDS MCSharedCatalog, FiniteSetTheorems, WellFoundedInduction, TLAPS

Request == [kind : Kinds \cup {"none", "balance", "grant"},
            at : {"idle", "read", "reset", "grant", "lookup", "debit", "record", "call", "mark"}]

HistoryTyped ==
    /\ faults \in Nat /\ spent \in Nat /\ dropped \in Nat /\ unrecorded \in Int
    /\ bought \in [Kinds -> [times : Nat, spoilt : BOOLEAN]]

\* A row has a tier's limit and a day of reset; without a row nothing was used,
\* and nobody is about to reset it.
Founded ==
    /\ Exists => account.limit \in Limits /\ account.resetAt # 0
    /\ ~Exists => \A r \in Requests : req[r].at # "reset"

\* Requests that looked into the cache; of those, the ones that may still buy.
Looked(k) == {r \in Requests : Kind(r) = k /\ req[r].at # "lookup"}
Buying(k) == {r \in Looked(k) : req[r].at \in {"debit", "record", "call"}}

\* Without a mishap one request at a time goes past the cache, and what was
\* bought is fresh and not about to be bought again.
OneBuyer ==
    \A k \in Kinds : ~bought[k].spoilt =>
        /\ \A q, r \in Looked(k) : q = r
        /\ bought[k].times = 0 \/ (bought[k].times = 1 /\ cache[k].fresh /\ Buying(k) = {})

IInv ==
    /\ HistoryTyped /\ Founded
    /\ AllowanceKept /\ LedgerAgrees /\ ResetNextMonth
    /\ OneBuyer
-----------------------------------------------------------------------------
(* The calendar.                                                           *)

\* A set of numbers that is not empty has a least one.
LEMMA Least ==
    ASSUME NEW D \in SUBSET Nat, D # {}
    PROVE  \E k \in D : \A j \in D : k <= j
<1>1. PICK k \in D : \A j \in D : ~(<<j, k>> \in OpToRel(<, Nat))
  BY NatLessThanWellFounded, WFMin
<1>2. ASSUME NEW j \in D
      PROVE  k <= j
  <2>0. j \in Nat /\ k \in Nat
    OBVIOUS
  <2>1. j < k => <<j, k>> \in OpToRel(<, Nat)
    BY <2>0 DEF OpToRel
  <2>2. ~(j < k)
    BY <1>1, <2>1
  <2>. QED  BY <2>0, <2>2
<1>. QED  BY <1>2

\* Induction, for a set of numbers.
LEMMA AllNumbers ==
    ASSUME NEW T, NEW n \in Nat, 1 \in T, \A k \in 1 .. n : k < n /\ k \in T => k + 1 \in T
    PROVE  \A k \in 1 .. n : k \in T
<1>. DEFINE D == {k \in 1 .. n : k \notin T}
<1>. SUFFICES ASSUME D # {} PROVE FALSE
  OBVIOUS
<1>1. D \in SUBSET Nat
  OBVIOUS
<1>2. PICK k \in D : \A j \in D : k <= j
  <2>. HIDE DEF D
  <2>. QED  BY <1>1, Least
<1>3. k # 1 /\ k \in 2 .. n /\ k - 1 \in 1 .. n /\ k - 1 < n /\ k - 1 + 1 = k /\ ~(k <= k - 1)
  OBVIOUS
<1>4. k - 1 \notin D
  BY <1>2, <1>3
<1>. QED  BY <1>3, <1>4

Firsts == 1 .. Len(MonthLengths) + 1

\* The equation of the recursive definition: there is a function that meets it,
\* so the one that is chosen does.
LEMMA FirstDayMeans ==
    /\ FirstDay \in [Firsts -> Nat]
    /\ FirstDay[1] = 1
    /\ \A m \in Months : FirstDay[m + 1] = FirstDay[m] + MonthLengths[m]
<1>. DEFINE L == Len(MonthLengths)
            One(f, m) == IF m = 1 THEN 1 ELSE f[m - 1] + MonthLengths[m - 1]
            Upto(k, f) == f \in [1 .. k -> Nat] /\ \A m \in 1 .. k : f[m] = One(f, m)
            T == {k \in 1 .. L + 1 : \E f : Upto(k, f)}
<1>0. L \in Nat /\ L + 1 \in Nat /\ (\A m \in 1 .. L : MonthLengths[m] \in Nat) /\ Months = 1 .. L
      /\ Firsts = 1 .. L + 1
  BY CreditsAssumption DEF Months, Firsts
<1>1. 1 \in T
  <2>1. Upto(1, [m \in 1 .. 1 |-> 1])
    OBVIOUS
  <2>2. 1 \in 1 .. L + 1
    BY <1>0
  <2>. HIDE DEF Upto
  <2>. QED  BY <2>1, <2>2
<1>2. ASSUME NEW k \in 1 .. L + 1, k < L + 1, k \in T
      PROVE  k + 1 \in T
  <2>1. PICK f : Upto(k, f)
    BY <1>2
  <2>. DEFINE g == [m \in 1 .. k + 1 |-> IF m <= k THEN f[m] ELSE One(f, k + 1)]
  <2>2. f[k] \in Nat /\ MonthLengths[k] \in Nat /\ k \in Nat /\ k + 1 \in 1 .. L + 1 /\ k \in 1 .. L
        /\ k # 0 /\ k + 1 - 1 = k
    BY <1>0, <1>2, <2>1
  <2>3. One(f, k + 1) \in Nat
    BY <2>2
  <2>4. g \in [1 .. k + 1 -> Nat]
    BY <2>1, <2>2, <2>3
  <2>5. ASSUME NEW m \in 1 .. k + 1 PROVE g[m] = One(g, m)
    <3>1. CASE m <= k
      <4>1. m \in 1 .. k /\ g[m] = f[m] /\ (m # 1 => g[m - 1] = f[m - 1])
        BY <2>2, <3>1
      <4>2. f[m] = One(f, m)
        BY <2>1, <4>1
      <4>. QED  BY <4>1, <4>2
    <3>2. CASE m = k + 1
      <4>1. m # 1 /\ g[m] = One(f, m) /\ g[m - 1] = f[m - 1]
        BY <2>2, <3>2
      <4>. QED  BY <4>1
    <3>. QED  BY <2>2, <3>1, <3>2
  <2>6. Upto(k + 1, g)
    BY <2>4, <2>5
  <2>. HIDE DEF Upto
  <2>. QED  BY <2>2, <2>6
<1>3. L + 1 \in T
  <2>. HIDE DEF T, L
  <2>1. \A k \in 1 .. L + 1 : k \in T
    BY <1>0, <1>1, <1>2, AllNumbers
  <2>. QED  BY <1>0, <2>1
<1>4. PICK f : f = [m \in 1 .. L + 1 |-> One(f, m)] /\ f \in [1 .. L + 1 -> Nat]
  <2>1. PICK f : Upto(L + 1, f)
    BY <1>0, <1>3
  <2>2. f = [m \in 1 .. L + 1 |-> One(f, m)]
    BY <2>1
  <2>. QED  BY <2>1, <2>2
<1>. DEFINE chosen == CHOOSE f_ : f_ = [m \in 1 .. L + 1 |-> One(f_, m)]
<1>5. chosen = [m \in 1 .. L + 1 |-> One(chosen, m)]
  BY <1>4
<1>6. FirstDay = chosen
  BY Zenon DEF FirstDay
<1>. HIDE DEF chosen
<1>7. /\ FirstDay[1] = 1
      /\ \A m \in 1 .. L : FirstDay[m + 1] = FirstDay[m] + MonthLengths[m]
      /\ DOMAIN FirstDay = 1 .. L + 1
  <2>1. \A m \in 1 .. L + 1 : FirstDay[m] = One(FirstDay, m)
    BY <1>5, <1>6
  <2>2. 1 \in 1 .. L + 1 /\ \A m \in 1 .. L : m + 1 \in 1 .. L + 1 /\ m + 1 # 1 /\ m + 1 - 1 = m
    BY <1>0
  <2>3. \A m \in 1 .. L : FirstDay[m + 1] = FirstDay[m] + MonthLengths[m]
    BY <2>1, <2>2
  <2>4. FirstDay[1] = 1
    BY <2>1, <2>2
  <2>. QED  BY <1>5, <1>6, <2>3, <2>4
<1>. DEFINE R == {m \in 1 .. L + 1 : FirstDay[m] \in Nat}
<1>8. \A m \in 1 .. L + 1 : m \in R
  <2>1. 1 \in R
    BY <1>0, <1>7
  <2>2. ASSUME NEW m \in 1 .. L + 1, m < L + 1, m \in R
        PROVE  m + 1 \in R
    <3>1. m \in 1 .. L /\ m + 1 \in 1 .. L + 1
      BY <1>0, <2>2
    <3>. QED  BY <1>0, <1>7, <2>2, <3>1
  <2>. HIDE DEF R, L
  <2>. QED  BY <1>0, <2>1, <2>2, AllNumbers
<1>9. FirstDay \in [1 .. L + 1 -> Nat]
  <2>1. FirstDay = [m \in 1 .. L + 1 |-> FirstDay[m]]
    BY <1>5, <1>6
  <2>. QED  BY <1>8, <2>1
<1>. QED  BY <1>0, <1>7, <1>9

\* Months follow one another.
LEMMA FirstDaysGrow ==
    ASSUME NEW m \in Firsts, NEW n \in Firsts, m < n
    PROVE  FirstDay[m] < FirstDay[n]
<1>. DEFINE L == Len(MonthLengths)
            R == {k \in Firsts : m < k => FirstDay[m] < FirstDay[k]}
<1>0. /\ L \in Nat /\ L + 1 \in Nat /\ Firsts = 1 .. L + 1 /\ Months = 1 .. L
      /\ \A k \in 1 .. L : MonthLengths[k] \in Nat \ {0}
  BY CreditsAssumption DEF Months, Firsts
<1>1. 1 \in R
  BY <1>0
<1>2. ASSUME NEW k \in 1 .. L + 1, k < L + 1, k \in R
      PROVE  k + 1 \in R
  <2>1. k \in 1 .. L /\ k + 1 \in Firsts /\ k \in Firsts
    BY <1>0, <1>2
  <2>2. FirstDay[k + 1] = FirstDay[k] + MonthLengths[k]
    BY <1>0, <2>1, FirstDayMeans
  <2>3. FirstDay[k] \in Nat /\ FirstDay[m] \in Nat /\ MonthLengths[k] \in Nat \ {0}
    BY <1>0, <2>1, FirstDayMeans
  <2>4. FirstDay[k] < FirstDay[k + 1]
    BY <2>2, <2>3
  <2>5. m < k + 1 => m < k \/ m = k
    BY <1>0, <2>1
  <2>6. FirstDay[k + 1] \in Nat
    BY <2>1, FirstDayMeans
  <2>7. m < k => FirstDay[m] < FirstDay[k]
    BY <1>2
  <2>. QED  BY <2>1, <2>3, <2>4, <2>5, <2>6, <2>7
<1>3. \A k \in 1 .. L + 1 : k \in R
  <2>. HIDE DEF R, L
  <2>. QED  BY <1>0, <1>1, <1>2, AllNumbers
<1>. QED  BY <1>0, <1>3

\* Every day lies in one month, and the next two months are in the calendar.
LEMMA MonthFound ==
    ASSUME NEW d \in 1 .. LastDay
    PROVE  /\ MonthOf(d) \in 1 .. Len(MonthLengths) - 2
           /\ FirstDay[MonthOf(d)] <= d /\ d < FirstDay[MonthOf(d) + 1]
<1>. DEFINE L == Len(MonthLengths)
            D == {m \in Firsts : d < FirstDay[m]}
<1>0. L \in Nat /\ L > 2 /\ Firsts = 1 .. L + 1 /\ Months = 1 .. L /\ L - 1 \in Firsts
  BY CreditsAssumption DEF Months, Firsts
<1>1. FirstDay \in [Firsts -> Nat] /\ FirstDay[1] = 1
  BY FirstDayMeans
<1>2. LastDay \in Int /\ d \in Nat /\ d >= 1 /\ d < FirstDay[L - 1]
  BY <1>0, <1>1 DEF LastDay
<1>3. D \in SUBSET Nat /\ D # {}
  BY <1>0, <1>2
<1>4. PICK n \in D : \A j \in D : n <= j
  <2>. HIDE DEF D
  <2>. QED  BY <1>3, Least
<1>5. n \in Firsts /\ n # 1 /\ n - 1 \in Months /\ n - 1 \in Firsts /\ n - 1 + 1 = n /\ ~(n <= n - 1)
  BY <1>0, <1>1, <1>2
<1>6. n - 1 \notin D /\ FirstDay[n - 1] <= d /\ d < FirstDay[n]
  <2>1. n - 1 \notin D
    BY <1>4, <1>5
  <2>2. FirstDay[n - 1] \in Nat
    BY <1>1, <1>5
  <2>. QED  BY <1>2, <1>5, <2>1, <2>2
<1>. DEFINE c == MonthOf(d)
<1>7. c \in Months /\ FirstDay[c] <= d /\ d < FirstDay[c + 1]
  <2>1. \E m \in Months : FirstDay[m] <= d /\ d < FirstDay[m + 1]
    BY <1>5, <1>6
  <2>. QED  BY <2>1 DEF MonthOf
<1>. HIDE DEF c
<1>8. c < L - 1
  <2>. SUFFICES ASSUME ~(c < L - 1) PROVE FALSE
    OBVIOUS
  <2>1. c \in Firsts /\ (c = L - 1 \/ L - 1 < c)
    BY <1>0, <1>7
  <2>2. FirstDay[L - 1] <= FirstDay[c] /\ FirstDay[c] \in Nat /\ FirstDay[L - 1] \in Nat
    <3>1. FirstDay[c] \in Nat /\ FirstDay[L - 1] \in Nat
      BY <1>0, <1>1, <2>1
    <3>2. L - 1 < c => FirstDay[L - 1] < FirstDay[c]
      BY <1>0, <2>1, FirstDaysGrow
    <3>. QED  BY <2>1, <3>1, <3>2
  <2>. QED  BY <1>2, <1>7, <2>2
<1>9. c \in 1 .. L - 2
  BY <1>0, <1>7, <1>8
<1>. QED  BY <1>7, <1>9 DEF c

\* The day a reset leads to is after today, within the calendar, and the next
\* month's first unless today has no counterpart in that month.
LEMMA NextResetMeans ==
    ASSUME NEW d \in 1 .. LastDay
    PROVE  /\ NextReset(d) \in 1 .. FirstDay[Len(MonthLengths)] /\ d < NextReset(d)
           /\ MonthEnd(d) \in 1 .. FirstDay[Len(MonthLengths)]
           /\ ~Overhangs(d) => NextReset(d) = MonthEnd(d)
<1>. DEFINE L == Len(MonthLengths)
            c == MonthOf(d)
<1>0. L \in Nat /\ L > 2 /\ Firsts = 1 .. L + 1
  BY CreditsAssumption DEF Firsts
<1>1. FirstDay \in [Firsts -> Nat] /\ c \in 1 .. L - 2 /\ d < FirstDay[c + 1] /\ d \in Nat /\ d >= 1
  <2>1. LastDay \in Int
    BY <1>0, FirstDayMeans DEF LastDay
  <2>2. d \in Nat /\ d >= 1
    BY <2>1
  <2>. QED  BY <2>2, FirstDayMeans, MonthFound
<1>. HIDE DEF c
<1>2. /\ c + 1 \in Firsts /\ c + 2 \in Firsts /\ L \in Firsts
      /\ c + 1 < c + 2 /\ c + 1 < L /\ (c + 2 < L \/ c + 2 = L)
  BY <1>0, <1>1
<1>3. FirstDay[c + 1] < FirstDay[c + 2] /\ FirstDay[c + 1] < FirstDay[L]
      /\ FirstDay[c + 2] <= FirstDay[L]
  <2>1. FirstDay[c + 1] < FirstDay[c + 2] /\ FirstDay[c + 1] < FirstDay[L]
    BY <1>2, FirstDaysGrow
  <2>2. c + 2 < L => FirstDay[c + 2] < FirstDay[L]
    BY <1>2, FirstDaysGrow
  <2>3. FirstDay[c + 2] \in Nat /\ FirstDay[L] \in Nat
    BY <1>1, <1>2
  <2>. QED  BY <1>2, <2>1, <2>2, <2>3
<1>4. FirstDay[c + 1] \in Nat /\ FirstDay[c + 2] \in Nat /\ FirstDay[L] \in Nat
  BY <1>1, <1>2
<1>5. /\ NextReset(d) = (IF Overhangs(d) THEN FirstDay[c + 2] ELSE FirstDay[c + 1])
      /\ MonthEnd(d) = FirstDay[c + 1]
  BY DEF NextReset, MonthEnd, c
<1>. QED  BY <1>1, <1>3, <1>4, <1>5

\* A later day is not in an earlier month.
LEMMA MonthEndGrows ==
    ASSUME NEW d \in 1 .. LastDay, NEW e \in 1 .. LastDay, d <= e
    PROVE  MonthEnd(d) <= MonthEnd(e)
<1>. DEFINE b == MonthOf(d)
            c == MonthOf(e)
<1>0. Len(MonthLengths) \in Nat /\ LastDay \in Int /\ FirstDay \in [Firsts -> Nat]
  BY CreditsAssumption, FirstDayMeans, SMTT(40) DEF LastDay, Firsts
<1>1. /\ b \in 1 .. Len(MonthLengths) - 2 /\ FirstDay[b] <= d
      /\ c \in 1 .. Len(MonthLengths) - 2 /\ e < FirstDay[c + 1]
  BY MonthFound
<1>. HIDE DEF b, c
<1>2. b \in Firsts /\ b + 1 \in Firsts /\ c + 1 \in Firsts
  BY <1>0, <1>1 DEF Firsts
<1>3. /\ FirstDay[b] \in Nat /\ FirstDay[b + 1] \in Nat /\ FirstDay[c + 1] \in Nat
      /\ d \in Int /\ e \in Int
  BY <1>0, <1>2
<1>4. ~(c + 1 < b) /\ c + 1 # b
  <2>1. c + 1 < b => FirstDay[c + 1] < FirstDay[b]
    BY <1>2, FirstDaysGrow
  <2>. QED  BY <1>1, <1>3, <2>1
<1>5. b + 1 < c + 1 \/ b + 1 = c + 1
  BY <1>1, <1>4
<1>6. FirstDay[b + 1] <= FirstDay[c + 1]
  <2>1. b + 1 < c + 1 => FirstDay[b + 1] < FirstDay[c + 1]
    BY <1>2, FirstDaysGrow
  <2>. QED  BY <1>3, <1>5, <2>1
<1>. QED  BY <1>6 DEF MonthEnd, b, c
-----------------------------------------------------------------------------
(* The account.                                                            *)

\* What a step may do to the account and the day.
AccountStep ==
    \/ /\ UNCHANGED <<account, spent, renewedEarly, overhang>>
       /\ today' = today \/ (today < LastDay /\ today' = today + 1)
    \/ ResetMonthly /\ today' = today /\ (Exists \/ \E r \in Requests : req[r].at = "reset")
    \/ /\ UNCHANGED <<today, spent, renewedEarly, overhang>>
       /\ \E l \in Limits :
             \/ account' = IF Exists THEN account ELSE [limit |-> l, used |-> 0, resetAt |-> MonthEnd(today)]
             \/ Exists /\ account' = [account EXCEPT !.limit = l]
    \/ /\ Exists /\ account.limit - account.used >= 1
       /\ account' = [account EXCEPT !.used = @ + 1]
       /\ spent' = (IF renewedEarly THEN spent ELSE spent + 1)
       /\ UNCHANGED <<today, renewedEarly, overhang>>

LEMMA AccountSteps == [Next]_vars => AccountStep
<1>. SUFFICES ASSUME [Next]_vars  PROVE AccountStep
  OBVIOUS
<1>1. ASSUME NEW r \in Requests,
             Arrive(r) \/ Die(r) \/ Lookup(r) \/ CallFailed(r) \/ NoDetails(r) \/ Store(r) \/ Mark(r)
      PROVE  AccountStep
  BY <1>1 DEF AccountStep, Arrive, Die, Lookup, CallFailed, NoDetails, Store, Mark, History
<1>2. ASSUME NEW r \in Requests, Account(r)
      PROVE  AccountStep
  <2>1. CASE BalanceRead(r)
    BY <2>1 DEF BalanceRead, AccountStep, History
  <2>2. CASE BalanceReset(r)
    BY <2>2 DEF BalanceReset, AccountStep, Failed, NoReset
  <2>3. CASE GrantMonthly(r)
    BY <2>3 DEF GrantMonthly, AccountStep, Failed, NoReset
  <2>. QED  BY <1>2, <2>1, <2>2, <2>3 DEF Account
<1>3. ASSUME NEW r \in Requests, Pay(r)
      PROVE  AccountStep
  <2>1. CASE Spend(r, Done(r))
    BY <2>1 DEF Spend, AccountStep
  <2>2. CASE DebitFailed(r, Done(r)) \/ Record(r, "call")
    BY <2>2 DEF DebitFailed, Record, AccountStep, History
  <2>. QED  BY <1>3, <2>1, <2>2 DEF Pay
<1>4. ASSUME NEW k \in Kinds, RecordScan(k) \/ Age(k)
      PROVE  AccountStep
  BY <1>4 DEF RecordScan, Age, AccountStep, creditVars
<1>5. CASE Administer
  BY <1>5 DEF Administer, Ensure, UpdateTier, NextDay, AccountStep, History
<1>6. CASE UNCHANGED vars
  BY <1>6 DEF vars, creditVars, AccountStep
<1>. QED  BY <1>1, <1>2, <1>3, <1>4, <1>5, <1>6 DEF Next

\* The account after a step, without what it says of requests.
LEMMA AccountKept ==
    ASSUME IInv, AccountStep
    PROVE  /\ account' \in [limit : Limits \cup {0}, used : Nat, resetAt : 0 .. FirstDay[Len(MonthLengths)]]
           /\ today' \in 1 .. LastDay /\ spent' \in Nat
           /\ Exists' => account'.limit \in Limits /\ account'.resetAt # 0
           /\ Exists => Exists'
           /\ AllowanceKept' /\ ResetNextMonth'
<1>. DEFINE Row == [limit : Limits \cup {0}, used : Nat, resetAt : 0 .. FirstDay[Len(MonthLengths)]]
            F == FirstDay[Len(MonthLengths)]
<1>0. /\ account \in Row /\ today \in 1 .. LastDay /\ spent \in Nat
      /\ Exists => account.limit \in Limits /\ account.resetAt # 0
      /\ AllowanceKept /\ ResetNextMonth
      /\ Limits # {} /\ Limits \subseteq Nat
  BY CreditsAssumption DEF IInv, LedgerAgrees, TypeOK, HistoryTyped, Founded
<1>1. F \in Nat /\ LastDay \in Int
  <2>1. Len(MonthLengths) \in Firsts /\ Len(MonthLengths) - 1 \in Firsts
    BY CreditsAssumption DEF Firsts
  <2>. QED  BY <2>1, FirstDayMeans DEF LastDay
<1>2. MonthEnd(today) \in 1 .. F /\ NextReset(today) \in 1 .. F /\ today < NextReset(today)
      /\ (~Overhangs(today) => NextReset(today) = MonthEnd(today))
  BY <1>0, NextResetMeans
<1>3. CASE /\ UNCHANGED <<account, spent, renewedEarly, overhang>>
           /\ today' = today \/ (today < LastDay /\ today' = today + 1)
  <2>1. today' \in 1 .. LastDay /\ today <= today'
    BY <1>0, <1>1, <1>3
  <2>2. MonthEnd(today) <= MonthEnd(today') /\ MonthEnd(today') \in 1 .. F
    BY <1>0, <2>1, MonthEndGrows, NextResetMeans
  <2>3. AllowanceKept'
    BY <1>0, <1>3 DEF AllowanceKept
  <2>4. ResetNextMonth'
    <3>1. Exists /\ ~overhang => account.resetAt <= MonthEnd(today')
      BY <1>0, <1>1, <1>2, <2>2 DEF ResetNextMonth
    <3>2. MonthEnd(today)' = MonthEnd(today')
      BY DEF MonthEnd, MonthOf
    <3>. QED  BY <1>3, <3>1, <3>2 DEF ResetNextMonth, Exists
  <2>. QED  BY <1>0, <1>3, <2>1, <2>3, <2>4 DEF Exists
<1>4. CASE ResetMonthly /\ today' = today /\ (Exists \/ \E r \in Requests : req[r].at = "reset")
  <2>0. Exists
    BY <1>4 DEF IInv, Founded
  <2>1. /\ account' = [account EXCEPT !.used = 0, !.resetAt = NextReset(today)]
        /\ spent' = IF NextReset(today) = account.resetAt THEN spent ELSE 0
        /\ renewedEarly' = (renewedEarly \/ ~Due)
        /\ overhang' = (overhang \/ Overhangs(today))
    BY <1>4 DEF ResetMonthly
  <2>2. /\ account' \in Row /\ account'.used = 0 /\ account'.resetAt = NextReset(today)
        /\ account'.limit = account.limit /\ account'.resetAt # 0
    <3>. DEFINE n == NextReset(today)
    <3>1. n \in 0 .. F /\ n # 0 /\ account' = [account EXCEPT !.used = 0, !.resetAt = n]
      BY <1>1, <1>2, <2>1
    <3>. HIDE DEF n
    <3>2. /\ account' \in Row /\ account'.used = 0 /\ account'.resetAt = n
          /\ account'.limit = account.limit
      BY <1>0, <3>1
    <3>. QED  BY <3>1, <3>2 DEF n
  <2>3. AllowanceKept'
    <3>1. ~renewedEarly' => Due
      BY <2>1
    <3>2. Due => NextReset(today) # account.resetAt
      BY <1>0, <1>1, <1>2 DEF Due
    <3>3. \E l \in Limits : 0 <= l
      <4>1. PICK l \in Limits : l \in Nat
        BY <1>0
      <4>. QED  BY <4>1
    <3>. QED  BY <2>1, <2>2, <3>1, <3>2, <3>3 DEF AllowanceKept
  <2>4. ResetNextMonth'
    <3>1. ~overhang' => account'.resetAt <= MonthEnd(today)
      <4>1. ~overhang' => ~Overhangs(today)
        BY <2>1
      <4>2. NextReset(today) = MonthEnd(today) => NextReset(today) <= MonthEnd(today)
        BY <1>2
      <4>. QED  BY <1>2, <2>2, <4>1, <4>2
    <3>2. MonthEnd(today)' = MonthEnd(today)
      BY <1>4 DEF MonthEnd, MonthOf
    <3>. QED  BY <3>1, <3>2 DEF ResetNextMonth
  <2>5. Exists'
    BY <2>2 DEF Exists, NoAccount
  <2>. QED  BY <1>0, <1>4, <2>0, <2>1, <2>2, <2>3, <2>4, <2>5
<1>5. CASE /\ UNCHANGED <<today, spent, renewedEarly, overhang>>
           /\ \E l \in Limits :
             \/ account' = IF Exists THEN account ELSE [limit |-> l, used |-> 0, resetAt |-> MonthEnd(today)]
             \/ Exists /\ account' = [account EXCEPT !.limit = l]
  <2>0. MonthEnd(today)' = MonthEnd(today)
    BY <1>5 DEF MonthEnd, MonthOf
  <2>1. CASE account' = account
    BY <1>0, <1>5, <2>0, <2>1 DEF AllowanceKept, ResetNextMonth, Exists
  <2>2. ASSUME NEW l \in Limits, ~Exists,
               account' = [limit |-> l, used |-> 0, resetAt |-> MonthEnd(today)]
        PROVE  /\ account' \in Row /\ account'.limit \in Limits /\ account'.resetAt # 0
               /\ AllowanceKept' /\ ResetNextMonth' /\ Exists'
    <3>1. /\ account' \in Row /\ account'.limit = l /\ account'.used = 0
          /\ account'.resetAt = MonthEnd(today) /\ account'.resetAt # 0
      BY <1>0, <1>1, <1>2, <2>2
    <3>2. account.used = 0
      BY <2>2 DEF Exists, NoAccount
    <3>3. AllowanceKept'
      BY <1>0, <1>5, <3>1, <3>2 DEF AllowanceKept
    <3>4. ResetNextMonth'
      BY <1>1, <1>2, <2>0, <3>1 DEF ResetNextMonth
    <3>5. Exists'
      BY <3>1 DEF Exists, NoAccount
    <3>. QED  BY <3>1, <3>3, <3>4, <3>5
  <2>3. ASSUME NEW l \in Limits, Exists, account' = [account EXCEPT !.limit = l]
        PROVE  /\ account' \in Row /\ account'.limit \in Limits /\ account'.resetAt # 0
               /\ AllowanceKept' /\ ResetNextMonth' /\ Exists'
    <3>1. /\ account' \in Row /\ account'.limit = l /\ account'.used = account.used
          /\ account'.resetAt = account.resetAt /\ account'.resetAt # 0
      BY <1>0, <2>3
    <3>3. AllowanceKept'
      BY <1>0, <1>5, <3>1 DEF AllowanceKept
    <3>4. ResetNextMonth'
      BY <1>0, <1>5, <2>0, <2>3, <3>1 DEF ResetNextMonth
    <3>5. Exists'
      BY <3>1 DEF Exists, NoAccount
    <3>. QED  BY <3>1, <3>3, <3>4, <3>5
  <2>. QED  BY <1>0, <1>5, <2>1, <2>2, <2>3
<1>6. CASE /\ Exists /\ account.limit - account.used >= 1
           /\ account' = [account EXCEPT !.used = @ + 1]
           /\ spent' = (IF renewedEarly THEN spent ELSE spent + 1)
           /\ UNCHANGED <<today, renewedEarly, overhang>>
  <2>0. MonthEnd(today)' = MonthEnd(today)
    BY <1>6 DEF MonthEnd, MonthOf
  <2>1. /\ account' \in Row /\ account'.used = account.used + 1
        /\ account'.limit = account.limit /\ account'.resetAt = account.resetAt
    BY <1>0, <1>6
  <2>2. account.used \in Nat /\ account.limit \in Limits /\ account.limit \in Nat
    BY <1>0, <1>6
  <2>3. AllowanceKept'
    <3>1. account'.used <= account.limit
      BY <1>6, <2>1, <2>2
    <3>2. ~renewedEarly => account'.used = spent'
      BY <1>0, <1>6, <2>1 DEF AllowanceKept
    <3>. QED  BY <1>6, <2>2, <3>1, <3>2 DEF AllowanceKept
  <2>4. ResetNextMonth'
    BY <1>0, <1>6, <2>0, <2>1 DEF ResetNextMonth
  <2>5. Exists'
    BY <1>0, <1>6, <2>1 DEF Exists, NoAccount
  <2>6. spent' \in Nat
    BY <1>0, <1>6
  <2>. QED  BY <1>0, <1>6, <2>1, <2>2, <2>3, <2>4, <2>5, <2>6
<1>. QED  BY <1>3, <1>4, <1>5, <1>6 DEF AccountStep
-----------------------------------------------------------------------------
(* Requests and the ledger.                                                *)

\* One request goes on, alone.
Moved(r, kind, at) ==
    /\ req' \in [Requests -> Request]
    /\ req'[r].kind = kind /\ req'[r].at = at
    /\ \A q \in Requests \ {r} : req'[q] = req[q]

LEMMA GotoMoves ==
    ASSUME req \in [Requests -> Request], NEW r \in Requests, NEW at, Goto(r, at),
           at \in {"idle", "read", "reset", "grant", "lookup", "debit", "record", "call", "mark"}
    PROVE  Moved(r, Kind(r), at)
<1>1. req' = [req EXCEPT ![r].at = at] /\ req[r] \in Request
  BY DEF Goto
<1>2. req'[r] = [req[r] EXCEPT !.at = at] /\ \A q \in Requests \ {r} : req'[q] = req[q]
  BY <1>1
<1>3. req'[r] \in Request /\ req'[r].kind = req[r].kind /\ req'[r].at = at
  BY <1>1, <1>2 DEF Request
<1>4. req' \in [Requests -> Request]
  BY <1>1, <1>2, <1>3
<1>. QED  BY <1>2, <1>3, <1>4 DEF Moved, Kind

LEMMA DoneMoves ==
    ASSUME req \in [Requests -> Request], NEW r \in Requests, Done(r)
    PROVE  Moved(r, "none", "idle")
<1>1. req' = [req EXCEPT ![r] = Idle] /\ Idle \in Request /\ Idle.kind = "none" /\ Idle.at = "idle"
  BY DEF Done, Idle, Request
<1>. QED  BY <1>1 DEF Moved

\* What a step may do to the requests and to the ledger's counts.
LedgerStep ==
    \/ req' = req /\ UNCHANGED <<unrecorded, dropped>>
    \/ \E r \in Requests : \E kind, at :
          /\ Moved(r, kind, at)
          /\ at = "reset" => Exists /\ account' = account
          /\ \/ /\ at # "record" /\ req[r].at # "record"
                /\ UNCHANGED <<unrecorded, dropped>>
             \/ /\ at = "record" /\ req[r].at # "record"
                /\ unrecorded' = unrecorded + 1 /\ UNCHANGED dropped
             \/ /\ at # "record" /\ req[r].at = "record"
                /\ \/ unrecorded' = unrecorded - 1 /\ UNCHANGED dropped
                   \/ dropped' = dropped + 1 /\ UNCHANGED unrecorded

LEMMA LedgerSteps ==
    ASSUME req \in [Requests -> Request], dropped \in Nat, [Next]_vars
    PROVE  LedgerStep
<1>1. ASSUME NEW r \in Requests, Arrive(r)
      PROVE  LedgerStep
  <2>1. PICK k \in Kinds \cup {"balance", "grant"} :
            req' = [req EXCEPT ![r] = [kind |-> k, at |-> CASE k = "balance" -> "read"
                                                        [] k = "grant" -> "grant"
                                                        [] OTHER -> "lookup"]]
    BY <1>1 DEF Arrive
  <2>. DEFINE at == CASE k = "balance" -> "read" [] k = "grant" -> "grant" [] OTHER -> "lookup"
  <2>2. at \in {"read", "grant", "lookup"} /\ req[r].at = "idle" /\ UNCHANGED <<unrecorded, dropped>>
    BY <1>1 DEF Arrive, Idle, Kinds, History
  <2>3. Moved(r, k, at)
    <3>1. req' = [req EXCEPT ![r] = [kind |-> k, at |-> at]]
      BY <2>1
    <3>. HIDE DEF at
    <3>2. [kind |-> k, at |-> at] \in Request
      BY <2>2 DEF Request
    <3>. QED  BY <3>1, <3>2 DEF Moved
  <2>. HIDE DEF at
  <2>. QED  BY <2>2, <2>3 DEF LedgerStep
<1>2. ASSUME NEW r \in Requests, Account(r)
      PROVE  LedgerStep
  <2>1. /\ req[r].at \in {"read", "reset", "grant"} /\ UNCHANGED <<unrecorded, dropped>>
        /\ Done(r) \/ (Goto(r, "reset") /\ Exists /\ account' = account)
    BY <1>2 DEF Account, BalanceRead, BalanceReset, GrantMonthly, History
  <2>2. CASE Done(r)
    BY <2>1, <2>2, DoneMoves DEF LedgerStep
  <2>3. CASE Goto(r, "reset") /\ Exists /\ account' = account
    BY <2>1, <2>3, GotoMoves DEF LedgerStep
  <2>. QED  BY <2>1, <2>2, <2>3
<1>3. ASSUME NEW r \in Requests, Die(r)
      PROVE  LedgerStep
  <2>1. /\ Done(r) /\ UNCHANGED unrecorded
        /\ dropped' = dropped + (IF req[r].at = "record" THEN 1 ELSE 0)
    BY <1>3 DEF Die
  <2>2. Moved(r, "none", "idle")
    BY <2>1, DoneMoves
  <2>3. req[r].at # "record" => dropped' = dropped
    BY <2>1
  <2>. QED  BY <2>1, <2>2, <2>3 DEF LedgerStep
<1>4. ASSUME NEW r \in Requests,
             Lookup(r) \/ CallFailed(r) \/ NoDetails(r) \/ Store(r) \/ Mark(r) \/ DebitFailed(r, Done(r))
      PROVE  LedgerStep
  <2>1. /\ req[r].at \in {"lookup", "call", "mark", "debit"} /\ UNCHANGED <<unrecorded, dropped>>
        /\ Done(r) \/ Goto(r, "debit") \/ Goto(r, "mark")
    BY <1>4 DEF Lookup, CallFailed, NoDetails, Store, Mark, DebitFailed, History
  <2>2. CASE Done(r)
    BY <2>1, <2>2, DoneMoves DEF LedgerStep
  <2>3. CASE Goto(r, "debit")
    BY <2>1, <2>3, GotoMoves DEF LedgerStep
  <2>4. CASE Goto(r, "mark")
    BY <2>1, <2>4, GotoMoves DEF LedgerStep
  <2>. QED  BY <2>1, <2>2, <2>3, <2>4
<1>5. ASSUME NEW r \in Requests, Spend(r, Done(r))
      PROVE  LedgerStep
  <2>1. CASE unrecorded' = unrecorded + 1 /\ Goto(r, "record")
    BY <1>5, <2>1, GotoMoves DEF Spend, LedgerStep
  <2>2. CASE UNCHANGED <<account, spent, unrecorded>> /\ Done(r)
    BY <1>5, <2>2, DoneMoves DEF Spend, LedgerStep
  <2>. QED  BY <1>5, <2>1, <2>2 DEF Spend
<1>6. ASSUME NEW r \in Requests, Record(r, "call")
      PROVE  LedgerStep
  <2>1. Moved(r, Kind(r), "call")
    BY <1>6, GotoMoves DEF Record
  <2>. QED  BY <1>6, <2>1 DEF Record, LedgerStep
<1>7. CASE Administer \/ UNCHANGED vars
  BY <1>7 DEF Administer, Ensure, UpdateTier, NextDay, History, vars, creditVars, LedgerStep
<1>8. ASSUME NEW k \in Kinds, RecordScan(k) \/ Age(k)
      PROVE  LedgerStep
  BY <1>8 DEF RecordScan, Age, creditVars, LedgerStep
<1>. QED  BY <1>1, <1>2, <1>3, <1>4, <1>5, <1>6, <1>7, <1>8 DEF Next, Pay

\* The rows that requests still have to write, after one of them went on.
LEMMA WaitingMoves ==
    ASSUME req \in [Requests -> Request], NEW r \in Requests, NEW kind, NEW at, Moved(r, kind, at)
    PROVE  LET old == {q \in Requests : req[q].at = "record"}
               new == {q \in Requests : req'[q].at = "record"}
           IN  /\ Cardinality(old) \in Nat
               /\ (at = "record") = (req[r].at = "record") => Cardinality(new) = Cardinality(old)
               /\ at = "record" /\ req[r].at # "record" => Cardinality(new) = Cardinality(old) + 1
               /\ at # "record" /\ req[r].at = "record" => Cardinality(new) = Cardinality(old) - 1
<1>. DEFINE old == {q \in Requests : req[q].at = "record"}
            new == {q \in Requests : req'[q].at = "record"}
<1>1. IsFiniteSet(old) /\ old \subseteq Requests
  <2>1. old \subseteq Requests
    OBVIOUS
  <2>. QED  BY <2>1, CreditsAssumption, FS_Subset
<1>2. /\ at = "record" => new = old \cup {r}
      /\ at # "record" => new = old \ {r}
  BY DEF Moved
<1>3. (req[r].at = "record") = (r \in old)
  OBVIOUS
<1>. HIDE DEF old, new
<1>4. Cardinality(old) \in Nat
  BY <1>1, FS_CardinalityType
<1>5. /\ r \in old => old \cup {r} = old /\ Cardinality(old \ {r}) = Cardinality(old) - 1
      /\ r \notin old => old \ {r} = old /\ Cardinality(old \cup {r}) = Cardinality(old) + 1
  <2>1. r \in old => old \cup {r} = old
    OBVIOUS
  <2>2. r \notin old => old \ {r} = old
    OBVIOUS
  <2>3. r \in old => Cardinality(old \ {r}) = Cardinality(old) - 1
    BY <1>1, FS_RemoveElement
  <2>4. r \notin old => Cardinality(old \cup {r}) = Cardinality(old) + 1
    BY <1>1, FS_AddElement
  <2>. QED  BY <2>1, <2>2, <2>3, <2>4
<1>6. /\ (at = "record") = (req[r].at = "record") => Cardinality(new) = Cardinality(old)
      /\ at = "record" /\ req[r].at # "record" => Cardinality(new) = Cardinality(old) + 1
      /\ at # "record" /\ req[r].at = "record" => Cardinality(new) = Cardinality(old) - 1
  BY <1>2, <1>3, <1>5
<1>. QED  BY <1>4, <1>6 DEF old, new

\* The ledger's counts after a step.
LEMMA LedgerKept ==
    ASSUME IInv, LedgerStep, Exists => Exists'
    PROVE  /\ req' \in [Requests -> Request]
           /\ dropped' \in Nat /\ unrecorded' \in Int
           /\ ~Exists' => \A r \in Requests : req'[r].at # "reset"
           /\ unrecorded' = dropped' + Cardinality({r \in Requests : req'[r].at = "record"})
<1>0. /\ req \in [Requests -> Request] /\ dropped \in Nat /\ unrecorded \in Int
      /\ ~Exists => \A r \in Requests : req[r].at # "reset"
      /\ unrecorded = dropped + Cardinality({r \in Requests : req[r].at = "record"})
  BY DEF IInv, LedgerAgrees, TypeOK, HistoryTyped, Founded, Request
<1>1. CASE req' = req /\ UNCHANGED <<unrecorded, dropped>>
  BY <1>0, <1>1
<1>2. ASSUME NEW r \in Requests, NEW kind, NEW at,
             Moved(r, kind, at),
             at = "reset" => Exists /\ account' = account,
             \/ /\ at # "record" /\ req[r].at # "record"
                /\ UNCHANGED <<unrecorded, dropped>>
             \/ /\ at = "record" /\ req[r].at # "record"
                /\ unrecorded' = unrecorded + 1 /\ UNCHANGED dropped
             \/ /\ at # "record" /\ req[r].at = "record"
                /\ \/ unrecorded' = unrecorded - 1 /\ UNCHANGED dropped
                   \/ dropped' = dropped + 1 /\ UNCHANGED unrecorded
      PROVE  /\ req' \in [Requests -> Request]
             /\ dropped' \in Nat /\ unrecorded' \in Int
             /\ ~Exists' => \A q \in Requests : req'[q].at # "reset"
             /\ unrecorded' = dropped' + Cardinality({q \in Requests : req'[q].at = "record"})
  <2>. DEFINE old == Cardinality({q \in Requests : req[q].at = "record"})
              new == Cardinality({q \in Requests : req'[q].at = "record"})
  <2>1. /\ old \in Nat
        /\ (at = "record") = (req[r].at = "record") => new = old
        /\ at = "record" /\ req[r].at # "record" => new = old + 1
        /\ at # "record" /\ req[r].at = "record" => new = old - 1
    BY <1>0, <1>2, WaitingMoves
  <2>2. unrecorded = dropped + old
    BY <1>0
  <2>. HIDE DEF old, new
  <2>3. dropped' \in Nat /\ unrecorded' \in Int /\ unrecorded' = dropped' + new
    BY <1>0, <1>2, <2>1, <2>2
  <2>4. ~Exists' => \A q \in Requests : req'[q].at # "reset"
    BY <1>0, <1>2 DEF Moved
  <2>. QED  BY <1>2, <2>3, <2>4 DEF Moved, new
<1>. QED  BY <1>1, <1>2 DEF LedgerStep
-----------------------------------------------------------------------------
(* What is bought.                                                         *)

BuyerOf(k) ==
    ~bought[k].spoilt =>
        /\ \A q, r \in Looked(k) : q = r
        /\ bought[k].times = 0 \/ (bought[k].times = 1 /\ cache[k].fresh /\ Buying(k) = {})

LEMMA FaultsCounted == faults \in Nat /\ [Next]_vars => faults' \in Nat
<1>. SUFFICES ASSUME faults \in Nat, [Next]_vars  PROVE faults' = faults \/ faults' = faults + 1
  OBVIOUS
<1>1. ASSUME NEW r \in Requests,
             Arrive(r) \/ Die(r) \/ Lookup(r) \/ CallFailed(r) \/ NoDetails(r) \/ Store(r) \/ Mark(r)
      PROVE  faults' = faults \/ faults' = faults + 1
  BY <1>1 DEF Arrive, Die, Lookup, CallFailed, NoDetails, Store, Mark, Fault, NoFault
<1>2. ASSUME NEW r \in Requests, Account(r) \/ Pay(r)
      PROVE  faults' = faults \/ faults' = faults + 1
  BY <1>2 DEF Account, BalanceRead, BalanceReset, GrantMonthly, Pay, Spend, DebitFailed, Record, Failed,
              Fault, NoFault
<1>3. ASSUME NEW k \in Kinds, RecordScan(k) \/ Age(k)
      PROVE  faults' = faults
  BY <1>3 DEF RecordScan, Age, creditVars
<1>4. CASE Administer \/ UNCHANGED vars
  BY <1>4 DEF Administer, Ensure, UpdateTier, NextDay, vars, creditVars
<1>. QED  BY <1>1, <1>2, <1>3, <1>4 DEF Next

\* Nobody new has looked, nothing was bought.
LEMMA BuyerStays ==
    ASSUME NEW k \in Kinds, BuyerOf(k), bought'[k] = bought[k], cache[k].fresh => cache'[k].fresh,
           Looked(k)' \subseteq Looked(k), Buying(k)' \subseteq Buying(k)
    PROVE  BuyerOf(k)'
<1>. HIDE DEF Looked, Buying
<1>. QED  BY DEF BuyerOf

\* A request that goes on but is not one of those that look or buy now.
LEMMA LookedMoves ==
    ASSUME req \in [Requests -> Request], NEW k \in Kinds,
           NEW r \in Requests, NEW kind, NEW at, Moved(r, kind, at),
           kind = k /\ at # "lookup" => r \in Looked(k),
           kind = k /\ at \in {"debit", "record", "call"} => r \in Buying(k)
    PROVE  Looked(k)' \subseteq Looked(k) /\ Buying(k)' \subseteq Buying(k)
<1>1. \A q \in Requests \ {r} : /\ q \in Looked(k)' <=> q \in Looked(k)
                                /\ q \in Buying(k)' <=> q \in Buying(k)
  BY DEF Moved, Looked, Buying, Kind
<1>2. r \in Looked(k)' => r \in Looked(k)
  BY DEF Moved, Looked, Kind
<1>3. r \in Buying(k)' => r \in Buying(k)
  BY DEF Moved, Looked, Buying, Kind
<1>4. Looked(k)' \subseteq Requests /\ Buying(k)' \subseteq Requests
  BY DEF Looked, Buying
<1>. QED  BY <1>1, <1>2, <1>3, <1>4

\* The look into the cache: without a mishap nobody else has looked before, and
\* what is fresh is not bought.
LEMMA LookupKept ==
    ASSUME req \in [Requests -> Request], HistoryTyped, OneBuyer, NEW k \in Kinds,
           NEW r \in Requests, Lookup(r)
    PROVE  BuyerOf(k)'
<1>0. /\ BuyerOf(k) /\ req[r].at = "lookup" /\ bought \in [Kinds -> [times : Nat, spoilt : BOOLEAN]]
      /\ UNCHANGED cache
      /\ bought' = [bought EXCEPT ![Kind(r)].spoilt =
                     @ \/ (faults' # faults)
                       \/ (\E q \in Requests \ {r} : Kind(q) = Kind(r) /\ req[q].at # "lookup")]
  BY DEF OneBuyer, BuyerOf, Lookup, HistoryTyped
<1>1. CASE Kind(r) # k
  <2>1. bought'[k] = bought[k]
    BY <1>0, <1>1
  <2>2. \E kind, at : Moved(r, kind, at) /\ kind # k
    <3>1. CASE Done(r)
      BY <3>1, DoneMoves DEF Kinds
    <3>2. CASE Goto(r, "debit")
      BY <1>1, <3>2, GotoMoves
    <3>. QED  BY <3>1, <3>2 DEF Lookup
  <2>3. Looked(k)' \subseteq Looked(k) /\ Buying(k)' \subseteq Buying(k)
    BY <2>2, LookedMoves
  <2>. QED  BY <1>0, <2>1, <2>3, BuyerStays
<1>2. CASE Kind(r) = k
  <2>. SUFFICES ASSUME ~bought'[k].spoilt
                PROVE  /\ \A q, p \in Looked(k)' : q = p
                       /\ \/ bought'[k].times = 0
                          \/ (bought'[k].times = 1 /\ cache'[k].fresh /\ Buying(k)' = {})
    BY DEF BuyerOf
  <2>1. /\ ~bought[k].spoilt /\ faults' = faults /\ bought'[k].times = bought[k].times
        /\ ~\E q \in Requests \ {r} : Kind(q) = k /\ req[q].at # "lookup"
    <3>1. bought'[k] = [bought[k] EXCEPT !.spoilt =
                     @ \/ (faults' # faults)
                       \/ (\E q \in Requests \ {r} : Kind(q) = k /\ req[q].at # "lookup")]
      BY <1>0, <1>2
    <3>2. bought[k] \in [times : Nat, spoilt : BOOLEAN]
      BY <1>0
    <3>. DEFINE b == bought[k].spoilt \/ (faults' # faults)
                       \/ (\E q \in Requests \ {r} : Kind(q) = k /\ req[q].at # "lookup")
    <3>3. bought'[k].spoilt = b /\ bought'[k].times = bought[k].times
      <4>1. bought'[k] = [bought[k] EXCEPT !.spoilt = b]
        BY <3>1
      <4>. HIDE DEF b
      <4>. QED  BY <3>2, <4>1
    <3>. QED  BY <3>3
  <2>2. Looked(k) = {}
    BY <1>0, <2>1 DEF Looked
  <2>3. Buying(k) = {}
    BY <2>2 DEF Buying
  <2>4. CASE cache[k].fresh
    <3>1. Done(r)
      <4>1. ~(faults' = faults + 1)
        BY <2>1 DEF HistoryTyped
      <4>. QED  BY <1>2, <2>4, <4>1 DEF Lookup, Fault
    <3>2. Looked(k)' \subseteq Looked(k) /\ Buying(k)' \subseteq Buying(k)
      BY <3>1, DoneMoves, LookedMoves DEF Kinds
    <3>. QED  BY <1>0, <2>1, <2>2, <2>3, <2>4, <3>2 DEF BuyerOf
  <2>5. CASE ~cache[k].fresh
    <3>1. bought'[k].times = 0
      BY <1>0, <2>1, <2>5 DEF BuyerOf
    <3>2. \A q \in Looked(k)' : q = r
      <4>1. \E kind, at : Moved(r, kind, at)
        BY DoneMoves, GotoMoves DEF Lookup
      <4>2. \A q \in Requests \ {r} : q \in Looked(k)' <=> q \in Looked(k)
        BY <4>1 DEF Moved, Looked, Kind
      <4>. QED  BY <2>2, <4>2 DEF Looked
    <3>. QED  BY <3>1, <3>2
  <2>. QED  BY <2>4, <2>5
<1>. QED  BY <1>1, <1>2

\* What is stored is the answer of the only request that bought.
LEMMA StoreKept ==
    ASSUME req \in [Requests -> Request], HistoryTyped, OneBuyer, NEW k \in Kinds,
           cache \in [Kinds -> [known : BOOLEAN, fresh : BOOLEAN]],
           NEW r \in Requests, Store(r)
    PROVE  BuyerOf(k)'
<1>0. /\ BuyerOf(k) /\ req[r].at = "call" /\ bought \in [Kinds -> [times : Nat, spoilt : BOOLEAN]]
  BY DEF OneBuyer, BuyerOf, Store, HistoryTyped
<1>1. Moved(r, Kind(r), "mark")
  BY GotoMoves DEF Store
<1>2. Looked(k)' \subseteq Looked(k) /\ Buying(k)' \subseteq Buying(k)
  <2>1. Kind(r) = k => r \in Looked(k)
    BY <1>0 DEF Looked
  <2>. QED  BY <1>1, <2>1, LookedMoves
<1>3. CASE Kind(r) # k
  <2>1. bought'[k] = bought[k] /\ cache'[k] = cache[k]
    <3>1. /\ cache' = cache \/ cache' = [cache EXCEPT ![Kind(r)] = Stored]
          /\ \/ bought' = [bought EXCEPT ![Kind(r)].times = @ + 1]
             \/ bought' = [bought EXCEPT ![Kind(r)].spoilt = TRUE]
      BY DEF Store, Spoil
    <3>2. cache'[k] = cache[k]
      BY <1>3, <3>1
    <3>3. bought'[k] = bought[k]
      BY <1>0, <1>3, <3>1
    <3>. QED  BY <3>2, <3>3
  <2>. QED  BY <1>0, <1>2, <2>1, BuyerStays
<1>4. CASE Kind(r) = k /\ bought'[k].spoilt
  BY <1>4 DEF BuyerOf
<1>5. CASE Kind(r) = k /\ ~bought'[k].spoilt
  <2>1. /\ cache' = [cache EXCEPT ![k] = Stored]
        /\ bought' = [bought EXCEPT ![k].times = @ + 1]
    <3>1. bought' = [bought EXCEPT ![k].spoilt = TRUE] => bought'[k].spoilt
      BY <1>0
    <3>. QED  BY <1>5, <3>1 DEF Store, Spoil
  <2>2. /\ bought'[k].times = bought[k].times + 1 /\ ~bought[k].spoilt /\ bought[k].times \in Nat
        /\ cache'[k].fresh
    BY <1>0, <1>5, <2>1 DEF Stored
  <2>3. r \in Looked(k) /\ r \in Buying(k)
    BY <1>0, <1>5 DEF Looked, Buying
  <2>4. bought'[k].times = 1 /\ \A q \in Looked(k) : q = r
    BY <1>0, <2>2, <2>3 DEF BuyerOf
  <2>5. Buying(k)' = {}
    <3>1. \A q \in Buying(k)' : q = r
      BY <1>2, <2>4 DEF Buying
    <3>2. r \notin Buying(k)'
      BY <1>1 DEF Moved, Buying
    <3>. QED  BY <3>1, <3>2
  <2>. QED  BY <1>2, <2>2, <2>4, <2>5 DEF BuyerOf
<1>. QED  BY <1>3, <1>4, <1>5

LEMMA BuyersKept ==
    ASSUME IInv, [Next]_vars, req' \in [Requests -> Request]
    PROVE  /\ OneBuyer'
           /\ cache' \in [Kinds -> [known : BOOLEAN, fresh : BOOLEAN]]
           /\ gating' \in {"unknown", "brand_gated"}
           /\ bought' \in [Kinds -> [times : Nat, spoilt : BOOLEAN]]
<1>. DEFINE Types == /\ cache' \in [Kinds -> [known : BOOLEAN, fresh : BOOLEAN]]
                     /\ gating' \in {"unknown", "brand_gated"}
                     /\ bought' \in [Kinds -> [times : Nat, spoilt : BOOLEAN]]
<1>0. /\ req \in [Requests -> Request] /\ HistoryTyped /\ OneBuyer
      /\ cache \in [Kinds -> [known : BOOLEAN, fresh : BOOLEAN]]
      /\ gating \in {"unknown", "brand_gated"}
      /\ bought \in [Kinds -> [times : Nat, spoilt : BOOLEAN]]
  BY DEF IInv, LedgerAgrees, TypeOK, HistoryTyped, Request
<1>1. \A k \in Kinds : BuyerOf(k)
  BY <1>0 DEF OneBuyer, BuyerOf
<1>2. ASSUME UNCHANGED <<cache, bought>>, NEW r \in Requests, NEW kind, NEW at, Moved(r, kind, at),
             \A k \in Kinds : /\ kind = k /\ at # "lookup" => r \in Looked(k)
                              /\ kind = k /\ at \in {"debit", "record", "call"} => r \in Buying(k)
      PROVE  \A k \in Kinds : BuyerOf(k)'
  <2>. SUFFICES ASSUME NEW k \in Kinds  PROVE BuyerOf(k)'
    OBVIOUS
  <2>1. Looked(k)' \subseteq Looked(k) /\ Buying(k)' \subseteq Buying(k)
    BY <1>0, <1>2, LookedMoves
  <2>. QED  BY <1>1, <1>2, <2>1, BuyerStays
<1>3. ASSUME UNCHANGED req, NEW k \in Kinds, bought'[k] = bought[k],
             cache[k].fresh => cache'[k].fresh
      PROVE  BuyerOf(k)'
  <2>1. Looked(k)' = Looked(k) /\ Buying(k)' = Buying(k)
    BY <1>3 DEF Looked, Buying, Kind
  <2>. QED  BY <1>1, <1>3, <2>1, BuyerStays
<1>4. ASSUME NEW r \in Requests, Arrive(r)
      PROVE  Types /\ \A k \in Kinds : BuyerOf(k)'
  <2>1. PICK k \in Kinds \cup {"balance", "grant"} :
            req' = [req EXCEPT ![r] = [kind |-> k, at |-> CASE k = "balance" -> "read"
                                                        [] k = "grant" -> "grant"
                                                        [] OTHER -> "lookup"]]
    BY <1>4 DEF Arrive
  <2>. DEFINE at == CASE k = "balance" -> "read" [] k = "grant" -> "grant" [] OTHER -> "lookup"
  <2>2. /\ k \in Kinds => at = "lookup"
        /\ UNCHANGED <<cache, gating, bought>>
    BY <1>4 DEF Arrive, Kinds, Catalogs
  <2>3. Moved(r, k, at)
    <3>1. req' = [req EXCEPT ![r] = [kind |-> k, at |-> at]]
      BY <2>1
    <3>. HIDE DEF at
    <3>. QED  BY <1>0, <3>1 DEF Moved
  <2>. HIDE DEF at
  <2>. QED  BY <1>0, <1>2, <2>2, <2>3
<1>5. ASSUME NEW r \in Requests, UNCHANGED <<cache, bought>>, Done(r)
      PROVE  \A k \in Kinds : BuyerOf(k)'
  <2>1. Moved(r, "none", "idle") /\ "none" \notin Kinds
    BY <1>0, <1>5, DoneMoves DEF Kinds
  <2>. QED  BY <1>2, <1>5, <2>1
<1>6. ASSUME NEW r \in Requests, UNCHANGED <<cache, bought>>, NEW at, Goto(r, at),
             \/ req[r].at = "read" /\ at = "reset"
             \/ req[r].at = "debit" /\ at = "record"
             \/ req[r].at = "record" /\ at = "call"
      PROVE  \A k \in Kinds : BuyerOf(k)'
  <2>1. Moved(r, Kind(r), at)
    BY <1>0, <1>6, GotoMoves
  <2>2. \A k \in Kinds : /\ Kind(r) = k => r \in Looked(k)
                         /\ Kind(r) = k /\ at # "reset" => r \in Buying(k)
    BY <1>6 DEF Looked, Buying
  <2>3. at \in {"record", "call", "reset"}
    BY <1>6
  <2>. QED  BY <1>2, <1>6, <2>1, <2>2, <2>3
<1>7. ASSUME NEW r \in Requests, Account(r) \/ Pay(r) \/ Mark(r)
      PROVE  Types /\ \A k \in Kinds : BuyerOf(k)'
  <2>1. Types /\ UNCHANGED <<cache, bought>>
    BY <1>0, <1>7 DEF Account, Pay, Mark, Catalogs
  <2>2. \/ Done(r)
        \/ req[r].at = "read" /\ Goto(r, "reset")
        \/ req[r].at = "debit" /\ Goto(r, "record")
        \/ req[r].at = "record" /\ Goto(r, "call")
    BY <1>7 DEF Account, Pay, Mark, BalanceRead, BalanceReset, GrantMonthly, Spend, DebitFailed, Record
  <2>. QED  BY <1>5, <1>6, <2>1, <2>2
<1>8. ASSUME NEW r \in Requests, Die(r) \/ CallFailed(r) \/ NoDetails(r)
      PROVE  Types /\ \A k \in Kinds : BuyerOf(k)'
  <2>1. /\ UNCHANGED <<cache, gating>> /\ Done(r)
        /\ \/ bought' = bought
           \/ bought' = [bought EXCEPT ![Kind(r)].spoilt = TRUE]
    BY <1>8 DEF Die, CallFailed, NoDetails, Spoil
  <2>2. bought' \in [Kinds -> [times : Nat, spoilt : BOOLEAN]]
    BY <1>0, <2>1, ZenonT(60)
  <2>3. ASSUME NEW k \in Kinds  PROVE BuyerOf(k)'
    <3>1. bought'[k].spoilt \/ bought'[k] = bought[k]
      BY <1>0, <2>1
    <3>2. CASE bought'[k].spoilt
      BY <3>2 DEF BuyerOf
    <3>3. CASE bought'[k] = bought[k]
      <4>1. Looked(k)' \subseteq Looked(k) /\ Buying(k)' \subseteq Buying(k)
        BY <1>0, <2>1, DoneMoves, LookedMoves DEF Kinds
      <4>. QED  BY <1>1, <2>1, <3>3, <4>1, BuyerStays
    <3>. QED  BY <3>1, <3>2, <3>3
  <2>. QED  BY <1>0, <2>1, <2>2, <2>3
<1>9. ASSUME NEW r \in Requests, Lookup(r)
      PROVE  Types /\ \A k \in Kinds : BuyerOf(k)'
  <2>1. bought' \in [Kinds -> [times : Nat, spoilt : BOOLEAN]]
    <3>. DEFINE b == bought[Kind(r)].spoilt \/ (faults' # faults)
                       \/ (\E q \in Requests \ {r} : Kind(q) = Kind(r) /\ req[q].at # "lookup")
    <3>1. bought' = [bought EXCEPT ![Kind(r)].spoilt = b] /\ b \in BOOLEAN
      BY <1>9 DEF Lookup
    <3>. HIDE DEF b
    <3>. QED  BY <1>0, <3>1
  <2>. QED  BY <1>0, <1>9, <2>1, LookupKept DEF Lookup
<1>10. ASSUME NEW r \in Requests, Store(r)
       PROVE  Types /\ \A k \in Kinds : BuyerOf(k)'
  <2>1. Types
    <3>1. /\ cache' = cache \/ cache' = [cache EXCEPT ![Kind(r)] = Stored]
          /\ \/ bought' = [bought EXCEPT ![Kind(r)].times = @ + 1]
             \/ bought' = [bought EXCEPT ![Kind(r)].spoilt = TRUE]
          /\ gating' = gating
      BY <1>10 DEF Store, Spoil
    <3>. DEFINE k == Kind(r)
                B == [times : Nat, spoilt : BOOLEAN]
    <3>2. cache' \in [Kinds -> [known : BOOLEAN, fresh : BOOLEAN]]
      <4>1. Stored \in [known : BOOLEAN, fresh : BOOLEAN]
        BY DEF Stored
      <4>2. cache' = cache \/ cache' = [cache EXCEPT ![k] = Stored]
        BY <3>1
      <4>. HIDE DEF k
      <4>. QED  BY <1>0, <4>1, <4>2
    <3>3. bought' \in [Kinds -> B]
      <4>1. \/ bought' = [bought EXCEPT ![k] = [bought[k] EXCEPT !.times = @ + 1]]
            \/ bought' = [bought EXCEPT ![k] = [bought[k] EXCEPT !.spoilt = TRUE]]
        BY <3>1
      <4>. HIDE DEF k
      <4>2. k \in Kinds => /\ [bought[k] EXCEPT !.times = @ + 1] \in B
                           /\ [bought[k] EXCEPT !.spoilt = TRUE] \in B
        <5>. DEFINE b == bought[k]
                    n == b.times + 1
        <5>1. k \in Kinds => b \in B /\ n \in Nat
          BY <1>0
        <5>. HIDE DEF b, n
        <5>2. b \in B /\ n \in Nat => [b EXCEPT !.times = n] \in B /\ [b EXCEPT !.spoilt = TRUE] \in B
          OBVIOUS
        <5>. QED  BY <5>1, <5>2 DEF b, n
      <4>. HIDE DEF B
      <4>3. bought \in [Kinds -> B]
        BY <1>0 DEF B
      <4>. QED  BY <4>1, <4>2, <4>3
    <3>. QED  BY <1>0, <3>1, <3>2, <3>3
  <2>. QED  BY <1>0, <1>10, <2>1, StoreKept
<1>11. ASSUME NEW k \in Kinds, RecordScan(k)
       PROVE  Types /\ \A j \in Kinds : BuyerOf(j)'
  <2>1. /\ Types /\ UNCHANGED <<req, bought>>
        /\ \A j \in Kinds : cache[j].fresh => cache'[j].fresh
    BY <1>0, <1>11 DEF RecordScan, Stored, creditVars
  <2>. QED  BY <1>3, <2>1
<1>12. ASSUME NEW k \in Kinds, Age(k)
       PROVE  Types /\ \A j \in Kinds : BuyerOf(j)'
  <2>. DEFINE b == \E r \in Requests : Kind(r) = k
  <2>1. /\ UNCHANGED <<req, gating>>
        /\ cache' = [cache EXCEPT ![k].fresh = FALSE]
        /\ bought' = [bought EXCEPT ![k] = [times |-> 0, spoilt |-> b]] /\ b \in BOOLEAN
    BY <1>12 DEF Age, creditVars
  <2>2. Types /\ bought'[k].times = 0 /\ bought'[k].spoilt = b
    <3>. HIDE DEF b
    <3>. QED  BY <1>0, <2>1
  <2>3. BuyerOf(k)'
    <3>1. ~b => Looked(k)' = {}
      BY <2>1 DEF Looked, Kind
    <3>. QED  BY <2>2, <3>1 DEF BuyerOf
  <2>4. ASSUME NEW j \in Kinds, j # k  PROVE BuyerOf(j)'
    BY <1>0, <1>3, <2>1, <2>4
  <2>. QED  BY <2>2, <2>3, <2>4
<1>13. ASSUME Administer \/ UNCHANGED vars
       PROVE  Types /\ \A k \in Kinds : BuyerOf(k)'
  <2>1. UNCHANGED <<req, cache, gating, bought>>
    BY <1>13 DEF Administer, Ensure, UpdateTier, NextDay, Catalogs, vars, creditVars
  <2>2. \A k \in Kinds : bought'[k] = bought[k] /\ cache'[k] = cache[k]
    BY <2>1
  <2>3. \A k \in Kinds : BuyerOf(k)'
    BY <1>3, <2>1, <2>2
  <2>4. Types
    BY <1>0, <2>1
  <2>. QED  BY <2>3, <2>4
<1>. HIDE DEF Types
<1>14. Types /\ \A k \in Kinds : BuyerOf(k)'
  BY <1>4, <1>7, <1>8, <1>9, <1>10, <1>11, <1>12, <1>13 DEF Next
<1>15. (\A k \in Kinds : BuyerOf(k)') => OneBuyer'
  BY DEF OneBuyer, BuyerOf
<1>. QED  BY <1>14, <1>15 DEF Types
-----------------------------------------------------------------------------
(* The invariant and what it shows.                                        *)

LEMMA InitIInv == Init => IInv
<1>. SUFFICES ASSUME Init  PROVE IInv
  OBVIOUS
<1>1. /\ account = NoAccount /\ today = 1 /\ req = [r \in Requests |-> Idle]
      /\ faults = 0 /\ spent = 0 /\ unrecorded = 0 /\ dropped = 0
      /\ cache = [k \in Kinds |-> Unknown] /\ gating = "unknown"
      /\ bought = [k \in Kinds |-> Nothing]
  BY DEF Init, CreditsInit
<1>2. LastDay \in Int /\ 1 \in 1 .. LastDay /\ FirstDay[Len(MonthLengths)] \in Nat
  <2>. DEFINE n == Len(MonthLengths) - 1
  <2>1. 1 \in Firsts /\ n \in Firsts /\ Len(MonthLengths) \in Firsts /\ 1 < n
    BY CreditsAssumption DEF Firsts
  <2>. HIDE DEF n
  <2>2. FirstDay[1] < FirstDay[n] /\ FirstDay[1] = 1 /\ FirstDay[n] \in Nat
        /\ FirstDay[Len(MonthLengths)] \in Nat
    BY <2>1, FirstDayMeans, FirstDaysGrow
  <2>. QED  BY <2>2 DEF LastDay, n
<1>3. TypeOK
  BY <1>1, <1>2 DEF TypeOK, NoAccount, Idle, Unknown
<1>4. HistoryTyped /\ OneBuyer
  <2>1. \A k \in Kinds : Looked(k) = {}
    BY <1>1 DEF Looked, Kind, Idle, Kinds
  <2>. QED  BY <1>1, <2>1 DEF HistoryTyped, OneBuyer, Nothing
<1>5. Founded /\ ResetNextMonth
  BY <1>1 DEF Founded, ResetNextMonth, Exists, Idle
<1>6. AllowanceKept
  <2>1. PICK l \in Limits : l \in Nat
    BY CreditsAssumption
  <2>. QED  BY <1>1, <2>1 DEF AllowanceKept, NoAccount
<1>7. LedgerAgrees
  <2>1. {r \in Requests : req[r].at = "record"} = {}
    BY <1>1 DEF Idle
  <2>. QED  BY <1>1, <1>3, <2>1, FS_EmptySet DEF LedgerAgrees
<1>. QED  BY <1>4, <1>5, <1>6, <1>7 DEF IInv

LEMMA NextIInv == IInv /\ [Next]_vars => IInv'
<1>. SUFFICES ASSUME IInv, [Next]_vars  PROVE IInv'
  OBVIOUS
<1>1. req \in [Requests -> Request] /\ dropped \in Nat
  BY DEF IInv, LedgerAgrees, TypeOK, HistoryTyped, Request
<1>2. AccountStep /\ LedgerStep
  BY <1>1, AccountSteps, LedgerSteps
<1>3. /\ account' \in [limit : Limits \cup {0}, used : Nat, resetAt : 0 .. FirstDay[Len(MonthLengths)]]
      /\ today' \in 1 .. LastDay /\ spent' \in Nat
      /\ Exists' => account'.limit \in Limits /\ account'.resetAt # 0
      /\ Exists => Exists'
      /\ AllowanceKept' /\ ResetNextMonth'
  BY <1>2, AccountKept
<1>4. /\ req' \in [Requests -> Request]
      /\ dropped' \in Nat /\ unrecorded' \in Int
      /\ ~Exists' => \A r \in Requests : req'[r].at # "reset"
      /\ unrecorded' = dropped' + Cardinality({r \in Requests : req'[r].at = "record"})
  BY <1>2, <1>3, LedgerKept
<1>5. /\ OneBuyer'
      /\ cache' \in [Kinds -> [known : BOOLEAN, fresh : BOOLEAN]]
      /\ gating' \in {"unknown", "brand_gated"}
      /\ bought' \in [Kinds -> [times : Nat, spoilt : BOOLEAN]]
  BY <1>4, BuyersKept
<1>6. HistoryTyped' /\ Founded'
  BY <1>3, <1>4, <1>5, FaultsCounted DEF IInv, HistoryTyped, Founded
<1>7. LedgerAgrees'
  BY <1>3, <1>4, <1>5 DEF LedgerAgrees, TypeOK, Request
<1>. QED  BY <1>3, <1>5, <1>6, <1>7 DEF IInv

THEOREM Invariance == Spec => []IInv
BY InitIInv, NextIInv, PTL DEF Spec

\* However requests, resets and changes of tier overlap, no debit is lost and
\* the account never says more was used than some tier allows, unless a reset
\* ran that was not due any more (Spend, GetBalance, ResetMonthly).
THEOREM AllowanceHolds == Spec => []AllowanceKept
<1>1. IInv => AllowanceKept
  BY DEF IInv
<1>. QED  BY <1>1, Invariance, PTL

\* The variables keep their types, and a debit without a row in the ledger is
\* one whose row is about to be written, failed or died with its request.
THEOREM LedgerHolds == Spec => []LedgerAgrees
<1>1. IInv => LedgerAgrees
  BY DEF IInv
<1>. QED  BY <1>1, Invariance, PTL

\* In any calendar the next reset is at the latest on the first of the next
\* month, unless a reset ran on a day that the next month lacks (AddDate).
THEOREM ResetsInTime == Spec => []ResetNextMonth
<1>1. IInv => ResetNextMonth
  BY DEF IInv
<1>. QED  BY <1>1, Invariance, PTL

\* While it is fresh an answer is bought once, unless two requests looked before
\* either stored, or the answer was not stored (EnrichProduct, CheckEligibility).
THEOREM AnswersBoughtOnce == Spec => []BoughtOnce
<1>1. IInv => BoughtOnce
  BY DEF IInv, OneBuyer, BoughtOnce
<1>. QED  BY <1>1, Invariance, PTL
=============================================================================
