------------------------------- MODULE Credits -------------------------------
(***************************************************************************)
(* The credit account of one tenant (credit_service.go, credit_repo.go):   *)
(* a monthly limit, what was used of it, the day of the next reset, and a  *)
(* ledger.  Every statement of a request is an action, so requests         *)
(* interleave; the debit alone is atomic with its check.  Reading the      *)
(* balance renews an account whose reset is due, by a decision taken on    *)
(* the row read before.                                                    *)
(*                                                                         *)
(* The calendar is a sequence of months of a few days each.  One request   *)
(* costs one credit.                                                       *)
(***************************************************************************)
EXTENDS Integers, Sequences, FiniteSets

CONSTANTS
    Requests,      \* requests that may be under way at once
    Limits,        \* monthly limits of the tiers
    MonthLengths,  \* days of each month of the calendar
    MaxFaults      \* bound: failures in one history

ASSUME CreditsAssumption ==
    /\ IsFiniteSet(Requests)
    /\ Limits # {} /\ Limits \subseteq Nat
    /\ MonthLengths \in Seq(Nat \ {0}) /\ Len(MonthLengths) > 2
    /\ MaxFaults \in Nat

VARIABLES
    account,       \* credit_accounts: the row or NoAccount
    today,         \* the day
    req,           \* the requests
    faults,        \* failures so far
    spent,         \* history: credits debited since reset_at last changed, until renewedEarly
    unrecorded,    \* history: debits without a row in the ledger
    dropped,       \* history: ledger rows that failed, which no request is about to write
    renewedEarly,  \* history: an account was reset whose reset was not due
    overhang       \* history: a reset ran on a day of the month that the next month lacks

creditVars == <<account, today, req, faults, spent, unrecorded, dropped, renewedEarly, overhang>>
History == <<spent, unrecorded, dropped, renewedEarly, overhang>>

NoAccount == [limit |-> 0, used |-> 0, resetAt |-> 0]
Idle == [at |-> "idle", kind |-> "none"]

-----------------------------------------------------------------------------
(* The calendar.                                                           *)

Months == DOMAIN MonthLengths
FirstDay[m \in 1 .. Len(MonthLengths) + 1] ==
    IF m = 1 THEN 1 ELSE FirstDay[m - 1] + MonthLengths[m - 1]
MonthOf(d) == CHOOSE m \in Months : FirstDay[m] <= d /\ d < FirstDay[m + 1]
DayOfMonth(d) == d - FirstDay[MonthOf(d)] + 1

\* The last two months only serve as the next ones of the others.
LastDay == FirstDay[Len(MonthLengths) - 1] - 1
Overhangs(d) == DayOfMonth(d) > MonthLengths[MonthOf(d) + 1]

\* One slip, used by nothing: the first day of a month is taken for an overhang.
NextResetLate(d) == FirstDay[MonthOf(d) + (IF Overhangs(d) \/ DayOfMonth(d) = 1 THEN 2 ELSE 1)]

\* AddDate(0, 1, 0) carries a day that the next month lacks into the month after.
NextReset(d) == FirstDay[MonthOf(d) + (IF Overhangs(d) THEN 2 ELSE 1)]

\* date_trunc('month', now()) + interval '1 month', for a new account.
MonthEnd(d) == FirstDay[MonthOf(d) + 1]

CreditsInit ==
    /\ account = NoAccount
    /\ today = 1
    /\ req = [r \in Requests |-> Idle]
    /\ faults = 0
    /\ spent = 0 /\ unrecorded = 0 /\ dropped = 0
    /\ renewedEarly = FALSE /\ overhang = FALSE

Fault == faults < MaxFaults /\ faults' = faults + 1
NoFault == UNCHANGED faults
Exists == account # NoAccount
Due == today >= account.resetAt
Goto(r, at) == req' = [req EXCEPT ![r].at = at]
Done(r) == req' = [req EXCEPT ![r] = Idle]

-----------------------------------------------------------------------------
(* Variants with one slip in each, used by nothing.                        *)

\* An account that exists is set up again.
EnsureAfresh(limit) ==
    /\ account' = [limit |-> limit, used |-> 0, resetAt |-> MonthEnd(today)]
    /\ UNCHANGED <<today, req, faults, History>>
\* A debit that failed is written to the ledger all the same.
DebitFailedRecorded(r, refused) ==
    /\ req[r].at = "debit"
    /\ Fault /\ Goto(r, "record")
    /\ UNCHANGED <<account, today, History>>

-----------------------------------------------------------------------------
(* The account.                                                            *)

\* EnsureAccount, when the server starts.
Ensure(limit) ==
    /\ account' = IF Exists THEN account
                  ELSE [limit |-> limit, used |-> 0, resetAt |-> MonthEnd(today)]
    /\ UNCHANGED <<today, req, faults, History>>

UpdateTier(limit) ==
    /\ Exists
    /\ account' = [account EXCEPT !.limit = limit]
    /\ UNCHANGED <<today, req, faults, History>>

NextDay ==
    /\ today < LastDay
    /\ today' = today + 1
    /\ UNCHANGED <<account, req, faults, History>>

\* ResetMonthly, whoever runs it, looks at nothing.
ResetMonthly ==
    /\ account' = [account EXCEPT !.used = 0, !.resetAt = NextReset(today)]
    /\ spent' = IF NextReset(today) = account.resetAt THEN spent ELSE 0
    /\ renewedEarly' = (renewedEarly \/ ~Due)
    /\ overhang' = (overhang \/ Overhangs(today))

NoReset == UNCHANGED <<account, spent, renewedEarly, overhang>>
Failed == Fault /\ NoReset

\* GetBalance: read, reset if the row read was due, read again.  Without a row it fails.
BalanceRead(r) ==
    /\ req[r].at = "read"
    /\ IF Exists /\ Due THEN Goto(r, "reset") ELSE Done(r)
    /\ UNCHANGED <<account, today, faults, History>>

BalanceReset(r) ==
    /\ req[r].at = "reset"
    /\ (ResetMonthly /\ NoFault) \/ Failed
    /\ Done(r)
    /\ UNCHANGED <<today, unrecorded, dropped>>

\* GrantMonthly: reset, then a ledger row of the limit, which debits do not concern.
GrantMonthly(r) ==
    /\ req[r].at = "grant"
    /\ \/ Exists /\ ResetMonthly /\ NoFault
       \/ ~Exists /\ NoReset /\ NoFault
       \/ Failed
    /\ Done(r)
    /\ UNCHANGED <<today, unrecorded, dropped>>

\* Spend, first statement: debit one credit if one is left.  Next: where a paid
\* request goes on after the ledger's row.
Spend(r, refused) ==
    /\ req[r].at = "debit"
    /\ IF Exists /\ account.limit - account.used >= 1
       THEN /\ account' = [account EXCEPT !.used = @ + 1]
            /\ spent' = (IF renewedEarly THEN spent ELSE spent + 1) /\ unrecorded' = unrecorded + 1
            /\ Goto(r, "record")
       ELSE /\ UNCHANGED <<account, spent, unrecorded>>
            /\ refused
    /\ UNCHANGED <<today, faults, dropped, renewedEarly, overhang>>

DebitFailed(r, refused) ==
    /\ req[r].at = "debit"
    /\ Fault /\ refused
    /\ UNCHANGED <<account, today, History>>

\* Second statement: the row of the ledger, whose error is dropped.
Record(r, next) ==
    /\ req[r].at = "record"
    /\ \/ unrecorded' = unrecorded - 1 /\ UNCHANGED dropped /\ NoFault
       \/ dropped' = dropped + 1 /\ UNCHANGED unrecorded /\ Fault
    /\ Goto(r, next)
    /\ UNCHANGED <<account, today, spent, renewedEarly, overhang>>
=============================================================================
