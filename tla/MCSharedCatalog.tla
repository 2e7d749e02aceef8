--------------------------- MODULE MCSharedCatalog ---------------------------
(* SharedCatalog for TLC: a calendar with a month that lacks the last day of the one before. *)
EXTENDS SharedCatalog, TLC

MCMonthLengths == <<2, 1, 1, 2>>
Symmetry == Permutations(Requests)

TypeOK ==
    /\ account \in [limit : Limits \cup {0}, used : Nat, resetAt : 0 .. FirstDay[Len(MonthLengths)]]
    /\ today \in 1 .. LastDay
    /\ req \in [Requests -> [kind : Kinds \cup {"none", "balance", "grant"},
                             at : {"idle", "read", "reset", "grant", "lookup", "debit", "record", "call", "mark"}]]
    /\ cache \in [Kinds -> [known : BOOLEAN, fresh : BOOLEAN]]
    /\ gating \in {"unknown", "brand_gated"}

\* What the account says was used is what was debited since its last reset, and
\* never more than a tier's limit: requests that debit, renew the account or
\* change its tier at the same time neither lose a debit nor spend beyond the
\* limit, as long as no reset ran that was not due any more, which happens when
\* two look at a due balance at once (credit_service.go:31-45, credit_repo.go:44-72).
AllowanceKept ==
    ~renewedEarly =>
        /\ account.used = spent
        /\ \E l \in Limits : account.used <= l

\* Every debit has its row in the ledger, but for the requests between the two
\* statements and for the rows whose error was dropped or whose server died
\* (credit_service.go:60-79).
LedgerAgrees ==
    /\ TypeOK
    /\ unrecorded = dropped + Cardinality({r \in Requests : req[r].at = "record"})

\* The next reset is never later than the first day of the next month, unless a
\* reset ran on a day of the month that the next month lacks: AddDate carries it
\* into the month after (credit_repo.go:63-64).
ResetNextMonth == Exists /\ ~overhang => account.resetAt <= MonthEnd(today)

\* An answer is bought once while it is fresh, unless a second request looked
\* before the first one stored its answer, or an answer was not stored
\* (shared_catalog_service.go:49-107, 112-163).
BoughtOnce == \A k \in Kinds : ~bought[k].spoilt => bought[k].times <= 1
=============================================================================
