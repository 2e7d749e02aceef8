--------------------------- MODULE VersionJournal ---------------------------
(***************************************************************************)
(* What the strategy component promises of its history, whatever requests  *)
(* run concurrently and wherever they stop (domain/strategy.go:24-25 and   *)
(* the header of migration 013): "Every change creates a new version.      *)
(* Rollback creates a copy of an old version", and a version is an         *)
(* "immutable snapshot".                                                   *)
(*                                                                         *)
(* The journal holds the immutable part of each version; its status is     *)
(* not part of the promise.  StrategyVersions implements this module.      *)
(***************************************************************************)
EXTENDS Naturals, Sequences

CONSTANT Contents    \* goals, search parameters and scoring configuration

VARIABLE journal     \* the versions of one tenant, oldest first

Snapshot == [number : Nat \ {0}, content : Contents, parent : Nat]

JournalInit == journal = <<>>

\* A version written from an assessment: the next number, no parent.
Record(c) ==
    journal' = Append(journal, [number |-> Len(journal) + 1, content |-> c, parent |-> 0])

\* A rollback: the next number, and the content of the version it names.
RecordCopy(p) ==
    journal' = Append(journal,
                      [number  |-> Len(journal) + 1,
                       content |-> journal[p].content,
                       parent  |-> p])

JournalNext ==
    \/ \E c \in Contents : Record(c)
    \/ \E p \in DOMAIN journal : RecordCopy(p)

JournalSpec == JournalInit /\ [][JournalNext]_journal
=============================================================================
