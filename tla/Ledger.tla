--------------------------------- MODULE Ledger ---------------------------------
(***************************************************************************)
(* The double-entry journal: apps/billing/ledger.py.  A journal entry is   *)
(* its external key and its lines, a line the amount by which it debits    *)
(* (above zero) or credits (below) an account.  Entries are immutable.     *)
(***************************************************************************)
EXTENDS Integers, FiniteSets

VARIABLE journal    \* the journal entries

\* DEFAULT_ACCOUNTS
Accounts == {"1010", "1020", "1100", "1150", "2100", "4000", "4100", "4200", "5100"}

Lines == [Accounts -> Int]

\* A row of the journal.  Nothing updates or deletes one.
IsJournalEntry(j) == DOMAIN j = {"key", "lines"} /\ j.lines \in Lines

\* The lines that debit one account and credit another.
Moves(debit, credit, amount) ==
    [a \in Accounts |-> IF a = debit THEN amount ELSE IF a = credit THEN -amount ELSE 0]

Posted(key) == \E j \in journal : j.key = key

\* post_balanced_journal: a key that is known keeps the entry it has.
PostJournal(rows) == journal' = journal \cup {j \in rows : ~Posted(j.key)}
=============================================================================
