------------------------------ MODULE AuditChain ------------------------------
(***************************************************************************)
(* The chained audit log: apps/frontend/models.py (AuditLog,               *)
(* AuditChainHead) and apps/frontend/audit.py.                             *)
(*                                                                         *)
(* An event is appended inside whatever transaction its caller has open:   *)
(* the head is locked from the first append until that transaction ends.   *)
(* A verification locks nothing; it reads the log in one query and the     *)
(* head in another.  The hash of a row determines the row and all rows     *)
(* before it: it is modelled by the events it stands for, in their order.  *)
(***************************************************************************)
EXTENDS Staff, Integers, Sequences

CONSTANTS
    Events,      \* what a row says: its actor, action, target and details
    Writers,     \* database connections that append
    LogBound     \* bound: no append begins on a longer log

ASSUME AuditAssumption == LogBound \in Nat

VARIABLES
    log,         \* AuditLog rows that are committed, by primary key
    head,        \* AuditChainHead
    writer,      \* what each open transaction has read of the head and will write
    verifying    \* a verification: the rows it has read, and its verdict

auditVars == <<log, head, writer, verifying>>

-----------------------------------------------------------------------------
(* Rows *)

ZeroHash == <<>>    \* ZERO_HASH
AuditRow == [sequence : Nat, previous : Seq(Events), hash : Seq(Events)]
HeadRow == [sequence : Nat, hash : Seq(Events)]

NoWriter == [locked |-> FALSE, head |-> [sequence |-> 0, hash |-> ZeroHash], rows |-> <<>>]
NoVerdict == [rows |-> {}, verdict |-> "none"]

AuditTypeOK ==
    /\ log \in Seq(AuditRow)
    /\ head \in HeadRow
    /\ writer \in [Writers -> [locked : BOOLEAN, head : HeadRow, rows : Seq(AuditRow)]]
    /\ \A row \in verifying.rows : row \in AuditRow
    /\ verifying.verdict \in {"none", "reading", "valid", "mismatch"}

AuditInit ==
    /\ log = <<>>
    /\ head = [sequence |-> 0, hash |-> ZeroHash]
    /\ writer = [w \in Writers |-> NoWriter]
    /\ verifying = NoVerdict

-----------------------------------------------------------------------------
(* Appending *)

HeadFree(w) == \A o \in Writers \ {w} : ~writer[o].locked

\* The row that follows a head.
Chained(h, event) == [sequence |-> h.sequence + 1, previous |-> h.hash,
                      hash |-> Append(h.hash, event)]
HeadAt(row) == [sequence |-> row.sequence, hash |-> row.hash]

\* AuditLog.save, once or more in a transaction; it reads its own writes.
AppendEvent(w, event) ==
    LET read == IF writer[w].locked THEN writer[w].head ELSE head
        row == Chained(read, event)
    IN  /\ HeadFree(w)
        /\ Len(log) + Len(writer[w].rows) < LogBound
        /\ writer' = [writer EXCEPT ![w] = [locked |-> TRUE, head |-> HeadAt(row),
                                            rows |-> Append(@.rows, row)]]
        /\ UNCHANGED <<log, head, verifying>>

\* The transaction of the caller commits; `sequence` and `event_hash` are unique.
CommitAppends(w) ==
    /\ writer[w].locked
    /\ \A m \in DOMAIN log, n \in DOMAIN writer[w].rows :
          /\ log[m].sequence # writer[w].rows[n].sequence
          /\ log[m].hash # writer[w].rows[n].hash
    /\ log' = log \o writer[w].rows
    /\ head' = writer[w].head
    /\ writer' = [writer EXCEPT ![w] = NoWriter]
    /\ UNCHANGED verifying

\* Mutant: the head is saved in a transaction of its own.
Mut_RollBackAppends(w) ==
    /\ writer[w].locked
    /\ writer' = [writer EXCEPT ![w] = NoWriter]
    /\ head' = writer[w].head
    /\ UNCHANGED <<log, verifying>>
\* The caller fails after its event was recorded, or the insert does.
RollBackAppends(w) ==
    /\ writer[w].locked
    /\ writer' = [writer EXCEPT ![w] = NoWriter]
    /\ UNCHANGED <<log, head, verifying>>

\* AuthenticatedMutationAuditMiddleware, after the view: in a transaction of its own,
\* and a failure is only logged.
AuditRequest(w) == ~writer[w].locked /\ \E event \in Events : AppendEvent(w, event)

-----------------------------------------------------------------------------
(* Verification *)

\* Row n continues the rows before it, and says so itself.
Continues(rows, n) ==
    \E row \in rows :
        /\ row.sequence = n
        /\ row.previous = IF n = 1 THEN ZeroHash
                          ELSE (CHOOSE r \in rows : r.sequence = n - 1).hash
        /\ Len(row.hash) = n /\ SubSeq(row.hash, 1, n - 1) = row.previous

\* What verify_audit_chain asks of the rows and the head.
Verifies(rows, h) ==
    /\ {row.sequence : row \in rows} = 1 .. h.sequence
    /\ \A n \in 1 .. h.sequence : Continues(rows, n)
    /\ IF rows = {} THEN h.hash = ZeroHash
       ELSE \E row \in rows : row.sequence = h.sequence /\ row.hash = h.hash

Rows == {log[n] : n \in DOMAIN log}

ReadLog ==
    /\ verifying.verdict # "reading"
    /\ verifying' = [rows |-> Rows, verdict |-> "reading"]
    /\ UNCHANGED <<log, head, writer>>

ReadHead ==
    /\ verifying.verdict = "reading"
    /\ verifying' = [verifying EXCEPT !.verdict =
                        IF Verifies(verifying.rows, head) THEN "valid" ELSE "mismatch"]
    /\ UNCHANGED <<log, head, writer>>

AuditNext ==
    \/ \E w \in Writers :
          \/ \E event \in Events : AppendEvent(w, event)
          \/ AuditRequest(w)
          \/ CommitAppends(w) \/ RollBackAppends(w)
    \/ ReadLog \/ ReadHead

AuditSpec == AuditInit /\ [][AuditNext]_auditVars

-----------------------------------------------------------------------------
(* Properties *)

\* However transactions that append overlap, fail and commit, the committed log
\* verifies against the head at every moment, with no gap where one was rolled back;
\* and a mismatch is only reported when an event was committed since the log was read.
ChainHolds ==
    /\ Verifies(Rows, head)
    /\ verifying.verdict = "mismatch" => verifying.rows # Rows
=============================================================================
