---------------------------- MODULE OutboxProofs -----------------------------
(***************************************************************************)
(* Theorems about Outbox, for every set of messages, processes and webhook *)
(* calls and any number of attempts and crashes.                           *)
(***************************************************************************)
EXTENDS Outbox, TLAPS

-----------------------------------------------------------------------------
(* The inductive invariant *)

Unsent == {"queued", "deferred"}

\* A process holds the row of the message it sends: no other process has it, and
\* nothing else writes its status.
RowsLocked ==
    /\ \A p \in Senders : /\ sender[p].stage # "sending" => sender[p].now = None
                          /\ sender[p].now = None => sender[p].answer = "none"
    /\ \A p, q \in Senders : (p # q /\ sender[p].now = sender[q].now) => sender[p].now = None
    /\ \A p \in Senders : sender[p].now # None => msg[sender[p].now].status \in Unsent

\* The provider has answered for a message, and the answer is not committed.
Answered(m) == \E p \in Senders : sender[p].now = m /\ sender[p].answer # "none"

\* Each hand-over is an attempt on record, one to be recorded, or lost with its process.
Budget ==
    \A m \in Messages : ~msg[m].linked =>
        /\ msg[m].attempts <= MaxAttempts
        /\ msg[m].status \in Unsent \cup {"none"} => msg[m].attempts < MaxAttempts
        /\ \/ calls[m] <= msg[m].attempts + crashes
           \/ Answered(m) /\ calls[m] <= msg[m].attempts + crashes + 1

\* The provider has reported the message as deferred.
Deferred(m) == \E x \in Happening : x[1] = m /\ applied[x] > 0 /\ StatusOf[x[2]] = "deferred"

\* An accepted message is open again only after such a report.
Excused ==
    \A m \in Messages : msg[m].linked =>
        msg[m].status # "none" /\ (msg[m].status \in Unsent => Deferred(m))

\* An event that is stored is applied by the call that stored it.
Once ==
    /\ \A x \in Happening : x \notin seen => applied[x] = 0
    /\ \A h \in Hooks : hook[h].stage = "status" =>
          /\ hook[h].event \in seen /\ applied[hook[h].event] = 0
          /\ hook[h].found => msg[hook[h].event[1]].linked
    /\ \A h, k \in Hooks : (h # k /\ hook[h].stage = "status" /\ hook[k].stage = "status")
                           => hook[h].event # hook[k].event

IInv == TypeOK /\ RowsLocked /\ Budget /\ Excused /\ Once /\ EventAppliedOnce

-----------------------------------------------------------------------------
(* The tables of the webhook *)

LEMMA StatusTable ==
    \A e \in DOMAIN StatusOf :
        StatusOf[e] \in {"delivered", "deferred", "bounced", "complained", "failed"}
  BY DEF StatusOf

LEMMA ReasonTable ==
    \A e \in DOMAIN ReasonOf :
        ReasonOf[e] \in {"hard_bounce", "invalid", "complaint", "unsubscribe"}
  BY DEF ReasonOf

-----------------------------------------------------------------------------
(* Steps of the processes *)

SenderRow == [stage : {"idle", "reading", "sending", "failed"}, batch : SUBSET Messages,
              now : Messages \cup {None},
              answer : {"none", "accepted", "transient", "permanent"}, job : BOOLEAN]

LEMMA IdleRow == Idle \in SenderRow
  BY DEF Idle, SenderRow

\* A process that has no answer to record may do anything but call the provider.
LEMMA Unanswered ==
    ASSUME IInv, NEW p \in Senders, NEW r \in SenderRow,
           sender' = [sender EXCEPT ![p] = r],
           sender[p].answer = "none", r.answer = "none",
           r.now = None \/ (r.stage = "sending" /\ r.now = sender[p].now),
           UNCHANGED <<msg, webhook, crashes, calls>>
    PROVE  /\ sender' \in [Senders -> SenderRow]
           /\ RowsLocked' /\ Budget' /\ Excused' /\ Once' /\ EventAppliedOnce'
<1> USE DEF IInv
<1>1. sender \in [Senders -> SenderRow]
  BY DEF TypeOK, SenderRow
<1>2. sender' \in [Senders -> SenderRow] /\ sender'[p] = r
      /\ \A q \in Senders \ {p} : sender'[q] = sender[q]
  BY <1>1
<1>3. UNCHANGED <<msg, seen, hook, applied, crashes, calls>>
  BY DEF webhook
<1>4. RowsLocked'
  BY <1>2, <1>3 DEF RowsLocked
<1>5. \A m : Answered(m) => Answered(m)'
  BY <1>2 DEF Answered
<1>6. Budget'
  BY <1>3, <1>5 DEF Budget
<1>7. Excused' /\ EventAppliedOnce'
  BY <1>3 DEF Excused, Deferred, EventAppliedOnce
<1>8. Once'
  BY <1>3 DEF Once
<1> QED BY <1>2, <1>4, <1>6, <1>7, <1>8

\* What the type invariant says of everything but the processes.
RestOK ==
    /\ msg \in [Messages -> [status : MessageStatus \cup {"none"}, attempts : Nat,
                             next : {"null", "later", "due"}, linked : BOOLEAN]]
    /\ suppression \in {"none", "manual", "unsubscribe", "complaint", "hard_bounce", "invalid"}
    /\ job \in [enabled : BOOLEAN, due : BOOLEAN, lock : Senders \cup {None}, stale : BOOLEAN,
                failures : Nat]
    /\ taken \in SUBSET Messages
    /\ emitted \in SUBSET Happening /\ pending \in SUBSET Happening /\ seen \in SUBSET Happening
    /\ hook \in [Hooks -> [stage : {"idle", "status", "suppress"}, found : BOOLEAN,
                           event : Happening \cup {None}]]
    /\ crashes \in 0 .. MaxCrashes
    /\ calls \in [Messages -> Nat] /\ applied \in [Happening -> Nat]

LEMMA Types ==
    /\ TypeOK <=> RestOK /\ sender \in [Senders -> SenderRow]
    /\ TypeOK' <=> RestOK' /\ sender' \in [Senders -> SenderRow]
  BY DEF TypeOK, RestOK, SenderRow

\* The job changes only these.
LEMMA JobRow ==
    ASSUME RestOK, UNCHANGED <<msg, suppression, provider, webhook, crashes, calls>>,
           job' \in [enabled : BOOLEAN, due : BOOLEAN, lock : Senders \cup {None},
                     stale : BOOLEAN, failures : Nat]
    PROVE  RestOK'
  BY DEF RestOK, provider, webhook

LEMMA ClaimStep ==
    ASSUME IInv, NEW p \in Senders, Claim(p) \/ Command(p) \/ ReadDue(p)
    PROVE  IInv'
<1> DEFINE r == [Idle EXCEPT !.stage = "reading", !.job = TRUE]
           s == [Idle EXCEPT !.stage = "reading"]
<1>1. sender \in [Senders -> SenderRow] /\ RestOK
  BY Types DEF IInv
<1>2. r \in SenderRow /\ s \in SenderRow
  BY DEF Idle, SenderRow
<1>3. UNCHANGED <<msg, suppression, provider, webhook, crashes, calls>>
  BY DEF Claim, Command, ReadDue, mail
<1>4. CASE Claim(p)
  <2>1. sender' = [sender EXCEPT ![p] = r] /\ sender[p].answer = "none"
    BY <1>4 DEF Claim, Idle
  <2>2. r.answer = "none" /\ r.now = None
    BY DEF Idle
  <2>3. RestOK'
    <3>1. job' = [job EXCEPT !.lock = p, !.stale = FALSE]
      BY <1>4 DEF Claim
    <3>2. job' \in [enabled : BOOLEAN, due : BOOLEAN, lock : Senders \cup {None},
                    stale : BOOLEAN, failures : Nat]
      BY <1>1, <3>1 DEF RestOK
    <3> QED BY <1>1, <1>3, <3>2, JobRow
  <2> HIDE DEF r
  <2>4. /\ sender' \in [Senders -> SenderRow]
        /\ RowsLocked' /\ Budget' /\ Excused' /\ Once' /\ EventAppliedOnce'
    BY <1>2, <1>3, <2>1, <2>2, Unanswered
  <2>5. TypeOK'
    BY <2>3, <2>4, Types
  <2> QED BY <2>4, <2>5 DEF IInv
<1>5. CASE Command(p)
  <2>1. sender' = [sender EXCEPT ![p] = s] /\ sender[p].answer = "none"
    BY <1>5 DEF Command, Idle
  <2>2. s.answer = "none" /\ s.now = None
    BY DEF Idle
  <2>3. RestOK'
    BY <1>1, <1>3, <1>5, JobRow DEF Command, mail, RestOK
  <2> HIDE DEF s
  <2>4. /\ sender' \in [Senders -> SenderRow]
        /\ RowsLocked' /\ Budget' /\ Excused' /\ Once' /\ EventAppliedOnce'
    BY <1>2, <1>3, <2>1, <2>2, Unanswered
  <2>5. TypeOK'
    BY <2>3, <2>4, Types
  <2> QED BY <2>4, <2>5 DEF IInv
<1>6. CASE ReadDue(p)
  <2>1. PICK d : d = [sender[p] EXCEPT !.stage = "sending", !.batch = Eligible]
    OBVIOUS
  <2>2. sender' = [sender EXCEPT ![p] = d] /\ sender[p].stage = "reading"
    BY <1>6, <2>1 DEF ReadDue
  <2>3. sender[p].now = None /\ sender[p].answer = "none"
    BY <2>2 DEF IInv, RowsLocked
  <2>4. d \in SenderRow /\ d.answer = "none" /\ d.now = None
    BY <1>1, <2>1, <2>3 DEF SenderRow, Eligible
  <2>5. RestOK'
    BY <1>1, <1>3, <1>6, JobRow DEF ReadDue, mail, RestOK
  <2>6. /\ sender' \in [Senders -> SenderRow]
        /\ RowsLocked' /\ Budget' /\ Excused' /\ Once' /\ EventAppliedOnce'
    BY <1>3, <2>2, <2>3, <2>4, Unanswered
  <2>7. TypeOK'
    BY <2>5, <2>6, Types
  <2> QED BY <2>6, <2>7 DEF IInv
<1> QED BY <1>4, <1>5, <1>6

LEMMA FinishStep ==
    ASSUME IInv, NEW p \in Senders, Succeed(p) \/ Fail(p)
    PROVE  IInv'
<1>1. sender \in [Senders -> SenderRow] /\ RestOK
  BY Types DEF IInv
<1>2. PICK failed \in BOOLEAN : Finish(p, failed)
  BY DEF Succeed, Fail
<1>3. sender[p].now = None /\ sender[p].answer = "none"
  BY DEF Succeed, Fail, IInv, RowsLocked
<1>4. /\ UNCHANGED <<msg, suppression, provider, webhook, crashes, calls>>
      /\ sender' = [sender EXCEPT ![p] = Idle]
  BY <1>2 DEF Finish
<1>5. job' \in [enabled : BOOLEAN, due : BOOLEAN, lock : Senders \cup {None},
                stale : BOOLEAN, failures : Nat]
  <2>1. CASE ~sender[p].job
    BY <1>1, <1>2, <2>1 DEF Finish, RestOK
  <2>2. CASE sender[p].job
    <3> DEFINE n == IF failed THEN job.failures + 1 ELSE 0
               on == job.enabled /\ ~(failed /\ n >= MaxFailures)
    <3>1. job' = [enabled |-> on, due |-> FALSE, lock |-> None, stale |-> FALSE,
                  failures |-> n]
      BY <1>2, <2>2 DEF Finish
    <3>2. n \in Nat
      BY <1>1 DEF RestOK
    <3>3. on \in BOOLEAN
      OBVIOUS
    <3> HIDE DEF n, on
    <3> QED BY <3>1, <3>2, <3>3
  <2> QED BY <2>1, <2>2
<1>6. RestOK'
  BY <1>1, <1>4, <1>5, JobRow
<1>7. Idle.answer = "none" /\ Idle.now = None
  BY DEF Idle
<1>8. /\ sender' \in [Senders -> SenderRow]
      /\ RowsLocked' /\ Budget' /\ Excused' /\ Once' /\ EventAppliedOnce'
  BY <1>3, <1>4, <1>7, IdleRow, Unanswered
<1>9. TypeOK'
  BY <1>6, <1>8, Types
<1> QED BY <1>8, <1>9 DEF IInv

LEMMA JobStep ==
    ASSUME IInv, RecoverStale \/ JobDue \/ LockAges
    PROVE  IInv'
<1>1. UNCHANGED <<msg, suppression, sender, provider, webhook, crashes, calls>>
  BY DEF RecoverStale, JobDue, LockAges
<1>2. sender \in [Senders -> SenderRow] /\ RestOK
  BY Types DEF IInv
<1>3. job' \in [enabled : BOOLEAN, due : BOOLEAN, lock : Senders \cup {None}, stale : BOOLEAN,
                failures : Nat]
  <2>1. job \in [enabled : BOOLEAN, due : BOOLEAN, lock : Senders \cup {None},
                 stale : BOOLEAN, failures : Nat]
    BY <1>2 DEF RestOK
  <2>2. CASE RecoverStale
    BY <2>1, <2>2 DEF RecoverStale
  <2>3. CASE JobDue
    BY <2>1, <2>3 DEF JobDue
  <2>4. CASE LockAges
    BY <2>1, <2>4 DEF LockAges
  <2> QED BY <2>2, <2>3, <2>4
<1>4. TypeOK'
  BY <1>1, <1>2, <1>3, JobRow, Types
<1>5. RowsLocked' /\ Budget' /\ Excused' /\ Once' /\ EventAppliedOnce'
  BY <1>1 DEF webhook, IInv, RowsLocked, Budget, Answered, Excused, Deferred, Once,
              EventAppliedOnce
<1> QED BY <1>4, <1>5 DEF IInv

\* Taking a row: it is free, and its status is read again under the lock.
LEMMA TakeStep ==
    ASSUME IInv, NEW p \in Senders, NEW m \in Messages, Take(p, m)
    PROVE  IInv'
<1>1. sender \in [Senders -> SenderRow] /\ RestOK
  BY Types DEF IInv
<1>2. /\ UNCHANGED <<msg, suppression, job, provider, webhook, crashes, calls>>
      /\ sender[p].stage = "sending" /\ sender[p].now = None /\ Unlocked(m)
  BY DEF Take, mail
<1>3. UNCHANGED <<seen, hook, applied>>
  BY <1>2 DEF webhook
<1>4. PICK d : d = [sender[p] EXCEPT
                      !.batch = sender[p].batch \ {m},
                      !.now = IF msg[m].status \in Unsent /\ msg[m].next # "later"
                              THEN m ELSE None]
  OBVIOUS
<1>5. sender' = [sender EXCEPT ![p] = d]
  BY <1>4 DEF Take, Unsent
<1>6. /\ d \in SenderRow /\ d.stage = "sending" /\ d.answer = "none"
      /\ d.now = None \/ (d.now = m /\ msg[m].status \in Unsent)
  <2>1. sender[p].answer = "none"
    BY <1>2 DEF IInv, RowsLocked
  <2> QED BY <1>1, <1>2, <1>4, <2>1 DEF SenderRow
<1>7. /\ sender' \in [Senders -> SenderRow] /\ sender'[p] = d
      /\ \A q \in Senders \ {p} : sender'[q] = sender[q]
  BY <1>1, <1>5, <1>6
<1>8. TypeOK'
  <2>1. RestOK'
    BY <1>1, <1>2, JobRow DEF RestOK
  <2> QED BY <1>7, <2>1, Types
<1>9. RowsLocked'
  BY <1>2, <1>6, <1>7 DEF RowsLocked, IInv, Unlocked
<1>10. Budget'
  <2>1. \A n : Answered(n) => Answered(n)'
    <3>1. sender[p].answer = "none"
      BY <1>2 DEF IInv, RowsLocked
    <3> QED BY <1>7, <3>1 DEF Answered
  <2> QED BY <1>2, <2>1 DEF Budget, IInv
<1>11. Excused' /\ Once' /\ EventAppliedOnce'
  BY <1>2, <1>3 DEF Excused, Deferred, Once, EventAppliedOnce, IInv
<1> QED BY <1>8, <1>9, <1>10, <1>11 DEF IInv

\* The hand-over: nobody else is about to record an attempt for the message.
LEMMA CallStep ==
    ASSUME IInv, NEW p \in Senders, Call(p)
    PROVE  IInv'
<1>1. sender \in [Senders -> SenderRow] /\ RestOK
  BY Types DEF IInv
<1>2. PICK m \in Messages, a \in {"accepted", "transient", "permanent"} :
         /\ sender[p].now = m /\ sender[p].answer = "none"
         /\ sender' = [sender EXCEPT ![p].answer = a]
         /\ taken' \in SUBSET Messages
         /\ calls' = [calls EXCEPT ![m] = @ + 1]
         /\ UNCHANGED <<msg, suppression, job, emitted, pending, seen, hook, applied, crashes>>
  BY <1>1 DEF Call, mail, webhook, SenderRow, RestOK
<1>3. PICK d \in SenderRow : d = [sender[p] EXCEPT !.answer = a]
  BY <1>1 DEF SenderRow
<1>4. d.answer = a /\ d.now = m /\ d.stage = sender[p].stage
  BY <1>1, <1>2, <1>3 DEF SenderRow
<1>5. sender' = [sender EXCEPT ![p] = d]
  BY <1>2, <1>3
<1>6. /\ sender' \in [Senders -> SenderRow] /\ sender'[p] = d
      /\ \A q \in Senders \ {p} : sender'[q] = sender[q]
  BY <1>1, <1>5
<1>7. /\ calls' \in [Messages -> Nat] /\ calls'[m] = calls[m] + 1
      /\ \A n \in Messages \ {m} : calls'[n] = calls[n]
  BY <1>1, <1>2 DEF RestOK
<1>8. TypeOK'
  <2>1. RestOK'
    BY <1>1, <1>2, <1>7 DEF RestOK
  <2> QED BY <1>6, <2>1, Types
<1>9. RowsLocked'
  <2>1. m # None
    BY OutboxAssumption
  <2> QED BY <1>2, <1>4, <1>6, <2>1 DEF RowsLocked, IInv
<1>10. Budget'
  <2>1. ~Answered(m)
    <3>1. m # None
      BY OutboxAssumption
    <3> QED BY <1>2, <3>1 DEF Answered, RowsLocked, IInv
  <2>2. Answered(m)'
    BY <1>4, <1>6 DEF Answered
  <2>3. \A n \in Messages \ {m} : Answered(n) => Answered(n)'
    BY <1>2, <1>6 DEF Answered
  <2>4. \A n \in Messages : /\ calls[n] \in Nat /\ msg[n].attempts \in Nat /\ crashes \in Nat
    BY <1>1, OutboxAssumption DEF RestOK
  <2>5. ~msg[m].linked => calls'[m] <= msg[m].attempts + crashes + 1
    BY <1>7, <2>1, <2>4 DEF Budget, IInv
  <2> QED BY <1>2, <1>7, <2>2, <2>3, <2>5 DEF Budget, IInv
<1>11. Excused' /\ Once' /\ EventAppliedOnce'
  BY <1>2 DEF Excused, Deferred, Once, EventAppliedOnce, IInv
<1> QED BY <1>8, <1>9, <1>10, <1>11 DEF IInv

MessageRow == [status : MessageStatus \cup {"none"}, attempts : Nat,
               next : {"null", "later", "due"}, linked : BOOLEAN]

\* The attempt is recorded, and the row let go.
LEMMA SettleStep ==
    ASSUME IInv, NEW p \in Senders, Settle(p)
    PROVE  IInv'
<1>1. sender \in [Senders -> SenderRow] /\ RestOK /\ msg \in [Messages -> MessageRow]
  BY Types DEF IInv, RestOK, MessageRow
<1>2. PICK m \in Messages : sender[p].now = m /\ sender[p].answer # "none"
  BY <1>1 DEF Settle, SenderRow
<1>3. UNCHANGED <<suppression, job, provider, seen, hook, applied, crashes, calls>>
  BY DEF Settle, webhook
<1> DEFINE tried == msg[m].attempts + 1
           retry == sender[p].answer = "transient" /\ tried < MaxAttempts
           taking == [status |-> "accepted", attempts |-> tried, next |-> "null", linked |-> TRUE]
           trying == [msg[m] EXCEPT !.status = "deferred", !.attempts = tried, !.next = "later"]
           failing == [msg[m] EXCEPT !.status = "failed", !.attempts = tried, !.next = "null"]
<1>4. tried \in Nat /\ msg[m] \in MessageRow
  BY <1>1 DEF MessageRow
<1>5. PICK n \in MessageRow :
         /\ msg' = [msg EXCEPT ![m] = n] /\ n.attempts = tried
         /\ \/ n.status = "accepted" /\ n.linked
            \/ n.status = "deferred" /\ tried < MaxAttempts /\ n.linked = msg[m].linked
            \/ n.status = "failed" /\ n.linked = msg[m].linked
  <2>0. msg' = [msg EXCEPT ![m] = IF sender[p].answer = "accepted" THEN taking
                                  ELSE [msg[m] EXCEPT !.status = IF retry THEN "deferred" ELSE "failed",
                                                      !.attempts = tried,
                                                      !.next = IF retry THEN "later" ELSE "null"]]
    BY <1>2 DEF Settle
  <2>1. CASE sender[p].answer = "accepted"
    <3>1. taking \in MessageRow
      BY <1>4 DEF MessageRow, MessageStatus
    <3>2. msg' = [msg EXCEPT ![m] = taking]
      BY <2>0, <2>1
    <3> QED BY <3>1, <3>2
  <2>2. CASE sender[p].answer # "accepted" /\ retry
    <3>1. trying \in MessageRow /\ trying.attempts = tried /\ trying.status = "deferred"
          /\ trying.linked = msg[m].linked
      <4> HIDE DEF tried
      <4> QED BY <1>4 DEF MessageRow, MessageStatus
    <3>2. msg' = [msg EXCEPT ![m] = trying]
      BY <2>0, <2>2
    <3>3. tried < MaxAttempts
      BY <2>2
    <3> HIDE DEF trying, tried
    <3> QED BY <3>1, <3>2, <3>3
  <2>3. CASE sender[p].answer # "accepted" /\ ~retry
    <3>1. failing \in MessageRow /\ failing.attempts = tried /\ failing.status = "failed"
          /\ failing.linked = msg[m].linked
      <4> HIDE DEF tried
      <4> QED BY <1>4 DEF MessageRow, MessageStatus
    <3>2. msg' = [msg EXCEPT ![m] = failing]
      BY <2>0, <2>3
    <3> HIDE DEF failing, tried
    <3> QED BY <3>1, <3>2
  <2> QED BY <2>1, <2>2, <2>3
<1>6. /\ msg' \in [Messages -> MessageRow] /\ msg'[m] = n
      /\ \A o \in Messages \ {m} : msg'[o] = msg[o]
  BY <1>1, <1>5
<1>7. PICK d \in SenderRow : /\ d.now = None /\ d.answer = "none"
                             /\ sender' = [sender EXCEPT ![p] = d]
  <2> DEFINE d == [sender[p] EXCEPT !.now = None, !.answer = "none"]
  <2>1. sender[p] \in SenderRow
    BY <1>1
  <2>2. d \in SenderRow /\ d.now = None /\ d.answer = "none"
    BY <2>1 DEF SenderRow
  <2>3. sender' = [sender EXCEPT ![p] = d]
    BY DEF Settle
  <2> HIDE DEF d
  <2> QED BY <2>2, <2>3
<1>8. sender' = [sender EXCEPT ![p] = d]
  BY <1>7
<1>9. /\ sender' \in [Senders -> SenderRow] /\ sender'[p] = d
      /\ \A q \in Senders \ {p} : sender'[q] = sender[q]
  BY <1>1, <1>8
<1> HIDE DEF tried
<1>10. TypeOK'
  <2>1. RestOK'
    BY <1>1, <1>3, <1>6 DEF RestOK, provider, MessageRow
  <2> QED BY <1>9, <2>1, Types
<1>11. m # None /\ msg[m].status \in Unsent
  BY <1>2, OutboxAssumption DEF IInv, RowsLocked
<1>12. RowsLocked'
  <2>1. \A q \in Senders \ {p} : sender[q].now # m
    BY <1>2, <1>11 DEF IInv, RowsLocked
  <2>2. \A q \in Senders \ {p} : sender[q].now # None => sender[q].now \in Messages \ {m}
    BY <1>1, <2>1 DEF SenderRow
  <2>3. \A q \in Senders : /\ sender'[q].now # None => sender'[q] = sender[q] /\ q # p
                           /\ sender'[q] = sender[q] \/ sender'[q] = d
    BY <1>7, <1>9
  <2>4. \A q \in Senders : sender'[q].now # None => msg'[sender'[q].now].status \in Unsent
    BY <1>6, <2>2, <2>3 DEF IInv, RowsLocked
  <2>5. \A q \in Senders : /\ sender'[q].stage # "sending" => sender'[q].now = None
                           /\ sender'[q].now = None => sender'[q].answer = "none"
    BY <1>7, <2>3 DEF IInv, RowsLocked
  <2>6. \A q, u \in Senders : (q # u /\ sender'[q].now = sender'[u].now) => sender'[q].now = None
    BY <2>3 DEF IInv, RowsLocked
  <2> QED BY <2>4, <2>5, <2>6 DEF RowsLocked
<1>13. Budget'
  <2>1. \A o \in Messages \ {m} : Answered(o) => Answered(o)'
    <3>1. \A q \in Senders : sender[q].now \in Messages \ {m} => sender'[q] = sender[q]
      BY <1>2, <1>9
    <3> QED BY <3>1 DEF Answered
  <2>2. \A o \in Messages : /\ calls[o] \in Nat /\ msg[o].attempts \in Nat /\ crashes \in Nat
    BY <1>1, OutboxAssumption DEF RestOK
  <2>3. ~n.linked =>
          /\ n.attempts <= MaxAttempts
          /\ n.status \in Unsent \cup {"none"} => n.attempts < MaxAttempts
          /\ calls[m] <= n.attempts + crashes
    <3>1. ~n.linked => /\ msg[m].attempts < MaxAttempts
                       /\ calls[m] <= msg[m].attempts + crashes + 1
      BY <1>5, <1>11, <2>2 DEF IInv, Budget
    <3>2. n.attempts = msg[m].attempts + 1
      BY <1>5 DEF tried
    <3>3. MaxAttempts \in Nat
      BY OutboxAssumption
    <3> QED BY <1>5, <2>2, <3>1, <3>2, <3>3 DEF Unsent
  <2> QED BY <1>3, <1>6, <2>1, <2>3 DEF IInv, Budget
<1>14. Excused'
  <2>1. n.status # "none" /\ (n.linked /\ n.status \in Unsent => msg[m].linked)
    BY <1>5 DEF Unsent
  <2>2. \A o : Deferred(o)' = Deferred(o)
    BY <1>3 DEF Deferred
  <2> QED BY <1>6, <1>11, <2>1, <2>2 DEF IInv, Excused
<1>15. Once' /\ EventAppliedOnce'
  <2>1. \A o \in Messages : msg[o].linked => msg'[o].linked
    BY <1>5, <1>6
  <2>2. \A h \in Hooks : hook[h].stage = "status" => hook[h].event[1] \in Messages
    BY <1>1 DEF IInv, Once, RestOK, Happening
  <2> QED BY <1>3, <2>1, <2>2 DEF IInv, Once, EventAppliedOnce
<1> QED BY <1>10, <1>12, <1>13, <1>14, <1>15 DEF IInv

\* A process that dies may take one hand-over with it: the crash makes up for it.
LEMMA CrashStep ==
    ASSUME IInv, NEW p \in Senders, Crash(p) \/ Raise(p)
    PROVE  IInv'
<1>1. sender \in [Senders -> SenderRow] /\ RestOK
  BY Types DEF IInv
<1>2. PICK d \in SenderRow : /\ sender' = [sender EXCEPT ![p] = d]
                             /\ d.now = None /\ d.answer = "none"
  <2>1. CASE Crash(p)
    BY <2>1, IdleRow DEF Crash, Idle
  <2>2. CASE Raise(p)
    <3> DEFINE d == [Idle EXCEPT !.stage = "failed", !.job = sender[p].job]
    <3>1. d \in SenderRow
      BY <1>1 DEF Idle, SenderRow
    <3>2. d.now = None /\ d.answer = "none"
      BY DEF Idle
    <3>3. sender' = [sender EXCEPT ![p] = d]
      BY <2>2 DEF Raise
    <3> HIDE DEF d
    <3> QED BY <3>1, <3>2, <3>3
  <2> QED BY <2>1, <2>2
<1>3. /\ UNCHANGED <<msg, suppression, job, provider, seen, hook, applied, calls>>
      /\ crashes' = crashes + 1 /\ crashes < MaxCrashes
  BY DEF Crash, Raise, mail, webhook
<1>4. crashes \in Nat /\ crashes' \in 0 .. MaxCrashes
  BY <1>1, <1>3, OutboxAssumption DEF RestOK
<1>5. /\ sender' \in [Senders -> SenderRow] /\ sender'[p] = d
      /\ \A q \in Senders \ {p} : sender'[q] = sender[q]
  BY <1>1, <1>2
<1>6. TypeOK'
  <2>1. RestOK'
    BY <1>1, <1>3, <1>4 DEF RestOK, provider
  <2> QED BY <1>5, <2>1, Types
<1>7. RowsLocked'
  BY <1>2, <1>3, <1>5 DEF IInv, RowsLocked
<1>8. Budget'
  <2>1. \A m \in Messages : calls[m] \in Nat /\ msg[m].attempts \in Nat
    BY <1>1 DEF RestOK
  <2>2. \A m \in Messages : ~msg[m].linked => calls[m] <= msg[m].attempts + crashes + 1
    BY <1>4, <2>1 DEF IInv, Budget
  <2> QED BY <1>3, <1>4, <2>1, <2>2 DEF IInv, Budget
<1>9. Excused' /\ Once' /\ EventAppliedOnce'
  BY <1>3 DEF Excused, Deferred, Once, EventAppliedOnce, IInv
<1> QED BY <1>6, <1>7, <1>8, <1>9 DEF IInv

-----------------------------------------------------------------------------
(* Other requests *)

LEMMA EnqueueStep ==
    ASSUME IInv, NEW p \in Senders, NEW m \in Messages, NEW sendNow \in BOOLEAN,
           Enqueue(p, m, sendNow)
    PROVE  IInv'
<1>1. sender \in [Senders -> SenderRow] /\ RestOK /\ msg \in [Messages -> MessageRow]
  BY Types DEF IInv, RestOK, MessageRow
<1>2. /\ UNCHANGED <<suppression, job, provider, seen, hook, applied, crashes, calls>>
      /\ msg[m].status = "none" /\ sender[p] = Idle
  BY DEF Enqueue, webhook
<1>3. PICK st \in {"suppressed", "queued"} : msg' = [msg EXCEPT ![m].status = st]
  BY DEF Enqueue
<1>4. /\ msg' \in [Messages -> MessageRow] /\ msg'[m].status = st
      /\ msg'[m].attempts = msg[m].attempts /\ msg'[m].linked = msg[m].linked
      /\ \A o \in Messages \ {m} : msg'[o] = msg[o]
  <2> DEFINE n == [msg[m] EXCEPT !.status = st]
  <2>1. msg[m] \in MessageRow
    BY <1>1
  <2>2. /\ n \in MessageRow /\ n.status = st /\ n.attempts = msg[m].attempts
        /\ n.linked = msg[m].linked
    BY <2>1 DEF MessageRow, MessageStatus
  <2>3. msg' = [msg EXCEPT ![m] = n]
    BY <1>3
  <2> HIDE DEF n
  <2> QED BY <1>1, <2>2, <2>3
<1>5. PICK d \in SenderRow : /\ sender' = [sender EXCEPT ![p] = d]
                             /\ d.now = None /\ d.answer = "none"
  <2> DEFINE d == [Idle EXCEPT !.stage = "sending", !.batch = {m}]
  <2>1. d \in SenderRow /\ d.now = None /\ d.answer = "none"
    BY DEF Idle, SenderRow
  <2>2. sender' = [sender EXCEPT ![p] = d] \/ sender' = sender
    BY DEF Enqueue
  <2>3. sender = [sender EXCEPT ![p] = Idle]
    BY <1>1, <1>2
  <2>4. Idle.now = None /\ Idle.answer = "none"
    BY DEF Idle
  <2> HIDE DEF d
  <2> QED BY <2>1, <2>2, <2>3, <2>4, IdleRow
<1>6. /\ sender' \in [Senders -> SenderRow] /\ sender'[p] = d
      /\ \A q \in Senders \ {p} : sender'[q] = sender[q]
  BY <1>1, <1>5
<1>7. TypeOK'
  <2>1. RestOK'
    BY <1>1, <1>2, <1>4 DEF RestOK, provider, MessageRow
  <2> QED BY <1>6, <2>1, Types
<1>8. RowsLocked'
  <2>1. \A q \in Senders : /\ sender'[q] = sender[q] \/ sender'[q] = d
                           /\ sender'[q].now # None => sender'[q] = sender[q]
    BY <1>5, <1>6
  <2>2. \A q \in Senders : sender[q].now # None =>
           /\ sender[q].now \in Messages \ {m} /\ msg[sender[q].now].status \in Unsent
    BY <1>1, <1>2 DEF IInv, RowsLocked, SenderRow, Unsent
  <2> QED BY <1>4, <1>5, <2>1, <2>2 DEF IInv, RowsLocked
<1>9. Budget'
  <2>1. \A o : Answered(o) => Answered(o)'
    <3>1. sender[p].answer = "none"
      BY <1>2 DEF Idle
    <3> QED BY <1>6, <3>1 DEF Answered
  <2>2. ~msg[m].linked => msg[m].attempts < MaxAttempts
    BY <1>2 DEF IInv, Budget
  <2> QED BY <1>2, <1>4, <2>1, <2>2 DEF IInv, Budget
<1>10. Excused'
  <2>1. ~msg[m].linked
    BY <1>2 DEF IInv, Excused
  <2> QED BY <1>2, <1>4, <2>1 DEF IInv, Excused, Deferred
<1>11. Once' /\ EventAppliedOnce'
  <2>1. \A h \in Hooks : hook[h].stage = "status" => hook[h].event[1] \in Messages
    BY <1>1 DEF IInv, Once, RestOK, Happening
  <2> QED BY <1>2, <1>4, <2>1 DEF IInv, Once, EventAppliedOnce
<1> QED BY <1>7, <1>8, <1>9, <1>10, <1>11 DEF IInv

LEMMA EmitStep ==
    ASSUME IInv, NEW m \in Messages, NEW e \in Events, Emit(m, e)
    PROVE  IInv'
<1>1. UNCHANGED <<msg, suppression, job, sender, taken, seen, hook, applied, crashes, calls>>
  BY DEF Emit, mail, webhook
<1>2. sender \in [Senders -> SenderRow] /\ RestOK
  BY Types DEF IInv
<1>3. emitted' \in SUBSET Happening /\ pending' \in SUBSET Happening
  BY <1>2 DEF Emit, RestOK, Happening
<1>4. TypeOK'
  <2>1. RestOK'
    BY <1>1, <1>2, <1>3 DEF RestOK
  <2> QED BY <1>1, <1>2, <2>1, Types
<1>5. RowsLocked' /\ Budget' /\ Excused' /\ Once' /\ EventAppliedOnce'
  BY <1>1 DEF IInv, RowsLocked, Budget, Answered, Excused, Deferred, Once, EventAppliedOnce
<1> QED BY <1>4, <1>5 DEF IInv

LEMMA BackoffStep ==
    ASSUME IInv, NEW m \in Messages, BackoffEnds(m)
    PROVE  IInv'
<1>1. UNCHANGED <<suppression, job, sender, provider, seen, hook, applied, crashes, calls>>
  BY DEF BackoffEnds, webhook
<1>2. sender \in [Senders -> SenderRow] /\ RestOK /\ msg \in [Messages -> MessageRow]
  BY Types DEF IInv, RestOK, MessageRow
<1>3. /\ msg' \in [Messages -> MessageRow]
      /\ \A o \in Messages : /\ msg'[o].status = msg[o].status
                             /\ msg'[o].attempts = msg[o].attempts
                             /\ msg'[o].linked = msg[o].linked
  <2> DEFINE n == [msg[m] EXCEPT !.next = "due"]
  <2>1. msg[m] \in MessageRow
    BY <1>2
  <2>2. /\ n \in MessageRow /\ n.status = msg[m].status /\ n.attempts = msg[m].attempts
        /\ n.linked = msg[m].linked
    BY <2>1 DEF MessageRow
  <2>3. msg' = [msg EXCEPT ![m] = n]
    BY DEF BackoffEnds
  <2> HIDE DEF n
  <2> QED BY <1>2, <2>2, <2>3
<1>4. TypeOK'
  <2>1. RestOK'
    BY <1>1, <1>2, <1>3 DEF RestOK, provider, MessageRow
  <2> QED BY <1>1, <1>2, <2>1, Types
<1>5. RowsLocked'
  <2>1. \A q \in Senders : sender[q].now # None => sender[q].now \in Messages
    BY <1>2 DEF SenderRow
  <2> QED BY <1>1, <1>3, <2>1 DEF IInv, RowsLocked
<1>6. Budget'
  <2>1. \A o : Answered(o)' = Answered(o)
    BY <1>1 DEF Answered
  <2> QED BY <1>1, <1>3, <2>1 DEF IInv, Budget
<1>7. Excused'
  <2>1. \A o : Deferred(o)' = Deferred(o)
    BY <1>1 DEF Deferred
  <2> QED BY <1>3, <2>1 DEF IInv, Excused
<1>8. Once' /\ EventAppliedOnce'
  <2>1. \A h \in Hooks : hook[h].stage = "status" => hook[h].event[1] \in Messages
    BY <1>2 DEF IInv, Once, RestOK, Happening
  <2> QED BY <1>1, <1>3, <2>1 DEF IInv, Once, EventAppliedOnce
<1> QED BY <1>4, <1>5, <1>6, <1>7, <1>8 DEF IInv

-----------------------------------------------------------------------------
(* The webhook *)

HookRow == [stage : {"idle", "status", "suppress"}, found : BOOLEAN,
            event : Happening \cup {None}]

LEMMA NoHookRow == NoHook \in HookRow /\ NoHook.stage = "idle"
  BY DEF NoHook, HookRow

\* Storing an event: it was not stored before, so nobody else works on it.
LEMMA RecordStep ==
    ASSUME IInv, NEW h \in Hooks, NEW x \in pending, HookRecord(h, x)
    PROVE  IInv'
<1>1. sender \in [Senders -> SenderRow] /\ RestOK /\ hook \in [Hooks -> HookRow]
  BY Types DEF IInv, RestOK, HookRow
<1>2. UNCHANGED <<msg, suppression, job, taken, emitted, sender, applied, crashes, calls>>
  BY DEF HookRecord, mail
<1>3. PICK y \in Happening : y = x
  BY <1>1 DEF RestOK
<1>4. RowsLocked' /\ Budget' /\ Excused' /\ EventAppliedOnce'
  BY <1>2 DEF IInv, RowsLocked, Budget, Answered, Excused, Deferred, EventAppliedOnce
<1>5. CASE x \in seen
  <2>1. hook' = hook /\ seen' = seen /\ pending' \in SUBSET Happening
    BY <1>1, <1>5 DEF HookRecord, RestOK
  <2>2. TypeOK'
    <3>1. RestOK'
      BY <1>1, <1>2, <2>1 DEF RestOK
    <3> QED BY <1>1, <1>2, <3>1, Types
  <2>3. Once'
    BY <1>2, <2>1 DEF IInv, Once
  <2> QED BY <1>4, <2>2, <2>3 DEF IInv
<1>6. CASE x \notin seen
  <2>1. msg[y[1]].linked \in BOOLEAN
    BY <1>1 DEF RestOK, Happening
  <2>2. PICK d \in HookRow : /\ d.stage = "status" /\ d.event = y /\ (d.found => msg[y[1]].linked)
                             /\ hook' = [hook EXCEPT ![h] = d]
    <3> DEFINE d == [stage |-> "status", found |-> msg[y[1]].linked, event |-> y]
    <3>1. d \in HookRow
      BY <2>1 DEF HookRow
    <3>2. d.stage = "status" /\ d.event = y /\ (d.found => msg[y[1]].linked)
      OBVIOUS
    <3>3. hook' = [hook EXCEPT ![h] = d]
      BY <1>3, <1>6 DEF HookRecord
    <3> HIDE DEF d
    <3> QED BY <3>1, <3>2, <3>3
  <2>3. seen' = seen \cup {y} /\ pending' = pending
    BY <1>3, <1>6 DEF HookRecord
  <2>4. /\ hook' \in [Hooks -> HookRow] /\ hook'[h] = d
        /\ \A k \in Hooks \ {h} : hook'[k] = hook[k]
    BY <1>1, <2>2
  <2>5. TypeOK'
    <3>1. RestOK'
      BY <1>1, <1>2, <2>3, <2>4 DEF RestOK, HookRow
    <3> QED BY <1>1, <1>2, <3>1, Types
  <2>6. Once'
    <3>1. applied[y] = 0 /\ y \notin seen
      BY <1>3, <1>6 DEF IInv, Once
    <3>2. \A z \in Happening : z \notin seen' => applied'[z] = 0
      BY <1>2, <2>3 DEF IInv, Once
    <3>3. \A k \in Hooks : hook'[k].stage = "status" =>
             /\ hook'[k].event \in seen' /\ applied'[hook'[k].event] = 0
             /\ hook'[k].found => msg'[hook'[k].event[1]].linked
      BY <1>2, <2>2, <2>3, <2>4, <3>1 DEF IInv, Once
    <3>4. \A k \in Hooks \ {h} : hook[k].stage = "status" => hook[k].event # y
      BY <3>1 DEF IInv, Once
    <3>5. \A k, j \in Hooks :
             (k # j /\ hook'[k].stage = "status" /\ hook'[j].stage = "status")
             => hook'[k].event # hook'[j].event
      BY <2>2, <2>4, <3>4 DEF IInv, Once
    <3> QED BY <3>2, <3>3, <3>5 DEF Once
  <2> QED BY <1>4, <2>5, <2>6 DEF IInv
<1> QED BY <1>5, <1>6

\* Applying an event: the only call that has it, and has not applied it.
LEMMA StatusStep ==
    ASSUME IInv, NEW h \in Hooks, HookStatus(h)
    PROVE  IInv'
<1>1. /\ sender \in [Senders -> SenderRow] /\ RestOK /\ hook \in [Hooks -> HookRow]
      /\ msg \in [Messages -> MessageRow]
  BY Types DEF IInv, RestOK, HookRow, MessageRow
<1>2. /\ UNCHANGED <<suppression, job, provider, sender, seen, crashes, calls>>
      /\ hook[h].stage = "status"
  BY DEF HookStatus
<1>3. PICK x \in Happening : hook[h].event = x
  BY <1>1, <1>2 DEF IInv, Once, RestOK
<1>4. PICK m \in Messages : m = x[1]
  BY DEF Happening
<1>5. applied[x] = 0 /\ (hook[h].found => msg[m].linked) /\ applied \in [Happening -> Nat]
  BY <1>1, <1>2, <1>3, <1>4 DEF IInv, Once, RestOK
<1>6. PICK d \in HookRow : d.stage = "suppress" /\ hook' = [hook EXCEPT ![h] = d]
  <2> DEFINE d == [hook[h] EXCEPT !.stage = "suppress"]
  <2>1. d \in HookRow /\ d.stage = "suppress"
    BY <1>1 DEF HookRow
  <2>2. hook' = [hook EXCEPT ![h] = d]
    BY DEF HookStatus
  <2> HIDE DEF d
  <2> QED BY <2>1, <2>2
<1>7. /\ hook' \in [Hooks -> HookRow] /\ hook'[h] = d
      /\ \A k \in Hooks \ {h} : hook'[k] = hook[k]
  BY <1>1, <1>6
<1>8. \A k \in Hooks \ {h} : hook[k].stage = "status" => hook[k].event \in Happening \ {x}
  BY <1>1, <1>2, <1>3 DEF IInv, Once, RestOK
<1>9. CASE UNCHANGED <<msg, applied>>
  <2>1. TypeOK'
    <3>1. RestOK'
      BY <1>1, <1>2, <1>7, <1>9 DEF RestOK, provider, HookRow
    <3> QED BY <1>1, <1>2, <3>1, Types
  <2>2. RowsLocked' /\ Budget' /\ Excused' /\ EventAppliedOnce'
    BY <1>2, <1>9 DEF IInv, RowsLocked, Budget, Answered, Excused, Deferred, EventAppliedOnce
  <2>3. Once'
    <3>1. \A k \in Hooks : hook'[k].stage = "status" => hook'[k] = hook[k]
      BY <1>6, <1>7
    <3> QED BY <1>2, <1>9, <3>1 DEF IInv, Once
  <2> QED BY <2>1, <2>2, <2>3 DEF IInv
<1>10. CASE /\ hook[h].found /\ x[2] \in DOMAIN StatusOf /\ Unlocked(m)
            /\ msg' = [msg EXCEPT ![m].status = StatusOf[x[2]]]
            /\ applied' = [applied EXCEPT ![x] = @ + 1]
  <2>1. PICK st \in {"delivered", "deferred", "bounced", "complained", "failed"} :
           st = StatusOf[x[2]]
    BY <1>10, StatusTable
  <2>2. /\ msg' \in [Messages -> MessageRow] /\ msg'[m].status = st
        /\ msg'[m].attempts = msg[m].attempts /\ msg'[m].linked = msg[m].linked
        /\ \A o \in Messages \ {m} : msg'[o] = msg[o]
    <3> DEFINE n == [msg[m] EXCEPT !.status = st]
    <3>1. msg[m] \in MessageRow
      BY <1>1
    <3>2. /\ n \in MessageRow /\ n.status = st /\ n.attempts = msg[m].attempts
          /\ n.linked = msg[m].linked
      BY <3>1 DEF MessageRow, MessageStatus
    <3>3. msg' = [msg EXCEPT ![m] = n]
      BY <1>10, <2>1
    <3> HIDE DEF n
    <3> QED BY <1>1, <3>2, <3>3
  <2>3. /\ applied' \in [Happening -> Nat] /\ applied'[x] = 1
        /\ \A z \in Happening \ {x} : applied'[z] = applied[z]
    BY <1>5, <1>10
  <2>4. TypeOK'
    <3>1. RestOK'
      BY <1>1, <1>2, <1>7, <2>2, <2>3 DEF RestOK, provider, HookRow, MessageRow
    <3> QED BY <1>1, <1>2, <3>1, Types
  <2>5. RowsLocked'
    <3>1. \A q \in Senders : sender[q].now # None => sender[q].now \in Messages \ {m}
      BY <1>1, <1>10 DEF Unlocked, SenderRow
    <3> QED BY <1>2, <2>2, <3>1 DEF IInv, RowsLocked
  <2>6. Budget'
    <3>1. \A o : Answered(o)' = Answered(o)
      BY <1>2 DEF Answered
    <3>2. msg'[m].linked
      BY <1>5, <1>10, <2>2
    <3> QED BY <1>2, <2>2, <3>1, <3>2 DEF IInv, Budget
  <2>7. Excused'
    <3>1. \A o \in Messages : Deferred(o) => Deferred(o)'
      <4>1. \A z \in Happening : applied[z] > 0 => applied'[z] > 0
        BY <2>3
      <4> QED BY <4>1 DEF Deferred
    <3>2. st = "deferred" => Deferred(m)'
      <4>1. x[1] = m /\ applied'[x] > 0
        BY <1>4, <2>3
      <4>2. st = "deferred" => StatusOf[x[2]] = "deferred"
        BY <2>1
      <4>3. Deferred(m)' <=> \E z \in Happening :
                               z[1] = m /\ applied'[z] > 0 /\ StatusOf[z[2]] = "deferred"
        BY DEF Deferred
      <4> QED BY <4>1, <4>2, <4>3
    <3>3. st # "none" /\ (st \in Unsent => st = "deferred")
      BY DEF Unsent
    <3> QED BY <2>2, <3>1, <3>2, <3>3 DEF IInv, Excused
  <2>8. Once'
    <3>1. \A k \in Hooks : hook'[k].stage = "status" => k # h /\ hook'[k] = hook[k]
      BY <1>6, <1>7
    <3>2. \A o \in Messages : msg[o].linked => msg'[o].linked
      BY <2>2
    <3>3. x \in seen
      BY <1>2, <1>3 DEF IInv, Once
    <3>4. \A z \in Happening : z \notin seen' => applied'[z] = 0
      BY <1>2, <2>3, <3>3 DEF IInv, Once
    <3>5. \A k \in Hooks : hook'[k].stage = "status" =>
             /\ hook'[k].event \in seen' /\ applied'[hook'[k].event] = 0
             /\ hook'[k].found => msg'[hook'[k].event[1]].linked
      <4>1. \A z \in Happening : z[1] \in Messages
        BY DEF Happening
      <4> QED BY <1>2, <1>8, <2>3, <3>1, <3>2, <4>1 DEF IInv, Once
    <3> QED BY <3>1, <3>4, <3>5 DEF IInv, Once
  <2>9. EventAppliedOnce'
    BY <2>3 DEF IInv, EventAppliedOnce
  <2> QED BY <2>4, <2>5, <2>6, <2>7, <2>8, <2>9 DEF IInv
<1> QED BY <1>3, <1>4, <1>9, <1>10 DEF HookStatus

\* Entering the reason for the address, or dying: the call has nothing to apply any more.
LEMMA HookEnds ==
    ASSUME IInv, NEW h \in Hooks, HookSuppress(h) \/ HookCrash(h)
    PROVE  IInv'
<1>1. sender \in [Senders -> SenderRow] /\ RestOK /\ hook \in [Hooks -> HookRow]
  BY Types DEF IInv, RestOK, HookRow
<1>2. /\ UNCHANGED <<msg, job, taken, emitted, sender, seen, applied, calls>>
      /\ hook' = [hook EXCEPT ![h] = NoHook]
  BY DEF HookSuppress, HookCrash, mail, provider
<1>3. /\ hook' \in [Hooks -> HookRow]
      /\ \A k \in Hooks : hook'[k].stage = "status" => hook'[k] = hook[k]
  BY <1>1, <1>2, NoHookRow
<1>4. /\ suppression' \in {"none", "manual", "unsubscribe", "complaint", "hard_bounce", "invalid"}
      /\ pending' \in SUBSET Happening
  BY <1>1, ReasonTable DEF HookSuppress, HookCrash, mail, provider, RestOK
<1>5. /\ crashes \in Nat /\ crashes' \in 0 .. MaxCrashes
      /\ crashes' = crashes \/ crashes' = crashes + 1
  BY <1>1, OutboxAssumption DEF HookSuppress, HookCrash, RestOK
<1>6. TypeOK'
  <2>1. RestOK'
    BY <1>1, <1>2, <1>3, <1>4, <1>5 DEF RestOK, HookRow
  <2> QED BY <1>1, <1>2, <2>1, Types
<1>7. RowsLocked' /\ Excused' /\ EventAppliedOnce'
  BY <1>2 DEF IInv, RowsLocked, Excused, Deferred, EventAppliedOnce
<1>8. Budget'
  <2>1. \A m \in Messages : calls[m] \in Nat /\ msg[m].attempts \in Nat
    BY <1>1 DEF RestOK
  <2>2. \A m : Answered(m)' = Answered(m)
    BY <1>2 DEF Answered
  <2> QED BY <1>2, <1>5, <2>1, <2>2 DEF IInv, Budget
<1>9. Once'
  BY <1>2, <1>3 DEF IInv, Once
<1> QED BY <1>6, <1>7, <1>8, <1>9 DEF IInv

-----------------------------------------------------------------------------
(* The theorems *)

LEMMA Initially == Init => IInv
<1> SUFFICES ASSUME Init PROVE IInv
  OBVIOUS
<1>1. TypeOK
  <2>1. RestOK
    BY OutboxAssumption DEF Init, RestOK, MessageStatus, NoHook
  <2>2. sender \in [Senders -> SenderRow]
    BY IdleRow DEF Init
  <2> QED BY <2>1, <2>2, Types
<1>2. RowsLocked
  BY DEF Init, RowsLocked, Idle
<1>3. Budget
  BY OutboxAssumption DEF Init, Budget
<1>4. Excused /\ Once /\ EventAppliedOnce
  BY DEF Init, Excused, Once, EventAppliedOnce, NoHook
<1> QED BY <1>1, <1>2, <1>3, <1>4 DEF IInv

LEMMA Inductive == IInv /\ [Next]_vars => IInv'
<1> SUFFICES ASSUME IInv, [Next]_vars PROVE IInv'
  OBVIOUS
<1>1. ASSUME NEW p \in Senders, Work(p) PROVE IInv'
  BY <1>1, ClaimStep, TakeStep, CallStep, SettleStep, FinishStep DEF Work
<1>2. CASE Next
  BY <1>1, <1>2, EnqueueStep, ClaimStep, CrashStep, EmitStep, RecordStep, StatusStep, HookEnds,
     JobStep, BackoffStep DEF Next
<1>3. CASE UNCHANGED vars
  BY <1>3 DEF vars, IInv, TypeOK, RowsLocked, Budget, Answered, Excused, Deferred, Once,
              EventAppliedOnce
<1> QED BY <1>2, <1>3

\* Locks, attempts and stored events fit each other in every reachable state.
THEOREM Invariance == Spec => []IInv
  BY Initially, Inductive, PTL DEF Spec

\* The variables keep their types, so the statuses and reasons that are written are those
\* the database accepts.
THEOREM TypeCorrect == Spec => []TypeOK
<1>1. IInv => TypeOK
  BY DEF IInv
<1> QED BY <1>1, Invariance, PTL

\* process_outbound_message: whatever dies, a message that is not accepted has been handed
\* over no more often than the attempts and the crashes account for.
THEOREM AttemptsBounded == Spec => []RetriesBudgeted
<1>1. ASSUME IInv PROVE RetriesBudgeted
  <2> SUFFICES ASSUME NEW m \in Messages, ~msg[m].linked
               PROVE  calls[m] <= MaxAttempts + crashes
    BY DEF RetriesBudgeted
  <2>1. /\ calls[m] \in Nat /\ msg[m].attempts \in Nat /\ crashes \in Nat /\ MaxAttempts \in Nat
    BY <1>1, OutboxAssumption DEF IInv, TypeOK
  <2>2. CASE calls[m] <= msg[m].attempts + crashes
    <3>1. msg[m].attempts <= MaxAttempts
      BY <1>1 DEF IInv, Budget
    <3> QED BY <2>1, <2>2, <3>1
  <2>3. CASE Answered(m) /\ calls[m] <= msg[m].attempts + crashes + 1
    <3>1. msg[m].status \in Unsent
      <4>1. m # None
        BY OutboxAssumption
      <4> QED BY <1>1, <2>3, <4>1 DEF IInv, RowsLocked, Answered
    <3>2. msg[m].attempts < MaxAttempts
      BY <1>1, <3>1 DEF IInv, Budget
    <3> QED BY <2>1, <2>3, <3>2
  <2> QED BY <1>1, <2>2, <2>3 DEF IInv, Budget
<1> QED BY <1>1, Invariance, PTL

\* brevo_webhook: because the event row is unique and comes first, an event that is posted
\* again and again changes its message once at most.
THEOREM AppliedOnce == Spec => []EventAppliedOnce
<1>1. IInv => EventAppliedOnce
  BY DEF IInv
<1> QED BY <1>1, Invariance, PTL

\* process_outbound_message: an accepted message is handed over again only when the provider
\* itself has reported it as deferred.
THEOREM SentAgain == Spec => SentAgainOnlyIfDeferred
<1> DEFINE Again == \A m \in Messages : (calls'[m] # calls[m] /\ msg[m].linked) =>
              \E x \in Happening : x[1] = m /\ applied[x] > 0 /\ StatusOf[x[2]] = "deferred"
<1>1. ASSUME IInv, [Next]_vars PROVE Again
  <2> SUFFICES ASSUME NEW m \in Messages, calls'[m] # calls[m], msg[m].linked
               PROVE  Deferred(m)
    BY DEF Deferred
  <2>1. \E p \in Senders : Call(p)
    BY <1>1 DEF Next, vars, Work, Enqueue, Claim, Command, ReadDue, Take, Settle, Succeed, Fail,
         Finish, Crash, Raise, Emit, HookRecord, HookStatus, HookSuppress, HookCrash,
         RecoverStale, JobDue, LockAges, BackoffEnds
  <2>2. PICK p \in Senders : sender[p].now = m
    BY <1>1, <2>1 DEF Call, IInv, TypeOK
  <2>3. m # None
    BY OutboxAssumption
  <2>4. msg[m].status \in Unsent
    BY <1>1, <2>2, <2>3 DEF IInv, RowsLocked
  <2> QED BY <1>1, <2>4 DEF IInv, Excused
<1>2. IInv /\ [Next]_vars => [Again]_vars
  BY <1>1
<1> QED BY <1>2, Invariance, PTL DEF Spec, SentAgainOnlyIfDeferred
=============================================================================
