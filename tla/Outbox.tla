------------------------------- MODULE Outbox --------------------------------
(***************************************************************************)
(* The e-mail outbox (apps/notifications): messages are queued by requests *)
(* (enqueue_email), sent by whoever processes them, a request at once or a *)
(* worker that has claimed the scheduled job (run_due_jobs), and followed  *)
(* by the events that the provider posts (brevo_webhook).                  *)
(*                                                                         *)
(* A message is sent inside one transaction that holds the lock of its row *)
(* while the provider is called.  Workers crash, or raise, at any point; a *)
(* crash leaves the job locked until the lock is thirty minutes old.       *)
(* Histories, payloads and the other handlers of the job runner are left   *)
(* out.  All messages go to one address: others have rows of their own.    *)
(***************************************************************************)
EXTENDS Naturals

CONSTANTS
    Messages,    \* idempotency keys of the messages
    Marketing,   \* those sent as marketing
    Senders,     \* processes: requests and workers
    Hooks,       \* requests that handle a webhook call
    Events,      \* bound: kinds of events the provider posts
    MaxAttempts, \* EMAIL_OUTBOX_MAX_ATTEMPTS
    MaxFailures, \* ScheduledJob.max_failures
    MaxCrashes,  \* bound: processes that die or raise
    None         \* NULL

\* Mutant: the kind of a complaint is stored as the status.
Mut_StatusOf == [delivered |-> "delivered", deferred |-> "deferred", soft_bounce |-> "deferred",
                 hard_bounce |-> "bounced", invalid |-> "bounced", blocked |-> "bounced",
                 complaint |-> "complaint", error |-> "failed"]
\* The status an event gives its message; other kinds leave it.
StatusOf == [delivered |-> "delivered", deferred |-> "deferred", soft_bounce |-> "deferred",
             hard_bounce |-> "bounced", invalid |-> "bounced", blocked |-> "bounced",
             complaint |-> "complained", error |-> "failed"]
\* The reason an event enters for its address.
ReasonOf == [hard_bounce |-> "hard_bounce", invalid |-> "invalid", complaint |-> "complaint",
             unsubscribed |-> "unsubscribe"]
EventTypes == DOMAIN StatusOf \cup DOMAIN ReasonOf \cup {"sent", "opened", "clicked"}

ASSUME OutboxAssumption ==
    /\ Marketing \subseteq Messages /\ Events \subseteq EventTypes
    /\ MaxAttempts \in Nat \ {0} /\ MaxFailures \in Nat \ {0} /\ MaxCrashes \in Nat
    /\ None \notin Messages \cup Senders \cup Hooks

VARIABLES
    msg,          \* OutboundMessage: status, attempt_count, next_attempt_at, provider id
    suppression,  \* Suppression.reason of the address
    job,          \* the ScheduledJob of the outbox
    sender,       \* what each process is doing
    taken,        \* provider: messages it has accepted
    emitted,      \* provider: events it has made
    pending,      \* provider: events not answered yet, posted again and again
    seen,         \* DeliveryEvent rows
    hook,         \* the webhook calls that are being handled
    crashes,      \* processes that died or raised
    calls,        \* auxiliary: how often each message was handed to the provider
    applied       \* auxiliary: how often each event was applied to its message

vars == <<msg, suppression, job, sender, taken, emitted, pending, seen, hook,
          crashes, calls, applied>>
mail == <<msg, suppression, job>>
provider == <<taken, emitted, pending>>
webhook == <<seen, hook, applied>>

Happening == Messages \X Events
MessageStatus == {"queued", "accepted", "delivered", "deferred", "failed", "bounced",
                  "complained", "suppressed"}
Idle == [stage |-> "idle", batch |-> {}, now |-> None, answer |-> "none", job |-> FALSE]

TypeOK ==
    /\ msg \in [Messages -> [status : MessageStatus \cup {"none"}, attempts : Nat,
                             next : {"null", "later", "due"}, linked : BOOLEAN]]
    /\ suppression \in {"none", "manual", "unsubscribe", "complaint", "hard_bounce", "invalid"}
    /\ job \in [enabled : BOOLEAN, due : BOOLEAN, lock : Senders \cup {None}, stale : BOOLEAN,
                failures : Nat]
    /\ sender \in [Senders -> [stage : {"idle", "reading", "sending", "failed"},
                               batch : SUBSET Messages, now : Messages \cup {None},
                               answer : {"none", "accepted", "transient", "permanent"},
                               job : BOOLEAN]]
    /\ taken \in SUBSET Messages
    /\ emitted \in SUBSET Happening /\ pending \in SUBSET Happening /\ seen \in SUBSET Happening
    /\ hook \in [Hooks -> [stage : {"idle", "status", "suppress"}, found : BOOLEAN,
                           event : Happening \cup {None}]]
    /\ crashes \in 0 .. MaxCrashes
    /\ calls \in [Messages -> Nat] /\ applied \in [Happening -> Nat]

NoHook == [stage |-> "idle", found |-> FALSE, event |-> None]

Init ==
    /\ msg = [m \in Messages |-> [status |-> "none", attempts |-> 0, next |-> "null",
                                  linked |-> FALSE]]
    /\ suppression \in {"none", "manual", "complaint"}
    /\ job = [enabled |-> TRUE, due |-> TRUE, lock |-> None, stale |-> FALSE, failures |-> 0]
    /\ sender = [p \in Senders |-> Idle]
    /\ taken = {} /\ emitted = {} /\ pending = {} /\ seen = {}
    /\ hook = [h \in Hooks |-> NoHook]
    /\ crashes = 0
    /\ calls = [m \in Messages |-> 0]
    /\ applied = [x \in Happening |-> 0]

-----------------------------------------------------------------------------
(* Queueing *)

\* The address refuses the message.
Blocked(m) ==
    /\ suppression # "none"
    /\ m \in Marketing \/ suppression \in {"complaint", "hard_bounce", "invalid"}

\* enqueue_email: a key that exists is returned as it is.  The request may go
\* on to send the message itself.
Enqueue(p, m, sendNow) ==
    /\ sender[p] = Idle
    /\ msg[m].status = "none"
    /\ msg' = [msg EXCEPT ![m].status = IF Blocked(m) THEN "suppressed" ELSE "queued"]
    /\ sender' = IF sendNow /\ ~Blocked(m)
                 THEN [sender EXCEPT ![p] = [Idle EXCEPT !.stage = "sending", !.batch = {m}]]
                 ELSE sender
    /\ UNCHANGED <<suppression, job, provider, webhook, crashes, calls>>

-----------------------------------------------------------------------------
(* The job runner *)

\* A run starts by freeing locks that are too old.
RecoverStale ==
    /\ job.lock # None /\ job.stale
    /\ job' = [job EXCEPT !.lock = None, !.stale = FALSE]
    /\ UNCHANGED <<msg, suppression, sender, provider, webhook, crashes, calls>>

Claim(p) ==
    /\ sender[p] = Idle
    /\ job.enabled /\ job.due /\ job.lock = None
    /\ job' = [job EXCEPT !.lock = p, !.stale = FALSE]
    /\ sender' = [sender EXCEPT ![p] = [Idle EXCEPT !.stage = "reading", !.job = TRUE]]
    /\ UNCHANGED <<msg, suppression, provider, webhook, crashes, calls>>

\* The command process_email_outbox does the work of the job without a claim.
Command(p) ==
    /\ sender[p] = Idle
    /\ sender' = [sender EXCEPT ![p] = [Idle EXCEPT !.stage = "reading"]]
    /\ UNCHANGED <<mail, provider, webhook, crashes, calls>>

\* Both ends of a run release the lock, whoever holds it by then.
Finish(p, failed) ==
    /\ job' = IF ~sender[p].job THEN job
              ELSE LET n == IF failed THEN job.failures + 1 ELSE 0 IN
                   [enabled |-> job.enabled /\ ~(failed /\ n >= MaxFailures), due |-> FALSE,
                    lock |-> None, stale |-> FALSE, failures |-> n]
    /\ sender' = [sender EXCEPT ![p] = Idle]
    /\ UNCHANGED <<msg, suppression, provider, webhook, crashes, calls>>

Succeed(p) ==
    /\ sender[p].stage = "sending" /\ sender[p].batch = {} /\ sender[p].now = None
    /\ Finish(p, FALSE)

Fail(p) ==
    /\ sender[p].stage = "failed"
    /\ Finish(p, TRUE)

-----------------------------------------------------------------------------
(* Sending *)

\* Mutant: only messages that were never tried are read.
Mut_Eligible == {m \in Messages : msg[m].status = "queued"}
Eligible ==
    {m \in Messages : \/ msg[m].status = "queued"
                      \/ msg[m].status = "deferred" /\ msg[m].next = "due"}

\* process_due_outbox: the keys are read first and processed later.
ReadDue(p) ==
    /\ sender[p].stage = "reading"
    /\ sender' = [sender EXCEPT ![p].stage = "sending", ![p].batch = Eligible]
    /\ UNCHANGED <<mail, provider, webhook, crashes, calls>>

\* Mutant: the row is read without a lock.
Mut_Unlocked(m) == TRUE
\* The row of a message is locked by the process that sends it.
Unlocked(m) == \A p \in Senders : sender[p].now # m

\* process_outbound_message takes the row and looks again.
Take(p, m) ==
    /\ sender[p].stage = "sending" /\ sender[p].now = None /\ m \in sender[p].batch
    /\ Unlocked(m)
    /\ sender' = [sender EXCEPT
           ![p].batch = @ \ {m},
           ![p].now = IF msg[m].status \in {"queued", "deferred"} /\ msg[m].next # "later"
                      THEN m ELSE None]
    /\ UNCHANGED <<mail, provider, webhook, crashes, calls>>

\* The provider answers, or takes the message and the answer is lost.
Call(p) ==
    LET m == sender[p].now IN
    /\ m # None /\ sender[p].answer = "none"
    /\ \E a \in {"accepted", "transient", "permanent"} :
          /\ sender' = [sender EXCEPT ![p].answer = a]
          /\ \/ a # "permanent" /\ taken' = taken \cup {m}
             \/ a # "accepted" /\ UNCHANGED taken
    /\ calls' = [calls EXCEPT ![m] = @ + 1]
    /\ UNCHANGED <<mail, emitted, pending, webhook, crashes>>

\* Mutant: one attempt too many.
Mut_Settle(p) ==
    LET m == sender[p].now
        answer == sender[p].answer
        tried == msg[m].attempts + 1
        retry == answer = "transient" /\ tried <= MaxAttempts IN
    /\ m # None /\ answer # "none"
    /\ msg' = [msg EXCEPT ![m] =
           IF answer = "accepted"
           THEN [status |-> "accepted", attempts |-> tried, next |-> "null", linked |-> TRUE]
           ELSE [@ EXCEPT !.status = IF retry THEN "deferred" ELSE "failed",
                          !.attempts = tried, !.next = IF retry THEN "later" ELSE "null"]]
    /\ sender' = [sender EXCEPT ![p].now = None, ![p].answer = "none"]
    /\ UNCHANGED <<suppression, job, provider, webhook, crashes, calls>>

\* The rest of process_outbound_message, and its commit.
Settle(p) ==
    LET m == sender[p].now
        answer == sender[p].answer
        tried == msg[m].attempts + 1
        retry == answer = "transient" /\ tried < MaxAttempts IN
    /\ m # None /\ answer # "none"
    /\ msg' = [msg EXCEPT ![m] =
           IF answer = "accepted"
           THEN [status |-> "accepted", attempts |-> tried, next |-> "null", linked |-> TRUE]
           ELSE [@ EXCEPT !.status = IF retry THEN "deferred" ELSE "failed",
                          !.attempts = tried, !.next = IF retry THEN "later" ELSE "null"]]
    /\ sender' = [sender EXCEPT ![p].now = None, ![p].answer = "none"]
    /\ UNCHANGED <<suppression, job, provider, webhook, crashes, calls>>

\* The process dies, or its transaction cannot go on: what it has not committed
\* is undone.  Only the second is seen by the job runner.
Crash(p) ==
    /\ sender[p] # Idle /\ crashes < MaxCrashes
    /\ sender' = [sender EXCEPT ![p] = Idle]
    /\ crashes' = crashes + 1
    /\ UNCHANGED <<mail, provider, webhook, calls>>

Raise(p) ==
    /\ sender[p].stage \in {"reading", "sending"} /\ crashes < MaxCrashes
    /\ sender' = [sender EXCEPT ![p] = [Idle EXCEPT !.stage = "failed", !.job = sender[p].job]]
    /\ crashes' = crashes + 1
    /\ UNCHANGED <<mail, provider, webhook, calls>>

-----------------------------------------------------------------------------
(* The webhook *)

\* The provider posts each event until it is answered.
Emit(m, e) ==
    /\ m \in taken /\ <<m, e>> \notin emitted
    /\ emitted' = emitted \cup {<<m, e>>}
    /\ pending' = pending \cup {<<m, e>>}
    /\ UNCHANGED <<mail, sender, taken, webhook, crashes, calls>>

\* Mutant: the event is stored again and processed again.
Mut_HookRecord(h, x) ==
    /\ hook[h] = NoHook /\ x \in pending
    /\ hook' = [hook EXCEPT ![h] = [stage |-> "status", found |-> msg[x[1]].linked, event |-> x]]
    /\ seen' = seen \cup {x}
    /\ UNCHANGED <<mail, provider, sender, applied, crashes, calls>>

\* The message is looked up by the id of the provider and the event stored;
\* an event that was stored before is answered and skipped.  Every event is taken to
\* carry the id of its message: one without would match a message not yet accepted.
HookRecord(h, x) ==
    /\ hook[h] = NoHook /\ x \in pending
    /\ \/ /\ x \notin seen
          /\ hook' = [hook EXCEPT ![h] = [stage |-> "status", found |-> msg[x[1]].linked,
                                          event |-> x]]
          /\ seen' = seen \cup {x}
          /\ UNCHANGED pending
       \/ /\ x \in seen
          /\ pending' = pending \ {x}
          /\ UNCHANGED <<hook, seen>>
    /\ UNCHANGED <<mail, taken, emitted, sender, applied, crashes, calls>>

HookStatus(h) ==
    LET x == hook[h].event
        writes == hook[h].found /\ x[2] \in DOMAIN StatusOf IN
    /\ hook[h].stage = "status"
    /\ \/ /\ writes /\ Unlocked(x[1])
          /\ msg' = [msg EXCEPT ![x[1]].status = StatusOf[x[2]]]
          /\ applied' = [applied EXCEPT ![x] = @ + 1]
       \/ ~writes /\ UNCHANGED <<msg, applied>>
    /\ hook' = [hook EXCEPT ![h].stage = "suppress"]
    /\ UNCHANGED <<suppression, job, provider, sender, seen, crashes, calls>>

HookSuppress(h) ==
    LET x == hook[h].event IN
    /\ hook[h].stage = "suppress"
    /\ suppression' = IF x[2] \in DOMAIN ReasonOf THEN ReasonOf[x[2]] ELSE suppression
    /\ pending' = pending \ {x}
    /\ hook' = [hook EXCEPT ![h] = NoHook]
    /\ UNCHANGED <<msg, job, taken, emitted, sender, seen, applied, crashes, calls>>

\* A call that dies is not answered; each of its writes was committed alone.
HookCrash(h) ==
    /\ hook[h] # NoHook /\ crashes < MaxCrashes
    /\ hook' = [hook EXCEPT ![h] = NoHook]
    /\ crashes' = crashes + 1
    /\ UNCHANGED <<mail, provider, sender, seen, applied, calls>>

-----------------------------------------------------------------------------
(* Time *)

JobDue ==
    /\ ~job.due
    /\ job' = [job EXCEPT !.due = TRUE]
    /\ UNCHANGED <<msg, suppression, sender, provider, webhook, crashes, calls>>

LockAges ==
    /\ job.lock # None /\ ~job.stale
    /\ job' = [job EXCEPT !.stale = TRUE]
    /\ UNCHANGED <<msg, suppression, sender, provider, webhook, crashes, calls>>

BackoffEnds(m) ==
    /\ msg[m].next = "later"
    /\ msg' = [msg EXCEPT ![m].next = "due"]
    /\ UNCHANGED <<suppression, job, sender, provider, webhook, crashes, calls>>

-----------------------------------------------------------------------------

\* What a process that works does next.
Work(p) == \/ ReadDue(p) \/ (\E m \in Messages : Take(p, m)) \/ Call(p) \/ Settle(p)
           \/ Succeed(p) \/ Fail(p)

Next ==
    \/ \E p \in Senders, m \in Messages, sendNow \in BOOLEAN : Enqueue(p, m, sendNow)
    \/ \E p \in Senders : Claim(p) \/ Command(p) \/ Work(p) \/ Crash(p) \/ Raise(p)
    \/ \E m \in Messages, e \in Events : Emit(m, e)
    \/ \E h \in Hooks, x \in pending : HookRecord(h, x)
    \/ \E h \in Hooks : HookStatus(h) \/ HookSuppress(h) \/ HookCrash(h)
    \/ RecoverStale \/ JobDue \/ LockAges
    \/ \E m \in Messages : BackoffEnds(m)

Spec == Init /\ [][Next]_vars

\* Time passes, cron starts the job runner, and a process that works goes on or
\* dies.  Nothing is assumed of requests, commands, the provider or its events.
Fairness ==
    /\ WF_vars(JobDue) /\ WF_vars(LockAges) /\ WF_vars(RecoverStale)
    /\ \A m \in Messages : WF_vars(BackoffEnds(m))
    /\ \A p \in Senders : WF_vars(Work(p) \/ Crash(p) \/ Raise(p))
    /\ SF_vars(\E p \in Senders : Claim(p))

FairSpec == Spec /\ Fairness

-----------------------------------------------------------------------------
(* Properties *)

\* Two workers may own the job at once after a takeover, and a request sends
\* beside them: still a message that was accepted is handed over again only if
\* the provider has reported it as deferred (the second look under the lock in
\* process_outbound_message).  That much is sent again, by a worker that had listed the
\* message before, with no failure and no backoff, although
\* docs/07-integrations-and-communications.md:12 has only transient failures retried.
SentAgainOnlyIfDeferred ==
    [][\A m \in Messages : (calls'[m] # calls[m] /\ msg[m].linked)
          => \E x \in Happening : x[1] = m /\ applied[x] > 0 /\ StatusOf[x[2]] = "deferred"]_vars

\* Before it is accepted a message is handed over at most EMAIL_OUTBOX_MAX_ATTEMPTS
\* times, and once more for each process that died with its attempt uncommitted.
RetriesBudgeted ==
    \A m \in Messages : ~msg[m].linked => calls[m] <= MaxAttempts + crashes

\* An event that the provider posts several times, also while it is handled,
\* changes its message at most once (get_or_create on provider_event_id).
EventAppliedOnce == \A x \in Happening : applied[x] <= 1

\* No further attempt will be made.
Decided(m) ==
    /\ msg[m].status \notin {"none", "queued"}
    /\ msg[m].status = "deferred" => msg[m].next = "null"

\* A queued message is accepted or given up in the end, whatever crashes there
\* were, unless the job has been paused after repeated failures.
QueuedDecided ==
    \A m \in Messages : (msg[m].status = "queued") ~> (Decided(m) \/ ~job.enabled)
=============================================================================
