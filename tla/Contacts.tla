-------------------------------- MODULE Contacts --------------------------------
(***************************************************************************)
(* Marketing consent and the contacts kept at Brevo:                       *)
(* apps/notifications/contacts.py, the newsletter views, the consent that  *)
(* webhooks and anonymization withdraw.                                    *)
(*                                                                         *)
(* Views and webhooks write row after row without a transaction: such a    *)
(* request is the list of the writes it has left.  The job walks all       *)
(* subscriptions (Scan, one address a step), lists what is due and then    *)
(* processes it: one transaction for an address, which locks the record    *)
(* while the provider is called.  The job runs once at a time (Outbox).    *)
(***************************************************************************)
EXTENDS Staff, Integers, Sequences

CONSTANTS
    Emails,     \* addresses of the website's visitors
    Visits,     \* requests that are served at the same time
    MaxTries    \* the attempts a record has (5)

ASSUME ContactsAssumption == None \notin Emails /\ MaxTries \in Nat \ {0}

VARIABLES
    subscription, \* NewsletterSubscription: is there one, is it active
    preference,   \* ContactPreference.consent_granted
    suppression,  \* the reason of the Suppression, or None
    contact,      \* the BrevoContactSync record
    listed,       \* does the provider hold the address as one it may mail
    visit,        \* what each request has left to write
    sync,         \* the job: the addresses to scan, those to process, the open call
    erased        \* auxiliary: the addresses of anonymized guests

contactVars == <<subscription, preference, suppression, contact, listed, visit, sync, erased>>

-----------------------------------------------------------------------------
(* Rows *)

Reasons == {"unsubscribe", "complaint", "hard_bounce", "manual"}
SubscriptionStates == {"none", "active", "inactive"}

\* Attempts beyond MaxTries are not told apart.
ContactRow == [status : {"none", "pending", "synced", "deferred", "failed", "suppressed"},
               desired : BOOLEAN, tries : 0 .. MaxTries]

\* The value of a write: of a subscription, of a preference, or of a suppression, which
\* "lift" deletes if the website may.
Writes == [email : Emails, value : {"active", "inactive", "grant", "withdraw", "lift"} \cup Reasons]

\* The provider's answer, once it has come; "lost" is a call that timed out.
Outcomes == {"open", "ok", "lost", "refused"}
Rest == [scan |-> {}, due |-> {}, call |-> None, desired |-> FALSE,
         outcome |-> "open"]

ContactTypeOK ==
    /\ subscription \in [Emails -> SubscriptionStates]
    /\ preference \in [Emails -> BOOLEAN]
    /\ suppression \in [Emails -> Reasons \cup {None}]
    /\ contact \in [Emails -> ContactRow]
    /\ listed \in [Emails -> BOOLEAN]
    /\ visit \in [Visits -> Seq(Writes)]
    /\ sync \in [scan : SUBSET Emails, due : SUBSET Emails, call : Emails \cup {None},
                 desired : BOOLEAN, outcome : Outcomes]
    /\ erased \subseteq Emails

ContactInit ==
    /\ subscription = [e \in Emails |-> "none"]
    /\ preference = [e \in Emails |-> FALSE]
    /\ suppression = [e \in Emails |-> None]
    /\ contact = [e \in Emails |-> [status |-> "none", desired |-> FALSE, tries |-> 0]]
    /\ listed = [e \in Emails |-> FALSE]
    /\ visit = [v \in Visits |-> <<>>]
    /\ sync = Rest
    /\ erased = {}

\* contact_marketing_consent
Consent(e) == subscription[e] = "active" /\ preference[e] /\ suppression[e] = None

-----------------------------------------------------------------------------
(* Requests *)

ConsentWritten == UNCHANGED <<contact, listed, sync, erased>>

Serve(v, e, values) ==
    /\ visit[v] = <<>>
    /\ visit' = [visit EXCEPT ![v] = [n \in DOMAIN values |-> [email |-> e, value |-> values[n]]]]
    /\ UNCHANGED <<subscription, preference, suppression>>
    /\ ConsentWritten

\* subscribe_newsletter: who is active is told so, and nothing is written.
Subscribe(v, e) ==
    /\ subscription[e] # "active"
    /\ Serve(v, e, <<"active", "grant", "lift">>)

\* portal_newsletter_action
NewsletterAction(v, u, e) ==
    /\ HasRole(u, Management)
    /\ subscription[e] # "none"
    /\ \/ suppression[e] = None /\ Serve(v, e, <<"active", "grant">>)
       \/ Serve(v, e, <<"inactive", "withdraw", "manual">>)
       \/ Serve(v, e, <<"inactive">>)

\* brevo_webhook, once the event is recorded.
ProviderEvent(v, e, reason) ==
    /\ reason # "manual"
    /\ Serve(v, e, IF reason = "unsubscribe" THEN <<reason, "withdraw">> ELSE <<reason>>)

WriteNext(v) ==
    LET e == Head(visit[v]).email
        value == Head(visit[v]).value
    IN  /\ visit[v] # <<>>
        /\ visit' = [visit EXCEPT ![v] = Tail(@)]
        /\ subscription' = IF value \in SubscriptionStates
                           THEN [subscription EXCEPT ![e] = value] ELSE subscription
        /\ preference' = IF value \in {"grant", "withdraw"}
                         THEN [preference EXCEPT ![e] = (value = "grant")] ELSE preference
        /\ suppression' = CASE value \in Reasons -> [suppression EXCEPT ![e] = value]
                            [] value = "lift" /\ suppression[e] \in {"manual", "unsubscribe"}
                               -> [suppression EXCEPT ![e] = None]
                            [] OTHER -> suppression
        /\ ConsentWritten

\* A process dies, or the second of two inserts of one row raises.
DropVisit(v) ==
    /\ visit[v] # <<>>
    /\ visit' = [visit EXCEPT ![v] = <<>>]
    /\ UNCHANGED <<subscription, preference, suppression>>
    /\ ConsentWritten

\* execute_privacy_request (anonymize): one transaction, which waits for the lock of the
\* record and marks it without a call.
EraseContact(u, e) ==
    /\ HasRole(u, Management)
    /\ e \notin erased
    /\ sync.call # e
    /\ erased' = erased \cup {e}
    /\ subscription' = [subscription EXCEPT ![e] = IF @ = "none" THEN @ ELSE "inactive"]
    /\ preference' = [preference EXCEPT ![e] = FALSE]
    /\ suppression' = [suppression EXCEPT ![e] = "manual"]
    /\ contact' = [contact EXCEPT ![e] =
                      IF @.status = "none" THEN @
                      ELSE [@ EXCEPT !.desired = FALSE, !.status = "suppressed"]]
    /\ UNCHANGED <<listed, visit, sync>>

-----------------------------------------------------------------------------
(* The job *)

JobStep == UNCHANGED <<subscription, preference, suppression, visit, erased>>

BeginPass ==
    /\ sync = Rest
    /\ sync' = [Rest EXCEPT !.scan = {e \in Emails : subscription[e] # "none"}]
    /\ sync'.scan # {}
    /\ JobStep /\ UNCHANGED <<contact, listed>>

\* A due time that has not come is left to chance.
Due(rows) ==
    {D \in SUBSET Emails : /\ \A e \in D : rows[e].status \in {"pending", "deferred"}
                           /\ \A e \in Emails : rows[e].status = "pending" => e \in D}

\* enqueue_contact_sync when the consent is not the one that was asked for last; the
\* attempts are not counted anew.  After the last address, the list of what is due.
Scan(e) ==
    /\ e \in sync.scan
    /\ contact' = IF contact[e].status = "none" \/ contact[e].desired # Consent(e)
                  THEN [contact EXCEPT ![e].status = "pending", ![e].desired = Consent(e)]
                  ELSE contact
    /\ IF sync.scan = {e}
       THEN \E D \in Due(contact') : sync' = [Rest EXCEPT !.due = D]
       ELSE sync' = [sync EXCEPT !.scan = @ \ {e}]
    /\ JobStep /\ UNCHANGED listed

\* process_contact_sync: the consent is read again under the lock, and sent.
CallProvider(e, outcome) ==
    /\ e \in sync.due /\ sync.call = None
    /\ sync' = [sync EXCEPT !.due = @ \ {e}, !.call = e, !.desired = Consent(e),
                            !.outcome = outcome]
    /\ \/ outcome \in {"ok", "lost"} /\ listed' = [listed EXCEPT ![e] = Consent(e)]
       \/ outcome \in {"lost", "refused"} /\ UNCHANGED listed
    /\ JobStep /\ UNCHANGED contact

\* Mutant: a call that timed out is taken for one that was answered.
Mut_Settled(tries) ==
    CASE sync.outcome # "refused" -> IF sync.desired THEN "synced" ELSE "suppressed"
      [] OTHER -> "failed"
\* The status that the answer to an attempt leads to; a lost call is transient.
Settled(tries) ==
    CASE sync.outcome = "ok" -> IF sync.desired THEN "synced" ELSE "suppressed"
      [] sync.outcome = "lost" /\ tries < MaxTries -> "deferred"
      [] OTHER -> "failed"

SaveContact ==
    LET e == sync.call
        tries == IF contact[e].tries < MaxTries THEN contact[e].tries + 1 ELSE MaxTries
    IN  /\ e # None
        /\ contact' = [contact EXCEPT ![e] = [status |-> Settled(tries), tries |-> tries,
                                              desired |-> sync.desired]]
        /\ sync' = [Rest EXCEPT !.due = sync.due]
        /\ JobStep /\ UNCHANGED listed

\* The job dies or raises: an open transaction is rolled back, but not what the
\* provider was told.
DropPass ==
    /\ sync # Rest
    /\ sync' = Rest
    /\ JobStep /\ UNCHANGED <<contact, listed>>

ContactNext ==
    \/ \E v \in Visits :
          \/ \E e \in Emails :
                \/ Subscribe(v, e)
                \/ \E u \in Staff : NewsletterAction(v, u, e)
                \/ \E reason \in Reasons : ProviderEvent(v, e, reason)
          \/ WriteNext(v) \/ DropVisit(v)
    \/ \E u \in Staff, e \in Emails : EraseContact(u, e)
    \/ BeginPass
    \/ \E e \in Emails :
          \/ Scan(e)
          \/ \E outcome \in Outcomes \ {"open"} : CallProvider(e, outcome)
    \/ SaveContact \/ DropPass

ContactSpec == ContactInit /\ [][ContactNext]_contactVars

-----------------------------------------------------------------------------
(* Properties *)

\* While no call is open, a record that says synced or suppressed says what the
\* provider holds, whatever was lost, timed out or died on the way: the job would not
\* look at such an address again.  Anonymized guests are the subject of the next one.
SyncedAtProvider ==
    \A e \in Emails \ erased :
        (contact[e].status \in {"synced", "suppressed"} /\ sync.call # e)
        => /\ contact[e].desired = (contact[e].status = "synced")
           /\ listed[e] = contact[e].desired

\* docs/11-implementation-log.md: suppression always overrides marketing consent.  A
\* contact that is recorded as suppressed is not listed for marketing at the provider.
SuppressedAtProvider ==
    \A e \in Emails : (contact[e].status = "suppressed" /\ sync.call # e) => ~listed[e]
=============================================================================
