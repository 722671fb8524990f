-------------------------------- MODULE Guests --------------------------------
(***************************************************************************)
(* Guest accounts: merging duplicates (apps/accounts/guests.py), and       *)
(* privacy requests with the anonymization they lead to                    *)
(* (apps/accounts/privacy.py).                                             *)
(*                                                                         *)
(* A merge and an execution are transactions that begin with the locks and *)
(* the checks and end with the writes.  Inserting a row that refers to an  *)
(* account (a reservation) takes a shared lock on the account, the foreign *)
(* key, and keeps it until its transaction ends.  The users' API takes no  *)
(* lock: it saves every field of an account as it was read when the        *)
(* request came.  Of the personal data the model keeps whether there are   *)
(* any, of what belongs to an account the stays.  (The history of requests *)
(* is the subject of Casework, the withdrawal of consent that of           *)
(* Contacts.)                                                              *)
(***************************************************************************)
EXTENDS Staff, Integers

CONSTANTS
    Guests,      \* primary keys of guest accounts
    Bookings,    \* reservations
    Requests,    \* privacy requests
    Offices      \* database connections

ASSUME GuestsAssumption == Guests \subseteq Nat /\ None \notin Guests

VARIABLES
    account,     \* guest accounts
    booking,     \* reservations: whose they are, and whether they are active
    request,     \* privacy requests
    merges,      \* the duplicates of GuestMergeHistory, each in one row
    draft,       \* the account as an open update_me has read it
    office       \* the open transactions

guestVars == <<account, booking, request, merges, draft, office>>

-----------------------------------------------------------------------------
(* Rows *)

\* `personal`: names, phone, address and identity data; `into`: merged_into.
AccountRow == [active : BOOLEAN, personal : BOOLEAN, legal_hold : BOOLEAN,
               anonymized : BOOLEAN, into : Guests \cup {None}]
BookingRow == [guest : Guests \cup {None}, active : BOOLEAN]
\* A correction is executed as an export is: without an effect on what is modelled.
RequestRow == [guest : Guests \cup {None}, type : {"none", "export", "anonymize"},
               status : {"none", "submitted", "approved", "rejected", "completed"}]

\* `for` is the primary of a merge, the account of a booking or an execution.
GuestWork == [kind : {"idle", "merge", "execute", "book"}, for : Guests \cup {None},
              duplicate : Guests \cup {None}, booking : Bookings \cup {None},
              request : Requests \cup {None}]
NoWork == [kind |-> "idle", for |-> None, duplicate |-> None, booking |-> None,
           request |-> None]

GuestTypeOK ==
    /\ account \in [Guests -> AccountRow]
    /\ booking \in [Bookings -> BookingRow]
    /\ request \in [Requests -> RequestRow]
    /\ merges \subseteq Guests
    /\ draft \in [Guests -> SUBSET AccountRow]
    /\ office \in [Offices -> GuestWork]

GuestInit ==
    /\ account = [g \in Guests |-> [active |-> TRUE, personal |-> TRUE, legal_hold |-> FALSE,
                                    anonymized |-> FALSE, into |-> None]]
    /\ booking = [b \in Bookings |-> [guest |-> None, active |-> FALSE]]
    /\ request = [r \in Requests |-> [guest |-> None, type |-> "none", status |-> "none"]]
    /\ merges = {}
    /\ draft = [g \in Guests |-> {}]
    /\ office = [o \in Offices |-> NoWork]

-----------------------------------------------------------------------------
(* Locks *)

BeginWork(o, work) ==
    /\ office[o] = NoWork
    /\ office' = [office EXCEPT ![o] = work]
    /\ UNCHANGED <<account, booking, request, merges, draft>>

EndWork(o, kind) == office[o].kind = kind /\ office' = [office EXCEPT ![o] = NoWork]

\* Nobody has locked the account for writing.
Referable(g) ==
    \A o \in Offices : office[o].kind \in {"merge", "execute"}
                       => g \notin {office[o].for, office[o].duplicate}
\* Mutant: the account is read without select_for_update.
Mut_AccountFree(g) == TRUE
\* Nobody has locked it at all, or inserts a row that refers to it.
AccountFree(g) == \A o \in Offices : g \notin {office[o].for, office[o].duplicate}

-----------------------------------------------------------------------------
(* Reservations, as far as they belong to guests *)

\* create_reservation inserts the row, for a guest whose request was let through when
\* it came, or whom the desk chose in its form.
BeginBooking(o, b, g) ==
    /\ booking[b].guest = None /\ \A p \in Offices : office[p].booking # b
    /\ Referable(g)
    /\ BeginWork(o, [NoWork EXCEPT !.kind = "book", !.for = g, !.booking = b])

CommitBooking(o) ==
    /\ EndWork(o, "book")
    /\ booking' = [booking EXCEPT ![office[o].booking] = [guest |-> office[o].for, active |-> TRUE]]
    /\ UNCHANGED <<account, request, merges, draft>>

\* transition_reservation: checked out, cancelled or no show.
EndBooking(b) ==
    /\ booking[b].active
    /\ booking' = [booking EXCEPT ![b].active = FALSE]
    /\ UNCHANGED <<account, request, merges, draft, office>>

-----------------------------------------------------------------------------
(* Accounts *)

\* Mutant: the accounts are not looked at again once they are locked.
Mut_Mergeable(p, d) == p # d
\* The checks of merge_guest_accounts, made under the locks of both accounts.
Mergeable(p, d) == p # d /\ account[p].into = None /\ account[d].into = None

\* merge_guest_accounts: both rows are locked by one query, in the order of their keys.
BeginMerge(o, u, p, d) ==
    /\ HasRole(u, Management)
    /\ AccountFree(p) /\ AccountFree(d)
    /\ Mergeable(p, d)
    /\ BeginWork(o, [NoWork EXCEPT !.kind = "merge", !.for = p, !.duplicate = d])

\* The primary gets what belongs to the duplicate, and the data it lacks itself; the
\* legal hold stays where it is, and the names of the duplicate do.  A duplicate has one
\* row in the history.
CommitMerge(o) ==
    LET p == office[o].for
        d == office[o].duplicate
    IN  /\ EndWork(o, "merge")
        /\ d \notin merges /\ merges' = merges \cup {d}
        /\ booking' = [b \in Bookings |-> IF booking[b].guest = d
                                          THEN [booking[b] EXCEPT !.guest = p] ELSE booking[b]]
        /\ account' = [account EXCEPT ![p].personal = @ \/ account[d].personal,
                                      ![d].active = FALSE, ![d].into = p]
        /\ UNCHANGED <<request, draft>>

\* portal_profile, the fields of the profile only, whatever became of the account since
\* the request was let through.
SaveProfile(g) ==
    /\ AccountFree(g)
    /\ account' = [account EXCEPT ![g].personal = TRUE]
    /\ UNCHANGED <<booking, request, merges, draft, office>>

\* update_me of the users' API reads the account with the request...
BeginUpdate(g) ==
    /\ account[g].active /\ draft[g] = {}
    /\ draft' = [draft EXCEPT ![g] = {account[g]}]
    /\ UNCHANGED <<account, booking, request, merges, office>>

\* ... and saves all of it, the flags that changed meanwhile included.
SaveUpdate(g) ==
    /\ AccountFree(g)
    /\ \E row \in draft[g] : account' = [account EXCEPT ![g] = [row EXCEPT !.personal = TRUE]]
    /\ draft' = [draft EXCEPT ![g] = {}]
    /\ UNCHANGED <<booking, request, merges, office>>

\* UserProfileAdmin: administrators keep the legal hold.
SetLegalHold(u, g, hold) ==
    /\ HasRole(u, {"admin"})
    /\ AccountFree(g)
    /\ account' = [account EXCEPT ![g].legal_hold = hold]
    /\ UNCHANGED <<booking, request, merges, draft, office>>

-----------------------------------------------------------------------------
(* Privacy requests *)

\* submit_privacy_request.  (Two that overlap both find no active one.)
SubmitRequest(r, g, type) ==
    /\ request[r].status = "none"
    /\ account[g].into = None /\ account[g].active
    /\ \A s \in Requests : ~(request[s].guest = g /\ request[s].type = type
                             /\ request[s].status \in {"submitted", "approved"})
    /\ request' = [request EXCEPT ![r] = [guest |-> g, type |-> type, status |-> "submitted"]]
    /\ UNCHANGED <<account, booking, merges, draft, office>>

\* review_privacy_request
ReviewRequest(u, r, decision) ==
    /\ HasRole(u, Management)
    /\ request[r].status = "submitted"
    /\ request' = [request EXCEPT ![r].status = decision]
    /\ UNCHANGED <<account, booking, merges, draft, office>>

\* _anonymization_blockers.  (Open folios with a balance are left out.)
Blocked(g) ==
    \/ account[g].legal_hold
    \/ \E b \in Bookings : booking[b].guest = g /\ booking[b].active

\* execute_privacy_request: the request and then the account of it are locked.
BeginExecute(o, u, r) ==
    LET g == request[r].guest IN
    /\ HasRole(u, Management)
    /\ request[r].status = "approved" /\ \A p \in Offices : office[p].request # r
    /\ AccountFree(g)
    /\ request[r].type = "anonymize" => ~Blocked(g)
    /\ BeginWork(o, [NoWork EXCEPT !.kind = "execute", !.for = g, !.request = r])

CommitExecute(o) ==
    LET g == office[o].for
        r == office[o].request
    IN  /\ EndWork(o, "execute")
        /\ account' = IF request[r].type = "anonymize"
                      THEN [account EXCEPT ![g].personal = FALSE, ![g].active = FALSE,
                                           ![g].anonymized = TRUE]
                      ELSE account
        /\ request' = [request EXCEPT ![r].status = "completed"]
        /\ UNCHANGED <<booking, merges, draft>>

RollBackWork(o) ==
    /\ office[o] # NoWork
    /\ office' = [office EXCEPT ![o] = NoWork]
    /\ UNCHANGED <<account, booking, request, merges, draft>>

-----------------------------------------------------------------------------

\* portal_guests and the users' API
PortalGuests(o, u) == \E p, d \in Guests : BeginMerge(o, u, p, d)

\* portal_privacy
PortalPrivacy(o, u, r) ==
    \/ \E decision \in {"approved", "rejected"} : ReviewRequest(u, r, decision)
    \/ BeginExecute(o, u, r)
    \/ \E g \in Guests, type \in {"export", "anonymize"} : SubmitRequest(r, g, type)

GuestNext ==
    \/ \E o \in Offices :
          \/ \E b \in Bookings, g \in Guests : BeginBooking(o, b, g)
          \/ \E u \in Staff : PortalGuests(o, u) \/ \E r \in Requests : PortalPrivacy(o, u, r)
          \/ CommitBooking(o) \/ CommitMerge(o) \/ CommitExecute(o) \/ RollBackWork(o)
    \/ \E b \in Bookings : EndBooking(b)
    \/ \E g \in Guests :
          \/ SaveProfile(g) \/ BeginUpdate(g) \/ SaveUpdate(g)
          \/ \E u \in Staff, hold \in BOOLEAN : SetLegalHold(u, g, hold)

GuestSpec == GuestInit /\ [][GuestNext]_guestVars

-----------------------------------------------------------------------------
(* Properties *)

\* However merges overlap, following merged_into never goes round in a circle: every
\* account leads to one that stands for the guest.
MergesEnd ==
    \A S \in SUBSET Guests :
        (S # {} /\ \A g \in S : account[g].into # None) => \E g \in S : account[g].into \notin S

\* docs/20-privacy-governance-runbook.md: active stays and legal holds block
\* anonymization, also those that are written while it runs.
ErasedWithoutStay ==
    [][\A g \in Guests : (account'[g].anonymized /\ ~account[g].anonymized) => ~Blocked(g)]_guestVars
=============================================================================
