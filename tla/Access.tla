--------------------------------- MODULE Access ---------------------------------
(***************************************************************************)
(* Accounts, portal sessions and the second factor of staff:               *)
(* apps/accounts (users, mfa.py, middleware.py, the API of users), the     *)
(* sign-in views and portal_staff.                                         *)
(*                                                                         *)
(* Time is counted in the 30-second steps of the authenticator.  The code  *)
(* of a step, and a recovery code, are known to their owner alone; two     *)
(* codes of one secret are never equal.  Verifying a code is a             *)
(* transaction: it begins with the lock of the device and ends with the    *)
(* writes and the login.  Who has a password, or a set-password link, is   *)
(* the owner of the account.  Left out: the throttle of failed sign-ins,   *)
(* the tokens that the API hands out, and that a new password ends the     *)
(* other sessions of its user.                                             *)
(***************************************************************************)
EXTENDS Staff, Integers

CONSTANTS
    Members,        \* the users whose accounts are looked at
    DefaultUsers,   \* those with a configured password among DEFAULT_USERS
    Browsers,       \* sessions
    MfaRequired,    \* settings.STAFF_MFA_REQUIRED
    RecoveryCodes,  \* how many recovery codes an enrolment makes
    MaxAttempts,    \* settings.MFA_MAX_ATTEMPTS
    LockSteps,      \* settings.MFA_LOCK_MINUTES
    PendingSteps,   \* how long a sign-in waits for its code (300 seconds)
    Linked,         \* bound: who is written to when he asks for a link or for a booking,
                    \* and whose account the API of users writes
    LastStep,       \* bound: the clock
    Secrets         \* bound: enrolments of a user

ASSUME AccessAssumption ==
    /\ Members \subseteq Staff /\ DefaultUsers \cup Linked \subseteq Members
    /\ MfaRequired \in BOOLEAN
    /\ {RecoveryCodes, PendingSteps, LastStep} \subseteq Nat
    /\ {MaxAttempts, LockSteps, Secrets} \subseteq Nat \ {0}

VARIABLES
    now,        \* the clock
    member,     \* UserProfile: its status, its password, a link to set one, and is_staff
    device,     \* the MFA device of each user
    session,    \* who each session is logged in as, verified for, and waits to verify
    check,      \* the open verification of each session
    accepted,   \* auxiliary: the codes that were accepted
    reused      \* auxiliary: those that were accepted more than once

accessVars == <<now, member, device, session, check, accepted, reused>>

-----------------------------------------------------------------------------
(* Rows *)

\* `link`: one to set a password is out.  `site` (is_staff): he may use the Django admin.
MemberRow == [status : {"none", "active", "inactive"}, password : BOOLEAN, link : BOOLEAN,
              site : BOOLEAN]
NoMember == [status |-> "none", password |-> FALSE, link |-> FALSE, site |-> FALSE]

\* A code of a device: the step it is shown at, or the number of a recovery code.
Code == [user : Members, secret : 1 .. Secrets, kind : {"totp"}, n : Nat]
        \cup [user : Members, secret : 1 .. Secrets, kind : {"recovery"}, n : 1 .. RecoveryCodes]

\* `secret` counts the enrolments; `locked` is the step the lock ends.
DeviceRow == [status : {"none", "pending", "confirmed"}, secret : 0 .. Secrets, last : Int,
              recovery : SUBSET (1 .. RecoveryCodes), failed : Nat, locked : Nat]
NoDevice == [status |-> "none", secret |-> 0, last |-> -1, recovery |-> {}, failed |-> 0,
             locked |-> 0]

\* `proven`, auxiliary: the users whose codes were accepted in the session.
SessionRow == [user : Members \cup {None}, verified : Members \cup {None},
               pending : Members \cup {None}, until : Nat, proven : SUBSET Members]
NewSession == [user |-> None, verified |-> None, pending |-> None, until |-> 0, proven |-> {}]

\* Whose code is being verified, the device as it was read, when, and is it for the API.
NoCheck == [user |-> None, read |-> NoDevice, at |-> 0, api |-> FALSE]

AccessTypeOK ==
    /\ now \in 0 .. LastStep
    /\ member \in [Members -> MemberRow]
    /\ device \in [Members -> DeviceRow]
    /\ session \in [Browsers -> SessionRow]
    /\ check \in [Browsers -> [user : Members \cup {None}, read : DeviceRow, at : 0 .. LastStep,
                               api : BOOLEAN]]
    /\ accepted \subseteq Code /\ reused \subseteq accepted

AccessInit ==
    /\ now = 0
    /\ member = [u \in Members |-> NoMember]
    /\ device = [u \in Members |-> NoDevice]
    /\ session = [b \in Browsers |-> NewSession]
    /\ check = [b \in Browsers |-> NoCheck]
    /\ accepted = {} /\ reused = {}

-----------------------------------------------------------------------------
(* Sessions *)

MfaStaff == {"admin", "manager", "receptionist", "accountant", "housekeeping"}

\* staff_mfa_required
StaffMfaRequired(u) ==
    HasRole(u, MfaStaff) /\ (MfaRequired \/ device[u].status = "confirmed")

IsActive(u) == member[u].status = "active"

\* Whom a session is logged in as: an inactive user is nobody.
LoggedIn(b) ==
    IF session[b].user # None /\ IsActive(session[b].user) THEN session[b].user ELSE None

\* _pending_mfa_user
PendingUser(b) ==
    LET u == session[b].pending IN
    IF u # None /\ IsActive(u) /\ now <= session[b].until THEN u ELSE None

\* django.contrib.auth.login begins a new session, unless the session is nobody's or
\* the user's own.
Login(b, u) == IF session[b].user \in {None, u} THEN [session[b] EXCEPT !.user = u]
               ELSE [NewSession EXCEPT !.user = u]
\* _complete_mfa_login
MfaLogin(b, u) == [Login(b, u) EXCEPT !.verified = u, !.pending = None, !.until = 0]

\* Where requests go: the paths that StaffMFASessionMiddleware exempts (those of files and
\* of the health checks are left out), and the others, by their applications.
ExemptPrefixes == {"/portal/sign-in/", "/portal/logout/", "/portal/mfa/", "/api/"}
GuardedPrefixes == {"/portal/", "/admin/", "/"}

\* Mutant: the pages of the portal are exempted with those of its sign-in.
Mut_LetIn(b, path) ==
    (/\ LoggedIn(b) # None /\ StaffMfaRequired(LoggedIn(b))
     /\ path \notin ExemptPrefixes \cup {"/portal/"}) => session[b].verified = LoggedIn(b)
\* StaffMFASessionMiddleware lets the request of a session through.
LetIn(b, path) ==
    (/\ LoggedIn(b) # None /\ StaffMfaRequired(LoggedIn(b))
     /\ path \notin ExemptPrefixes) => session[b].verified = LoggedIn(b)

SessionStep(b, row) ==
    /\ check[b] = NoCheck
    /\ session' = [session EXCEPT ![b] = row]
    /\ UNCHANGED <<now, device, check, accepted, reused>>

AwaitsCode(b, u) == [session[b] EXCEPT !.pending = u, !.until = now + PendingSteps]

\* login() stamps last_login, and so ends the links that are out.
Stamped(u) == [member EXCEPT ![u].link = FALSE]

\* portal_sign_in
SignIn(b, u) ==
    /\ LoggedIn(b) = None
    /\ IsActive(u) /\ member[u].password
    /\ IF StaffMfaRequired(u)
       THEN SessionStep(b, AwaitsCode(b, u)) /\ UNCHANGED member
       ELSE SessionStep(b, Login(b, u)) /\ member' = Stamped(u)

\* portal_set_password: it does not ask who is logged in, or whether the account is
\* active.  A new password ends the links.
SetPassword(b, u) ==
    /\ LetIn(b, "/portal/")
    /\ member[u].link
    /\ member' = [member EXCEPT ![u].password = TRUE, ![u].link = FALSE]
    /\ SessionStep(b, IF StaffMfaRequired(u) THEN AwaitsCode(b, u) ELSE Login(b, u))

Registered(u) == [member EXCEPT ![u].status = "active", ![u].password = TRUE]

\* portal_sign_up makes a guest, with an address nobody has, and logs him in.
PortalSignUpForm(u) == member[u] = NoMember /\ HasRole(u, {"guest"})
SignUp(b, u) ==
    /\ LoggedIn(b) = None
    /\ PortalSignUpForm(u)
    /\ member' = Registered(u)
    /\ SessionStep(b, Login(b, u))

\* portal_logout
Logout(b) == LoggedIn(b) # None /\ SessionStep(b, NewSession) /\ UNCHANGED member

\* Whoever may not pass on a guarded page is logged out.
TurnAway(b) == ~LetIn(b, "/portal/") /\ SessionStep(b, NewSession) /\ UNCHANGED member

\* portal_verify_booking, with the code that went to the address of u.  An account with a
\* password, whosoever, is logged in; one without gets a link.  A new guest is kept even
\* if the booking is refused: then there is no link.
VerifyBooking(b, u) ==
    /\ u \in Linked /\ LetIn(b, "/portal/")
    /\ member[u] = NoMember => HasRole(u, {"guest"})
    /\ IF member[u].password
       THEN SessionStep(b, Login(b, u)) /\ member' = Stamped(u)
       ELSE /\ \E booked \in BOOLEAN :
                 member' = [member EXCEPT ![u].status = IF @ = "none" THEN "active" ELSE @,
                                          ![u].link = @ \/ booked]
            /\ SessionStep(b, session[b])

\* The sign-in of the Django admin: name and password of a user it is open to.
AdminSignIn(b, u) ==
    /\ LetIn(b, "/admin/")
    /\ IsActive(u) /\ member[u].password /\ member[u].site
    /\ SessionStep(b, Login(b, u)) /\ member' = Stamped(u)

-----------------------------------------------------------------------------
(* Accounts *)

AccountStep == UNCHANGED <<now, device, session, check, accepted, reused>>

\* portal_staff: a new account without a password, and an invitation to set one.
PortalStaff(actor, u) ==
    /\ HasRole(actor, {"admin"})
    /\ member[u] = NoMember /\ HasRole(u, MfaStaff)
    /\ member' = [member EXCEPT ![u].status = "active", ![u].link = TRUE]
    /\ AccountStep

\* portal_staff_action: activate, deactivate, and delete, which only deactivates.
StaffAction(actor, u, on) ==
    /\ HasRole(actor, {"admin"}) /\ actor # u
    /\ member[u] # NoMember
    /\ HasRole(u, {"admin", "manager", "receptionist", "housekeeping"})
    /\ member' = [member EXCEPT ![u].status = IF on THEN "active" ELSE "inactive"]
    /\ AccountStep

\* portal_staff_action resend_invite
ResendInvite(actor, u) ==
    /\ HasRole(actor, {"admin"}) /\ actor # u
    /\ member[u] # NoMember
    /\ HasRole(u, {"admin", "manager", "receptionist", "housekeeping"})
    /\ member' = [member EXCEPT ![u].link = TRUE]
    /\ AccountStep

\* portal_password_reset, for the owner of an address.
PasswordReset(b, u) ==
    /\ u \in Linked
    /\ LoggedIn(b) = None
    /\ IsActive(u)
    /\ member' = [member EXCEPT ![u].link = TRUE]
    /\ AccountStep

\* The public (None) registers guests, an administrator creates any user.
UserCreateSerializer(actor, u) ==
    /\ member[u] = NoMember
    /\ IF actor = None THEN HasRole(u, {"guest"}) ELSE HasRole(actor, {"admin"})

\* update, and update_me: is_active can be written.  An inactive user cannot ask.
MayUpdate(actor, u) ==
    /\ member[u] # NoMember /\ actor # None
    /\ \/ HasRole(actor, {"admin"})
       \/ actor = u /\ IsActive(u) /\ HasRole(u, HouseStaff \cup {"guest"})

\* The API of users.  What a user writes of his profile, and merge_guest, are in Guests.
UserProfileViewSet(actor, u) ==
    /\ u \in Linked
    /\ \/ UserCreateSerializer(actor, u) /\ member' = Registered(u)
       \/ /\ MayUpdate(actor, u)
          /\ \E status \in {"active", "inactive"} : member' = [member EXCEPT ![u].status = status]
    /\ AccountStep

\* ensure_default_users, which every deployment runs: it creates what is missing and
\* makes all of them active again, and staff of the Django admin.
EnsureDefaultUsers ==
    /\ member' = [u \in Members |-> IF u \in DefaultUsers
                      THEN [member[u] EXCEPT !.status = "active", !.password = TRUE,
                                              !.link = member[u].link /\ member[u].password,
                                              !.site = RoleOf[u] # "guest"]
                      ELSE member[u]]
    /\ AccountStep

-----------------------------------------------------------------------------
(* Devices *)

DeviceStep == UNCHANGED <<now, member, session, check, accepted, reused>>

\* Mutant: the device is read without select_for_update.
Mut_DeviceFree(u) == TRUE
DeviceFree(u) == \A b \in Browsers : check[b].user # u

\* portal_mfa_enroll is for the user of the session or the one who waits to be.
Enrols(b) == IF LoggedIn(b) # None THEN LoggedIn(b) ELSE PendingUser(b)

\* begin_mfa_enrollment; the page shows the secret that is pending.
BeginEnrolment(b) ==
    LET u == Enrols(b) IN
    /\ u # None /\ HasRole(u, MfaStaff)
    /\ device[u].status = "none"
    /\ device[u].secret < Secrets
    /\ device' = [device EXCEPT ![u].status = "pending", ![u].secret = @ + 1]
    /\ DeviceStep

\* The codes of a device that _matching_counter finds at a time.
Shown(u, row, at) == {[user |-> u, secret |-> row.secret, kind |-> "totp", n |-> k] :
                      k \in {k \in at - 1 .. at + 1 : k >= 0}}

Accept(code) == accepted' = accepted \cup {code} /\ reused' = reused \cup ({code} \cap accepted)

\* confirm_mfa_enrollment, and the login of who was waiting for it.
ConfirmEnrolment(b, code) ==
    LET u == Enrols(b) IN
    /\ check[b] = NoCheck
    /\ u # None /\ HasRole(u, MfaStaff)
    /\ device[u].status = "pending" /\ DeviceFree(u)
    /\ code \in Shown(u, device[u], now)
    /\ device' = [device EXCEPT ![u].status = "confirmed", ![u].last = code.n,
                                ![u].recovery = 1 .. RecoveryCodes, ![u].failed = 0,
                                ![u].locked = 0]
    /\ LET row == IF LoggedIn(b) = None THEN MfaLogin(b, u) ELSE session[b] IN
       session' = [session EXCEPT ![b] = [row EXCEPT !.proven = @ \cup {u}]]
    /\ member' = IF LoggedIn(b) = None THEN Stamped(u) ELSE member
    /\ Accept(code)
    /\ UNCHANGED <<now, check>>

\* verify_mfa_code
BeginVerify(b, u, api) ==
    /\ check[b] = NoCheck
    /\ device[u].status = "confirmed" /\ DeviceFree(u)
    /\ device[u].locked <= now
    /\ check' = [check EXCEPT ![b] = [user |-> u, read |-> device[u], at |-> now, api |-> api]]
    /\ UNCHANGED <<now, member, device, session, accepted, reused>>

PortalMfaChallenge(b) ==
    PendingUser(b) # None /\ BeginVerify(b, PendingUser(b), FALSE)

\* The sign-in of the API.
LoginSerializer(b, u) ==
    /\ IsActive(u) /\ member[u].password
    /\ StaffMfaRequired(u)
    /\ BeginVerify(b, u, TRUE)

\* The recovery codes of a device that are left.
Left(u, row) == {[user |-> u, secret |-> row.secret, kind |-> "recovery", n |-> k] :
                 k \in row.recovery}

\* A code that is used up is no code: a step must be later than the last one.
ValidCodes(b) ==
    {code \in Shown(check[b].user, check[b].read, check[b].at) : code.n > check[b].read.last}
    \cup Left(check[b].user, check[b].read)

Verified(b, code) ==
    LET u == check[b].user IN
    /\ u # None /\ code \in ValidCodes(b)
    /\ check' = [check EXCEPT ![b] = NoCheck]
    /\ device' = [device EXCEPT ![u].failed = 0, ![u].locked = 0,
                      ![u].last = IF code.kind = "totp" THEN code.n ELSE check[b].read.last,
                      ![u].recovery = check[b].read.recovery
                                      \ (IF code.kind = "recovery" THEN {code.n} ELSE {})]
    /\ IF check[b].api THEN UNCHANGED <<session, member>>
       ELSE /\ session' = [session EXCEPT ![b] = [MfaLogin(b, u) EXCEPT !.proven = @ \cup {u}]]
            /\ member' = Stamped(u)
    /\ Accept(code)
    /\ UNCHANGED now

Refused(b) ==
    LET u == check[b].user
        failed == check[b].read.failed + 1
    IN  /\ u # None
        /\ check' = [check EXCEPT ![b] = NoCheck]
        /\ device' = [device EXCEPT ![u].failed = IF failed >= MaxAttempts THEN 0 ELSE failed,
                                    ![u].locked = IF failed >= MaxAttempts
                                                  THEN now + LockSteps ELSE @]
        /\ UNCHANGED <<now, member, session, accepted, reused>>

\* reset_mfa deletes the device.
ResetMfa(actor, u) ==
    /\ HasRole(actor, {"admin"})
    /\ DeviceFree(u)
    /\ device' = [device EXCEPT ![u] = [NoDevice EXCEPT !.secret = device[u].secret]]
    /\ DeviceStep

Tick ==
    /\ now < LastStep /\ now' = now + 1
    /\ UNCHANGED <<member, device, session, check, accepted, reused>>

AccessNext ==
    \/ \E b \in Browsers :
          \/ \E u \in Members : SignIn(b, u) \/ SetPassword(b, u) \/ SignUp(b, u)
                               \/ PasswordReset(b, u) \/ VerifyBooking(b, u) \/ AdminSignIn(b, u)
          \/ Logout(b) \/ TurnAway(b)
          \/ BeginEnrolment(b)
          \/ \E u \in Members : \/ \E code \in Shown(u, device[u], now) : ConfirmEnrolment(b, code)
                               \/ LoginSerializer(b, u)
          \/ PortalMfaChallenge(b)
          \/ \E code \in ValidCodes(b) : Verified(b, code)
          \/ Refused(b)
    \/ \E actor \in Staff, u \in Members :
          \/ PortalStaff(actor, u) \/ ResendInvite(actor, u)
          \/ ResetMfa(actor, u)
          \/ \E on \in BOOLEAN : StaffAction(actor, u, on)
    \/ \E actor \in Staff \cup {None}, u \in Members : UserProfileViewSet(actor, u)
    \/ EnsureDefaultUsers
    \/ Tick

AccessSpec == AccessInit /\ [][AccessNext]_accessVars

-----------------------------------------------------------------------------
(* Properties *)

\* Every code is accepted at most once: by one session, at enrolment or at sign-in,
\* however many ask at the same time, before and after a reset.
CodeAcceptedOnce ==
    reused = {}

\* Whose requests to a path are served: those of a user with a device, by a session that
\* has proven it.
ProvenAt(path) ==
    \A b \in Browsers :
        LET u == LoggedIn(b) IN
        (/\ u # None /\ LetIn(b, path)
         /\ HasRole(u, MfaStaff) /\ device[u].status = "confirmed") => u \in session[b].proven

\* Who is served a guarded page (the portal, the website, the Django admin) as a member of
\* staff with a confirmed device has proven that device in the session.  Not every login
\* asks for it: a booking and the Django admin log staff in with an e-mailed code or a
\* password, and a device may be confirmed when its user is logged in elsewhere; none of
\* them, in whatever order with the others, gets such a session to a guarded page.
PortalProven ==
    \A path \in GuardedPrefixes : ProvenAt(path)

\* docs/21-mfa-and-token-operations.md:15: the API demands of staff the device that the
\* portal demands.  The sessions that log in without it are served by the API.
ApiProven == ProvenAt("/api/")
=============================================================================
