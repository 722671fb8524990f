-------------------------------- MODULE Casework --------------------------------
(***************************************************************************)
(* Cases that staff work on: incidents and lost property                   *)
(* (apps/housekeeping), inquiries and operational alerts                   *)
(* (apps/notifications), management queries (apps/frontend), privacy       *)
(* requests (apps/accounts), expenditures and financial audits             *)
(* (apps/billing).                                                         *)
(*                                                                         *)
(* Their services are alike: a transaction locks the row of the case,      *)
(* looks the action up in the table of its kind, checks who acts, and then *)
(* writes the status and a row of an immutable history.  Here it begins    *)
(* with the lock and the checks and ends with the writes.  Only the        *)
(* approval of a financial audit takes no lock; what it has as a history   *)
(* here is not in the code.  Titles, notes, owners and due dates are left  *)
(* out.                                                                    *)
(***************************************************************************)
EXTENDS Ledger, Staff, Sequences

CONSTANTS
    Cases,         \* primary keys
    Desks,         \* requests and jobs that work at the same time
    NetSum, TaxSum,\* the amounts of an expenditure
    PaidWith,      \* how an expenditure is paid: cash, or something else
    HistoryBound   \* bound: no transaction begins on a longer history

ASSUME CaseworkAssumption ==
    /\ NetSum \in Nat \ {0} /\ TaxSum \in Nat /\ HistoryBound \in Nat
    /\ None \notin Cases

VARIABLES
    case,      \* kind, status, who submitted it, who approved it, and is it answered
    history,   \* the status history of each case
    desk       \* the open transactions

caseVars == <<case, history, desk, journal>>

-----------------------------------------------------------------------------
(* Statuses, what leads from one to another, and who may do it *)

IncidentStates == {"open", "investigating", "resolved", "closed"}
LostFoundStates == {"found", "stored", "claimed", "returned", "disposed"}
InquiryStates == {"new", "acknowledged", "in_progress", "awaiting_guest", "resolved", "closed",
                  "spam"}
QueryStates == {"open", "assigned", "investigating", "resolved", "closed"}
AlertStates == {"open", "acknowledged", "resolved"}
PrivacyStates == {"submitted", "approved", "rejected", "completed"}
ExpenditureStates == {"submitted", "approved", "paid", "rejected", "void"}
AuditStates == {"prepared", "approved"}

StatesOf == [incident |-> IncidentStates, lost_found |-> LostFoundStates,
             inquiry |-> InquiryStates, query |-> QueryStates, alert |-> AlertStates,
             privacy |-> PrivacyStates, expenditure |-> ExpenditureStates, audit |-> AuditStates]
Kinds == DOMAIN StatesOf
Statuses == UNION {StatesOf[k] : k \in Kinds}

Rule(action, from, to, roles) == [action |-> action, from |-> from, to |-> to, roles |-> roles]

\* transition_incident
IncidentRules ==
    {Rule("investigate", {"open"}, "investigating", FrontOffice),
     Rule("resolve", {"open", "investigating"}, "resolved", Management),
     Rule("close", {"resolved"}, "closed", Management),
     Rule("reopen", {"resolved", "closed"}, "investigating", Management)}

\* transition_lost_found_item
LostFoundRules ==
    {Rule("store", {"found"}, "stored", HouseStaff),
     Rule("claim", {"stored"}, "claimed", FrontOffice),
     Rule("return", {"claimed"}, "returned", FrontOffice),
     Rule("dispose", {"stored"}, "disposed", Management),
     Rule("reopen", {"claimed"}, "stored", FrontOffice)}

\* transition_inquiry
InquiryRules ==
    {Rule("acknowledge", {"new"}, "acknowledged", FrontOffice),
     Rule("start", {"new", "acknowledged", "awaiting_guest"}, "in_progress", FrontOffice),
     Rule("await_guest", {"in_progress"}, "awaiting_guest", FrontOffice),
     Rule("resolve", {"in_progress", "awaiting_guest"}, "resolved", FrontOffice),
     Rule("close", {"resolved"}, "closed", FrontOffice),
     Rule("reopen", {"resolved", "closed"}, "in_progress", FrontOffice),
     Rule("spam", {"new", "acknowledged"}, "spam", FrontOffice)}

\* transition_management_query
QueryRules ==
    {Rule("assign", {"open", "assigned"}, "assigned", Management),
     Rule("investigate", {"open", "assigned"}, "investigating", Management),
     Rule("resolve", {"assigned", "investigating"}, "resolved", Management),
     Rule("close", {"resolved"}, "closed", Management),
     Rule("reopen", {"resolved", "closed"}, "investigating", Management)}

\* transition_alert
AlertRules ==
    {Rule("acknowledge", {"open"}, "acknowledged", Management),
     Rule("resolve", {"open", "acknowledged"}, "resolved", Management)}

\* evaluate_alert_rule: what the job does to an alert whose condition it finds, and to
\* one whose condition is gone.  Nobody is the actor.
Redetected == Rule("redetected", {"resolved"}, "open", {})
Cleared == Rule("auto_resolve", {"open", "acknowledged"}, "resolved", {})

\* review_privacy_request and execute_privacy_request
PrivacyRules ==
    {Rule("approve", {"submitted"}, "approved", Management),
     Rule("reject", {"submitted"}, "rejected", Management),
     Rule("execute", {"approved"}, "completed", Management)}

\* TRANSITIONS and the roles of transition_expenditure
ExpenditureRules ==
    {Rule("approve", {"submitted"}, "approved", {"admin", "accountant"}),
     Rule("reject", {"submitted"}, "rejected", {"admin", "accountant"}),
     Rule("pay", {"approved"}, "paid", {"admin", "accountant"}),
     Rule("void", {"submitted", "approved"}, "void", {"admin"})}

\* approve_financial_audit
AuditRules == {Rule("approve", {"prepared"}, "approved", Management)}

Rules == [incident |-> IncidentRules, lost_found |-> LostFoundRules, inquiry |-> InquiryRules,
          query |-> QueryRules, alert |-> AlertRules, privacy |-> PrivacyRules,
          expenditure |-> ExpenditureRules, audit |-> AuditRules]

-----------------------------------------------------------------------------
(* Rows *)

\* `answered`: an inquiry has a first_responded_at.
CaseRow == [kind : Kinds \cup {"none"}, status : Statuses \cup {"none"},
            by : Staff \cup {None}, approver : Staff \cup {None}, answered : BOOLEAN]
NoCase == [kind |-> "none", status |-> "none", by |-> None, approver |-> None, answered |-> FALSE]

Event(action, from, to, u) == [action |-> action, from |-> from, to |-> to, actor |-> u]
NoEvent == Event("none", "none", "none", None)
IsEvent(h) == /\ DOMAIN h = DOMAIN NoEvent
              /\ {h.from, h.to} \subseteq Statuses \cup {"none"}
              /\ h.actor \in Staff \cup {None}

CaseTypeOK ==
    /\ case \in [Cases -> CaseRow]
    /\ \A c \in Cases : case[c] # NoCase => case[c].status \in StatesOf[case[c].kind]
    /\ DOMAIN history = Cases
    /\ \A c \in Cases : \A n \in DOMAIN history[c] : IsEvent(history[c][n])
    /\ DOMAIN desk = Desks
    /\ \A d \in Desks : desk[d].case \in Cases \cup {None} /\ IsEvent(desk[d].event)
    /\ \A j \in journal : IsJournalEntry(j)

FreeDesk == [case |-> None, event |-> NoEvent]

CaseInit ==
    /\ case = [c \in Cases |-> NoCase]
    /\ history = [c \in Cases |-> <<>>]
    /\ desk = [d \in Desks |-> FreeDesk]
    /\ journal = {}

-----------------------------------------------------------------------------
(* New cases *)

OpenCase(c, kind, status, u) ==
    /\ case[c] = NoCase
    /\ case' = [case EXCEPT ![c] = [NoCase EXCEPT !.kind = kind, !.status = status, !.by = u]]
    /\ history' = [history EXCEPT ![c] = <<Event("create", "none", status, u)>>]
    /\ UNCHANGED <<desk, journal>>

\* create_inquiry, for anybody: from the website there is no requester.
CreateInquiry(c) == \E u \in Staff \cup {None} : OpenCase(c, "inquiry", "new", u)

\* evaluate_alert_rule finds a condition that has no alert: its key is unique.
DetectAlert(c) == OpenCase(c, "alert", "open", None)

\* submit_privacy_request, from portal_privacy
FileRequest(u, c) == HasRole(u, {"guest"}) /\ OpenCase(c, "privacy", "submitted", u)

-----------------------------------------------------------------------------
(* Transactions *)

\* Mutant: the case is read without select_for_update.
Mut_CaseFree(c) == TRUE
CaseFree(c) == case[c].kind = "audit" \/ \A d \in Desks : desk[d].case # c

\* Who decides on an expenditure did not submit it, who seals an audit did not prepare
\* it; a superuser may decide on his own expenditure.
Independent(u, c, action) ==
    \/ u # case[c].by
    \/ case[c].kind = "expenditure" /\ (action \in {"approve", "reject"} => HasRole(u, {"admin"}))
    \/ case[c].kind \notin {"expenditure", "audit"}

BeginCase(d, c, r, actor) ==
    /\ desk[d] = FreeDesk
    /\ CaseFree(c)
    /\ case[c].status \in r.from
    /\ Len(history[c]) < HistoryBound
    /\ desk' = [desk EXCEPT ![d] = [case |-> c,
                                    event |-> Event(r.action, case[c].status, r.to, actor)]]
    /\ UNCHANGED <<case, history, journal>>

Decide(d, u, c, kind) ==
    /\ case[c].kind = kind
    /\ \E r \in Rules[kind] : HasRole(u, r.roles) /\ Independent(u, c, r.action)
                              /\ BeginCase(d, c, r, u)

\* evaluate_alert_rule on an alert that is there.
EvaluateAlert(d, c) ==
    /\ case[c].kind = "alert"
    /\ \E r \in {Redetected, Cleared} : BeginCase(d, c, r, None)

\* add_inquiry_reply, unless it is an internal note.  (Its message is left out.)
ReplyInquiry(u, c) ==
    /\ HasRole(u, FrontOffice)
    /\ case[c].kind = "inquiry" /\ CaseFree(c)
    /\ case[c].status \notin {"closed", "spam"}
    /\ case' = [case EXCEPT ![c].answered = TRUE]
    /\ UNCHANGED <<history, desk, journal>>

\* What the payment of an expenditure posts: the net sum to the expense account, the
\* tax to the recoverable input tax, both from the cash or the clearing account.
ExpenseLines ==
    [a \in Accounts |-> CASE a = "5100" -> NetSum
                          [] a = "1150" -> TaxSum
                          [] a = (IF PaidWith = "cash" THEN "1010" ELSE "1020")
                             -> -(NetSum + TaxSum)
                          [] OTHER -> 0]

\* The actions on an inquiry that set first_responded_at.
Answers == {"acknowledge", "start", "await_guest", "resolve"}

CommitCase(d) ==
    LET c == desk[d].case
        h == desk[d].event
    IN  /\ c # None
        /\ desk' = [desk EXCEPT ![d] = FreeDesk]
        /\ case' = [case EXCEPT ![c].status = h.to,
                                ![c].approver = IF h.to = "approved" THEN h.actor ELSE @,
                                ![c].answered = @ \/ (case[c].kind = "inquiry" /\ h.action \in Answers)]
        /\ history' = [history EXCEPT ![c] = Append(@, h)]
        /\ IF h.to = "paid"
           THEN PostJournal({[key |-> <<"expenditure-journal", c>>, lines |-> ExpenseLines]})
           ELSE UNCHANGED journal

AbortCase(d) ==
    /\ desk[d] # FreeDesk
    /\ desk' = [desk EXCEPT ![d] = FreeDesk]
    /\ UNCHANGED <<case, history, journal>>

-----------------------------------------------------------------------------
(* The portal *)

\* portal_operations: its forms call create_incident and register_lost_found_item.
PortalOperations(u, c) ==
    /\ HasRole(u, HouseStaff)
    /\ OpenCase(c, "incident", "open", u) \/ OpenCase(c, "lost_found", "found", u)

PortalIncidentAction(d, u, c) == Decide(d, u, c, "incident")
PortalLostFoundAction(d, u, c) == Decide(d, u, c, "lost_found")

\* portal_inquiry_detail
PortalInquiryDetail(d, u, c) == Decide(d, u, c, "inquiry") \/ ReplyInquiry(u, c)

\* portal_management: alerts, and create_management_query, which is given no assignee.
PortalManagement(d, u, c) ==
    \/ Decide(d, u, c, "alert")
    \/ HasRole(u, Management) /\ OpenCase(c, "query", "open", u)
PortalManagementQuery(d, u, c) == Decide(d, u, c, "query")

\* portal_privacy, for management
PrivacyDesk(d, u, c) == Decide(d, u, c, "privacy")

\* portal_expenditures: submit_expenditure and transition_expenditure
PortalExpenditures(d, u, c) ==
    \/ HasRole(u, Management) /\ OpenCase(c, "expenditure", "submitted", u)
    \/ Decide(d, u, c, "expenditure")

\* portal_financial_audit: prepare_financial_audit and approve_financial_audit
PortalFinancialAudit(d, u, c) ==
    \/ HasRole(u, Management \cup {"accountant"}) /\ OpenCase(c, "audit", "prepared", u)
    \/ Decide(d, u, c, "audit")

CaseNext ==
    \/ \E c \in Cases :
          \/ CreateInquiry(c) \/ DetectAlert(c)
          \/ \E u \in Staff : FileRequest(u, c) \/ PortalOperations(u, c)
          \/ \E d \in Desks :
                \/ EvaluateAlert(d, c)
                \/ \E u \in Staff :
                      \/ PortalIncidentAction(d, u, c) \/ PortalLostFoundAction(d, u, c)
                      \/ PortalInquiryDetail(d, u, c) \/ PortalManagement(d, u, c)
                      \/ PortalManagementQuery(d, u, c) \/ PrivacyDesk(d, u, c)
                      \/ PortalExpenditures(d, u, c) \/ PortalFinancialAudit(d, u, c)
    \/ \E d \in Desks : CommitCase(d) \/ AbortCase(d)

CaseSpec == CaseInit /\ [][CaseNext]_caseVars

-----------------------------------------------------------------------------
(* Properties *)

\* The immutable history of a case explains its status, however many work on it: it
\* leads from its creation to the status it has, each row begins where the one before
\* ended, and each row is a step its kind allows its actor, or the alert job.  An
\* expenditure is in the journal exactly when it is paid, after somebody other than its
\* submitter, or an administrator, approved it.
HistoryExplainsStatus ==
    \A c \in Cases : (case[c] # NoCase /\ case[c].kind # "audit") =>
        /\ history[c][Len(history[c])].to = case[c].status
        /\ \A n \in 2 .. Len(history[c]) :
              LET h == history[c][n] IN
              /\ h.from = history[c][n - 1].to
              /\ \E r \in Rules[case[c].kind] \cup {Redetected, Cleared} :
                    /\ r.action = h.action /\ r.to = h.to /\ h.from \in r.from
                    /\ IF h.actor = None THEN case[c].kind = "alert" /\ r.roles = {}
                       ELSE HasRole(h.actor, r.roles)
        /\ Posted(<<"expenditure-journal", c>>) <=> case[c].status = "paid"
        /\ case[c].kind = "expenditure" /\ case[c].status \in {"approved", "paid"} =>
              /\ case[c].approver # None
              /\ case[c].approver # case[c].by \/ HasRole(case[c].approver, {"admin"})
=============================================================================
