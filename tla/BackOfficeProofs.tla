-------------------------- MODULE BackOfficeProofs --------------------------
(***************************************************************************)
(* Proofs about the two components that write to one journal, and about    *)
(* the back office as a whole.                                             *)
(*                                                                         *)
(*   Casework    a case is where its history says, by permitted steps      *)
(*   Folio       every posting has its cause and its journal entry, and a  *)
(*               cancelled stay owes its fee                               *)
(*   BackOffice  the components keep what is proved of each of them: those *)
(*               that share nothing because a step of the whole is one of  *)
(*               theirs or leaves them alone, folios and cases because the *)
(*               rows that one adds to the journal are none of the other's *)
(***************************************************************************)
EXTENDS BackOffice, ComponentProofs

-----------------------------------------------------------------------------
(* Cases and their histories *)

ExpenseKey(c) == <<"expenditure-journal", c>>

CaseActions == {"none", "create"}
           \cup {r.action : r \in (UNION {Rules[kind] : kind \in Kinds}) \cup {Redetected, Cleared}}

EventRow == [action : CaseActions, from : Statuses \cup {"none"}, to : Statuses \cup {"none"},
             actor : Staff \cup {None}]

\* A step that the kind of a case allows its actor, or the alert job.
Permits(kind, h) ==
    \E r \in Rules[kind] \cup {Redetected, Cleared} :
        /\ r.action = h.action /\ r.to = h.to /\ h.from \in r.from
        /\ IF h.actor = None THEN kind = "alert" /\ r.roles = {}
           ELSE HasRole(h.actor, r.roles)

\* Somebody other than its submitter, or an administrator, approves an expenditure.
Approves(u, rec) == u # None /\ (u # rec.by \/ HasRole(u, {"admin"}))

CaseExplained(c) ==
    /\ history[c][Len(history[c])].to = case[c].status
    /\ \A n \in 2 .. Len(history[c]) :
          history[c][n].from = history[c][n - 1].to /\ Permits(case[c].kind, history[c][n])
    /\ Posted(ExpenseKey(c)) <=> case[c].status = "paid"
    /\ case[c].kind = "expenditure" /\ case[c].status \in {"approved", "paid"}
       => Approves(case[c].approver, case[c])

\* What the open transaction of a desk is about to do to its case.
CasePending(d) ==
    LET c == desk[d].case
        h == desk[d].event
    IN  /\ case[c] # NoCase
        /\ Permits(case[c].kind, h) /\ h.to \in StatesOf[case[c].kind]
        /\ h.from # "paid"
        /\ case[c].kind = "expenditure" /\ h.to = "paid" => h.from = "approved"
        /\ case[c].kind = "expenditure" /\ h.to = "approved" => Approves(h.actor, case[c])
        /\ case[c].kind # "audit" =>
              h.from = case[c].status /\ \A o \in Desks \ {d} : desk[o].case # c

CaseRowsOK ==
    /\ case \in [Cases -> CaseRow]
    /\ history \in [Cases -> Seq(EventRow)]
    /\ desk \in [Desks -> [case : Cases \cup {None}, event : EventRow]]
    /\ \A j \in journal : IsJournalEntry(j)

CaseInv ==
    /\ CaseRowsOK
    /\ \A c \in Cases :
          IF case[c] = NoCase THEN history[c] = <<>> /\ ~Posted(ExpenseKey(c))
          ELSE /\ case[c].kind \in Kinds /\ case[c].status \in StatesOf[case[c].kind]
               /\ history[c] # <<>>
               /\ case[c].kind # "audit" => CaseExplained(c)
    /\ \A d \in Desks : desk[d].case # None => CasePending(d)

-----------------------------------------------------------------------------
(* The tables of the statuses *)

\* What the proof needs of a rule.
RuleOK(kind, r) ==
    /\ r.to \in StatesOf[kind]
    /\ "none" \notin r.from /\ "paid" \notin r.from
    /\ kind = "expenditure" /\ r.to = "paid" => r.from = {"approved"}
    /\ kind = "expenditure" /\ r.to = "approved" => r.action = "approve"

LEMMA KindsListed ==
    Kinds = {"incident", "lost_found", "inquiry", "query", "alert", "privacy", "expenditure",
             "audit"}
  BY DEF Kinds, StatesOf

LEMMA RulesOK ==
    \A kind \in Kinds : \A r \in Rules[kind] : RuleOK(kind, r)
<1>1. \A r \in Rules["incident"] : RuleOK("incident", r)
  BY DEF Rules, IncidentRules, Rule, RuleOK, StatesOf, IncidentStates
<1>2. \A r \in Rules["lost_found"] : RuleOK("lost_found", r)
  BY DEF Rules, LostFoundRules, Rule, RuleOK, StatesOf, LostFoundStates
<1>3. \A r \in Rules["inquiry"] : RuleOK("inquiry", r)
  BY DEF Rules, InquiryRules, Rule, RuleOK, StatesOf, InquiryStates
<1>4. \A r \in Rules["query"] : RuleOK("query", r)
  BY DEF Rules, QueryRules, Rule, RuleOK, StatesOf, QueryStates
<1>5. \A r \in Rules["alert"] : RuleOK("alert", r)
  BY DEF Rules, AlertRules, Rule, RuleOK, StatesOf, AlertStates
<1>6. \A r \in Rules["privacy"] : RuleOK("privacy", r)
  BY DEF Rules, PrivacyRules, Rule, RuleOK, StatesOf, PrivacyStates
<1>7. \A r \in Rules["expenditure"] : RuleOK("expenditure", r)
  BY DEF Rules, ExpenditureRules, Rule, RuleOK, StatesOf, ExpenditureStates
<1>8. \A r \in Rules["audit"] : RuleOK("audit", r)
  BY DEF Rules, AuditRules, Rule, RuleOK, StatesOf, AuditStates
<1> QED BY <1>1, <1>2, <1>3, <1>4, <1>5, <1>6, <1>7, <1>8, KindsListed

LEMMA JobRulesOK ==
    \A r \in {Redetected, Cleared} : RuleOK("alert", r) /\ r.roles = {}
  BY DEF Redetected, Cleared, Rule, RuleOK, StatesOf, AlertStates

LEMMA StatusesTyped ==
    \A kind \in Kinds : \A status \in StatesOf[kind] : status \in Statuses
  BY DEF Statuses
LEMMA EventTyped ==
    ASSUME NEW kind \in Kinds, NEW r \in Rules[kind] \cup {Redetected, Cleared},
           NEW from \in Statuses \cup {"none"}, NEW actor \in Staff \cup {None},
           r.to \in StatesOf[kind]
    PROVE  Event(r.action, from, r.to, actor) \in EventRow
<1>1. r.action \in CaseActions
  <2>1. Rules[kind] \in {Rules[k] : k \in Kinds}
    BY Zenon
  <2>2. r \in (UNION {Rules[k] : k \in Kinds}) \cup {Redetected, Cleared}
    BY <2>1
  <2> QED BY <2>2 DEF CaseActions
<1>2. r.to \in Statuses
  BY StatusesTyped
<1> QED BY <1>1, <1>2 DEF Event, EventRow

LEMMA RowIsEvent ==
    ASSUME NEW h \in EventRow
    PROVE  IsEvent(h)
<1>1. /\ DOMAIN h = {"action", "from", "to", "actor"}
      /\ {h.from, h.to} \subseteq Statuses \cup {"none"} /\ h.actor \in Staff \cup {None}
  BY DEF EventRow
<1>2. DOMAIN NoEvent = {"action", "from", "to", "actor"}
  BY DEF NoEvent, Event
<1> QED BY <1>1, <1>2 DEF IsEvent

LEMMA NoCaseTyped ==
    /\ NoCase \in CaseRow /\ NoEvent \in EventRow
    /\ \A kind \in Kinds : \A status \in StatesOf[kind] : status # "none"
  <1>1. NoCase \in CaseRow
    BY DEF NoCase, CaseRow
  <1>2. NoEvent \in EventRow
    BY DEF NoEvent, Event, EventRow, CaseActions
  <1>3. \A kind \in Kinds : \A status \in StatesOf[kind] : status # "none"
    BY KindsListed DEF StatesOf, IncidentStates, LostFoundStates, InquiryStates, QueryStates,
       AlertStates, PrivacyStates, ExpenditureStates, AuditStates
  <1> QED BY <1>1, <1>2, <1>3

\* A new case: its history is its creation.
LEMMA CaseOpenKeeps ==
    ASSUME CaseInv, NEW c \in Cases, NEW kind \in Kinds, NEW status \in StatesOf[kind],
           NEW u \in Staff \cup {None}, status \notin {"paid", "approved"},
           OpenCase(c, kind, status, u)
    PROVE  CaseInv'
<1> DEFINE rec == [NoCase EXCEPT !.kind = kind, !.status = status, !.by = u]
           h == Event("create", "none", status, u)
<1>1. /\ case[c] = NoCase /\ case' = [case EXCEPT ![c] = rec]
      /\ history' = [history EXCEPT ![c] = <<h>>] /\ UNCHANGED <<desk, journal>>
  BY DEF OpenCase
<1>2. rec \in CaseRow /\ rec.kind = kind /\ rec.status = status /\ rec # NoCase
  <2>1. status \in Statuses /\ status # "none"
    BY StatusesTyped, NoCaseTyped
  <2> QED BY <2>1 DEF NoCase, CaseRow
<1>3. h \in EventRow /\ h.to = status
  BY StatusesTyped DEF Event, EventRow, CaseActions
<1>4. <<h>> \in Seq(EventRow) /\ Len(<<h>>) = 1 /\ <<h>>[1] = h /\ <<h>> # <<>>
  BY <1>3
<1> HIDE DEF rec, h
<1>5. /\ case' \in [Cases -> CaseRow] /\ case'[c] = rec
      /\ \A o \in Cases \ {c} : case'[o] = case[o]
      /\ history' \in [Cases -> Seq(EventRow)] /\ history'[c] = <<h>>
      /\ \A o \in Cases \ {c} : history'[o] = history[o]
  BY <1>1, <1>2, <1>4 DEF CaseInv, CaseRowsOK
<1>6. CaseRowsOK'
  BY <1>1, <1>5 DEF CaseInv, CaseRowsOK
<1>7. CaseExplained(c)'
  <2>1. history'[c][Len(history'[c])].to = case'[c].status
    BY <1>2, <1>3, <1>4, <1>5
  <2>2. 2 .. Len(history'[c]) = {}
    BY <1>4, <1>5
  <2>3. ~Posted(ExpenseKey(c))' /\ case'[c].status \notin {"paid", "approved"}
    BY <1>1, <1>2, <1>5 DEF CaseInv, Posted
  <2> QED BY <2>1, <2>2, <2>3 DEF CaseExplained
<1>8. ASSUME NEW o \in Cases \ {c}, CaseExplained(o) PROVE CaseExplained(o)'
  BY <1>1, <1>5, <1>8 DEF CaseExplained, Posted
<1>9. ASSUME NEW d \in Desks, desk[d].case # None PROVE CasePending(d)'
  <2>1. desk[d].case \in Cases \ {c}
    BY <1>1, <1>9 DEF CaseInv, CaseRowsOK, CasePending
  <2> QED BY <1>1, <1>5, <1>9, <2>1 DEF CaseInv, CasePending
<1>10. \A o \in Cases : Posted(ExpenseKey(o))' = Posted(ExpenseKey(o))
  BY <1>1 DEF Posted
<1> QED BY <1>1, <1>2, <1>4, <1>5, <1>6, <1>7, <1>8, <1>9, <1>10 DEF CaseInv

\* A desk takes a case on: it alone, unless the case is an audit.
LEMMA CaseBeginKeeps ==
    ASSUME CaseInv, NEW d \in Desks, NEW c \in Cases, NEW kind \in Kinds,
           NEW r \in Rules[kind] \cup {Redetected, Cleared}, NEW actor \in Staff \cup {None},
           case[c].kind = kind, RuleOK(kind, r), BeginCase(d, c, r, actor),
           Permits(kind, Event(r.action, case[c].status, r.to, actor)),
           kind = "expenditure" /\ r.action = "approve" => Approves(actor, case[c])
    PROVE  CaseInv'
<1> DEFINE h == Event(r.action, case[c].status, r.to, actor)
           rec == [case |-> c, event |-> h]
<1>1. /\ desk[d] = FreeDesk /\ CaseFree(c) /\ case[c].status \in r.from
      /\ desk' = [desk EXCEPT ![d] = rec] /\ UNCHANGED <<case, history, journal>>
  BY DEF BeginCase
<1>2. case[c] # NoCase
  BY <1>1 DEF RuleOK, NoCase
<1>3. case[c].status \in Statuses
  BY <1>2, StatusesTyped DEF CaseInv
<1>4. /\ h \in EventRow /\ h.from = case[c].status /\ h.to = r.to /\ h.actor = actor
      /\ h.action = r.action
  BY <1>3, EventTyped DEF RuleOK, Event
<1>5. rec \in [case : Cases \cup {None}, event : EventRow] /\ rec.case = c /\ rec.event = h
  BY <1>4
<1> HIDE DEF rec, h
<1>6. /\ desk' \in [Desks -> [case : Cases \cup {None}, event : EventRow]]
      /\ desk'[d] = rec /\ \A o \in Desks \ {d} : desk'[o] = desk[o]
  BY <1>1, <1>5 DEF CaseInv, CaseRowsOK
<1>7. CaseRowsOK'
  BY <1>1, <1>6 DEF CaseInv, CaseRowsOK
<1>8. CasePending(d)'
  <2>1. kind # "audit" => \A o \in Desks \ {d} : desk'[o].case # c
    BY <1>1, <1>6 DEF CaseFree
  <2>2. /\ desk'[d].case = c /\ desk'[d].event = h /\ case' = case
    BY <1>1, <1>5, <1>6
  <2>3. /\ h.to \in StatesOf[kind] /\ h.from # "paid"
        /\ kind = "expenditure" /\ h.to = "paid" => h.from = "approved"
        /\ kind = "expenditure" /\ h.to = "approved" => Approves(h.actor, case[c])
    BY <1>1, <1>4 DEF RuleOK
  <2>4. Permits(case[c].kind, h)
    BY DEF h
  <2> QED BY <1>2, <1>4, <2>1, <2>2, <2>3, <2>4 DEF CasePending
<1>9. ASSUME NEW o \in Desks \ {d}, desk[o].case # None PROVE CasePending(o)'
  <2>1. CasePending(o) /\ desk'[o] = desk[o] /\ case' = case
    BY <1>1, <1>6, <1>9 DEF CaseInv
  <2>2. case[desk[o].case].kind # "audit" => desk'[d].case # desk[o].case
    BY <1>1, <1>5, <1>6 DEF CaseFree
  <2> QED BY <1>6, <2>1, <2>2 DEF CasePending
<1>10. \A o \in Cases : /\ CaseExplained(o)' = CaseExplained(o)
                        /\ Posted(ExpenseKey(o))' = Posted(ExpenseKey(o))
  BY <1>1 DEF CaseExplained, Posted
<1> QED BY <1>1, <1>6, <1>7, <1>8, <1>9, <1>10 DEF CaseInv

\* The rules of a kind, and what they ask of who acts.
LEMMA CaseDecideKeeps ==
    ASSUME CaseInv, NEW d \in Desks, NEW u \in Staff, NEW c \in Cases, NEW kind \in Kinds,
           Decide(d, u, c, kind)
    PROVE  CaseInv'
<1>1. PICK r \in Rules[kind] : /\ case[c].kind = kind /\ HasRole(u, r.roles)
                               /\ Independent(u, c, r.action) /\ BeginCase(d, c, r, u)
  BY DEF Decide
<1>2. RuleOK(kind, r) /\ u # None
  BY RulesOK, NullAssumption
<1>3. Permits(kind, Event(r.action, case[c].status, r.to, u))
  <2>1. case[c].status \in r.from
    BY <1>1 DEF BeginCase
  <2> QED BY <1>1, <1>2, <2>1 DEF Permits, Event
<1>4. kind = "expenditure" /\ r.action = "approve" => Approves(u, case[c])
  BY <1>1, <1>2 DEF Independent, Approves
<1> QED BY <1>1, <1>2, <1>3, <1>4, CaseBeginKeeps

LEMMA CaseEvaluateKeeps ==
    ASSUME CaseInv, NEW d \in Desks, NEW c \in Cases, EvaluateAlert(d, c)
    PROVE  CaseInv'
<1>1. PICK r \in {Redetected, Cleared} : case[c].kind = "alert" /\ BeginCase(d, c, r, None)
  BY DEF EvaluateAlert
<1>2. RuleOK("alert", r) /\ r.roles = {} /\ "alert" \in Kinds
  BY JobRulesOK, KindsListed
<1>3. Permits("alert", Event(r.action, case[c].status, r.to, None))
  <2>1. case[c].status \in r.from
    BY <1>1 DEF BeginCase
  <2> QED BY <1>1, <1>2, <2>1 DEF Permits, Event
<1> QED BY <1>1, <1>2, <1>3, CaseBeginKeeps

LEMMA CaseReplyKeeps ==
    ASSUME CaseInv, NEW u \in Staff, NEW c \in Cases, ReplyInquiry(u, c)
    PROVE  CaseInv'
<1> DEFINE rec == [case[c] EXCEPT !.answered = TRUE]
<1>1. /\ case[c].kind = "inquiry" /\ UNCHANGED <<history, desk, journal>>
      /\ case' = [case EXCEPT ![c] = rec] /\ case[c] \in CaseRow
  BY DEF ReplyInquiry, CaseInv, CaseRowsOK
<1>2. /\ rec \in CaseRow /\ rec.kind = case[c].kind /\ rec.status = case[c].status
      /\ rec.by = case[c].by /\ rec.approver = case[c].approver
  BY <1>1 DEF CaseRow
<1>3. case[c] # NoCase /\ rec # NoCase
  BY <1>1, <1>2 DEF NoCase
<1> HIDE DEF rec
<1>4. /\ case' \in [Cases -> CaseRow] /\ case'[c] = rec
      /\ \A o \in Cases \ {c} : case'[o] = case[o]
  BY <1>1, <1>2 DEF CaseInv, CaseRowsOK
<1>5. CaseRowsOK'
  BY <1>1, <1>4 DEF CaseInv, CaseRowsOK
<1>6. \A o \in Cases :
         /\ case'[o].kind = case[o].kind /\ case'[o].status = case[o].status
         /\ case'[o].by = case[o].by /\ case'[o].approver = case[o].approver
         /\ case'[o] = NoCase <=> case[o] = NoCase
  BY <1>2, <1>3, <1>4
<1>7. ASSUME NEW o \in Cases PROVE /\ Posted(ExpenseKey(o))' = Posted(ExpenseKey(o))
                                   /\ CaseExplained(o) => CaseExplained(o)'
  <2>1. journal' = journal /\ history' = history
    BY <1>1
  <2>2. Posted(ExpenseKey(o))' = Posted(ExpenseKey(o))
    BY <2>1 DEF Posted
  <2>3. Approves(case[o].approver, case[o])' = Approves(case[o].approver, case[o])
    BY <1>6 DEF Approves
  <2>4. /\ case'[o].kind = case[o].kind /\ case'[o].status = case[o].status
    BY <1>6
  <2> QED BY <2>1, <2>2, <2>3, <2>4 DEF CaseExplained
<1>8. ASSUME NEW d \in Desks, desk[d].case # None PROVE CasePending(d)'
  <2>1. desk[d].case \in Cases /\ CasePending(d)
    BY <1>8 DEF CaseInv, CaseRowsOK
  <2> DEFINE o == desk[d].case
             h == desk[d].event
  <2>2. desk' = desk
    BY <1>1
  <2>3. Approves(h.actor, case[o])' = Approves(h.actor, case[o])
    BY <1>6, <2>1, <2>2 DEF Approves
  <2>4. /\ case'[o].kind = case[o].kind /\ case'[o].status = case[o].status
        /\ case'[o] = NoCase <=> case[o] = NoCase
    BY <1>6, <2>1
  <2> QED BY <2>1, <2>2, <2>3, <2>4 DEF CasePending
<1> QED BY <1>1, <1>5, <1>6, <1>7, <1>8 DEF CaseInv

LEMMA CaseAbortKeeps ==
    ASSUME CaseInv, NEW d \in Desks, AbortCase(d)
    PROVE  CaseInv'
<1>1. desk' = [desk EXCEPT ![d] = FreeDesk] /\ UNCHANGED <<case, history, journal>>
  BY DEF AbortCase
<1>2. FreeDesk \in [case : Cases \cup {None}, event : EventRow] /\ FreeDesk.case = None
  BY NoCaseTyped DEF FreeDesk
<1>3. /\ desk' \in [Desks -> [case : Cases \cup {None}, event : EventRow]]
      /\ desk'[d].case = None /\ \A o \in Desks \ {d} : desk'[o] = desk[o]
  BY <1>1, <1>2 DEF CaseInv, CaseRowsOK
<1>4. CaseRowsOK'
  BY <1>1, <1>3 DEF CaseInv, CaseRowsOK
<1>5. ASSUME NEW o \in Cases PROVE /\ Posted(ExpenseKey(o))' = Posted(ExpenseKey(o))
                                   /\ CaseExplained(o) => CaseExplained(o)'
  BY <1>1 DEF CaseExplained, Posted
<1>6. ASSUME NEW o \in Desks, desk'[o].case # None PROVE CasePending(o)'
  <2>1. o # d /\ desk'[o] = desk[o] /\ CasePending(o) /\ desk[o].case # None
    BY <1>3, <1>6 DEF CaseInv
  <2>2. \A p \in Desks : desk'[p].case = desk[p].case \/ desk'[p].case = None
    BY <1>3
  <2> QED BY <1>1, <2>1, <2>2 DEF CasePending
<1> QED BY <1>1, <1>4, <1>5, <1>6 DEF CaseInv

\* What a commit does to the row of the case.
LEMMA CommitRow ==
    ASSUME CaseInv, NEW d \in Desks, CommitCase(d)
    PROVE  LET c == desk[d].case
               h == desk[d].event
           IN  /\ c \in Cases /\ h \in EventRow /\ case'[c] \in CaseRow
               /\ case'[c].kind = case[c].kind /\ case'[c].by = case[c].by
               /\ case'[c].status = h.to
               /\ case'[c].approver = IF h.to = "approved" THEN h.actor ELSE case[c].approver
               /\ \A o \in Cases \ {c} : case'[o] = case[o]
               /\ case' \in [Cases -> CaseRow]
<1> DEFINE c == desk[d].case
           h == desk[d].event
<1>1. c \in Cases /\ h \in EventRow /\ case[c] \in CaseRow
  BY DEF CommitCase, CaseInv, CaseRowsOK
<1>2. PICK b \in BOOLEAN : b = (case[c].answered \/ (case[c].kind = "inquiry" /\ h.action \in Answers))
  OBVIOUS
<1> DEFINE rec == [case[c] EXCEPT !.status = h.to,
                                  !.approver = IF h.to = "approved" THEN h.actor ELSE @,
                                  !.answered = b]
<1>3. case' = [case EXCEPT ![c] = rec]
  <2>1. case' = [case EXCEPT ![c] = [case[c] EXCEPT !.status = h.to,
                    !.approver = IF h.to = "approved" THEN h.actor ELSE @,
                    !.answered = case[c].answered
                                 \/ (case[c].kind = "inquiry" /\ h.action \in Answers)]]
    <3>1. case' = [case EXCEPT ![c].status = h.to,
                      ![c].approver = IF h.to = "approved" THEN h.actor ELSE @,
                      ![c].answered = @ \/ (case[c].kind = "inquiry" /\ h.action \in Answers)]
      BY DEF CommitCase
    <3> HIDE DEF h, c
    <3> QED BY <3>1, <1>1 DEF CaseInv, CaseRowsOK
  <2> HIDE DEF h, c
  <2> QED BY <1>2, <2>1
<1> HIDE DEF c, h
<1>4. /\ rec \in CaseRow /\ rec.kind = case[c].kind /\ rec.by = case[c].by /\ rec.status = h.to
      /\ rec.approver = IF h.to = "approved" THEN h.actor ELSE case[c].approver
  BY <1>1 DEF CaseRow, EventRow
<1> HIDE DEF rec
<1>5. /\ case' \in [Cases -> CaseRow] /\ case'[c] = rec
      /\ \A o \in Cases \ {c} : case'[o] = case[o]
  BY <1>1, <1>3, <1>4 DEF CaseInv, CaseRowsOK
<1> QED BY <1>1, <1>4, <1>5 DEF c, h

LEMMA ExpenseIsEntry ==
    \A c : IsJournalEntry([key |-> ExpenseKey(c), lines |-> ExpenseLines])
<1>1. ExpenseLines \in Lines
  <2>1. NetSum \in Int /\ TaxSum \in Int /\ NetSum + TaxSum \in Int /\ -(NetSum + TaxSum) \in Int
    BY CaseworkAssumption
  <2> DEFINE amount(a) == CASE a = "5100" -> NetSum
                            [] a = "1150" -> TaxSum
                            [] a = (IF PaidWith = "cash" THEN "1010" ELSE "1020")
                               -> -(NetSum + TaxSum)
                            [] OTHER -> 0
  <2>2. \A a \in Accounts : amount(a) \in Int
    BY <2>1
  <2>3. ExpenseLines = [a \in Accounts |-> amount(a)]
    BY DEF ExpenseLines
  <2> HIDE DEF amount
  <2> QED BY <2>2, <2>3 DEF Lines
<1> QED BY <1>1 DEF IsJournalEntry

LEMMA CaseCommitKeeps ==
    ASSUME CaseInv, NEW d \in Desks, CommitCase(d)
    PROVE  CaseInv'
<1>1. PICK c \in Cases : c = desk[d].case
  BY CommitRow
<1>2. PICK h \in EventRow : h = desk[d].event
  BY CommitRow
<1>3. /\ case' \in [Cases -> CaseRow]
      /\ case'[c].kind = case[c].kind /\ case'[c].by = case[c].by /\ case'[c].status = h.to
      /\ case'[c].approver = IF h.to = "approved" THEN h.actor ELSE case[c].approver
      /\ \A o \in Cases \ {c} : case'[o] = case[o]
  BY <1>1, <1>2, CommitRow
<1>4. /\ desk' = [desk EXCEPT ![d] = FreeDesk] /\ c # None
      /\ history' = [history EXCEPT ![c] = Append(@, h)]
      /\ IF h.to = "paid"
         THEN PostJournal({[key |-> ExpenseKey(c), lines |-> ExpenseLines]})
         ELSE UNCHANGED journal
  BY <1>1, <1>2 DEF CommitCase, ExpenseKey
<1>5. /\ case[c] # NoCase
      /\ Permits(case[c].kind, h) /\ h.to \in StatesOf[case[c].kind]
      /\ h.from # "paid"
      /\ case[c].kind = "expenditure" /\ h.to = "paid" => h.from = "approved"
      /\ case[c].kind = "expenditure" /\ h.to = "approved" => Approves(h.actor, case[c])
      /\ case[c].kind # "audit" =>
            h.from = case[c].status /\ \A o \in Desks \ {d} : desk[o].case # c
  BY <1>1, <1>2, <1>4 DEF CaseInv, CasePending
<1>6. case[c].kind \in Kinds /\ history[c] # <<>> /\ history[c] \in Seq(EventRow)
  BY <1>5 DEF CaseInv, CaseRowsOK
<1>7. case'[c] # NoCase
  BY <1>3, <1>5, NoCaseTyped, <1>6 DEF NoCase
<1>8. FreeDesk \in [case : Cases \cup {None}, event : EventRow] /\ FreeDesk.case = None
  BY NoCaseTyped DEF FreeDesk
<1>9. /\ desk' \in [Desks -> [case : Cases \cup {None}, event : EventRow]]
      /\ desk'[d].case = None /\ \A o \in Desks \ {d} : desk'[o] = desk[o]
  BY <1>4, <1>8 DEF CaseInv, CaseRowsOK
<1>10. /\ history' \in [Cases -> Seq(EventRow)] /\ history'[c] = Append(history[c], h)
       /\ \A o \in Cases \ {c} : history'[o] = history[o]
  BY <1>4, <1>6 DEF CaseInv, CaseRowsOK
<1>11. /\ \A j \in journal' : IsJournalEntry(j)
       /\ \A o \in Cases : Posted(ExpenseKey(o))' <=> Posted(ExpenseKey(o)) \/ (o = c /\ h.to = "paid")
  <2>1. CASE h.to = "paid"
    <3> DEFINE new == [key |-> ExpenseKey(c), lines |-> ExpenseLines]
    <3>1. journal' = journal \cup {j \in {new} : ~Posted(j.key)}
      BY <1>4, <2>1 DEF PostJournal
    <3>2. IsJournalEntry(new) /\ new.key = ExpenseKey(c)
      BY ExpenseIsEntry
    <3> HIDE DEF new
    <3>3. \A j \in journal' : IsJournalEntry(j)
      BY <3>1, <3>2 DEF CaseInv, CaseRowsOK
    <3>4. \A o \in Cases : ExpenseKey(o) = ExpenseKey(c) => o = c
      BY DEF ExpenseKey
    <3>5. \A o \in Cases : Posted(ExpenseKey(o))' <=> Posted(ExpenseKey(o)) \/ o = c
      BY <3>1, <3>2, <3>4 DEF Posted
    <3> QED BY <2>1, <3>3, <3>5
  <2>2. CASE h.to # "paid"
    BY <1>4, <2>2 DEF CaseInv, CaseRowsOK, Posted
  <2> QED BY <2>1, <2>2
<1>12. CaseRowsOK'
  BY <1>3, <1>9, <1>10, <1>11 DEF CaseRowsOK
<1>13. ASSUME case[c].kind # "audit" PROVE CaseExplained(c)'
  <2>1. h.from = case[c].status /\ CaseExplained(c)
    BY <1>5, <1>13 DEF CaseInv
  <2> DEFINE old == history[c]
             k == Len(old)
  <2>2. /\ k \in Nat \ {0} /\ Len(history'[c]) = k + 1 /\ history'[c][k + 1] = h
        /\ \A n \in 1 .. k : history'[c][n] = old[n]
    BY <1>6, <1>10
  <2>3. history'[c][Len(history'[c])].to = case'[c].status
    BY <1>3, <2>2
  <2>4. ASSUME NEW n \in 2 .. Len(history'[c])
        PROVE  /\ history'[c][n].from = history'[c][n - 1].to
               /\ Permits(case[c].kind, history'[c][n])
    <3>1. CASE n = k + 1
      <4>1. n - 1 = k /\ k \in 1 .. k
        BY <2>2, <3>1
      <4>2. history'[c][n - 1].to = case[c].status
        BY <2>1, <2>2, <4>1 DEF CaseExplained
      <4> QED BY <1>5, <2>1, <2>2, <3>1, <4>2
    <3>2. CASE n # k + 1
      <4>1. n \in 2 .. k /\ n \in 1 .. k /\ n - 1 \in 1 .. k
        BY <2>2, <3>2
      <4> QED BY <2>1, <2>2, <4>1 DEF CaseExplained
    <3> QED BY <3>1, <3>2
  <2>5. Posted(ExpenseKey(c))' <=> case'[c].status = "paid"
    BY <1>3, <1>5, <1>11, <2>1 DEF CaseExplained
  <2>6. case[c].kind = "expenditure" /\ h.to \in {"approved", "paid"}
        => Approves(case'[c].approver, case[c])
    BY <1>3, <1>5, <2>1 DEF CaseExplained
  <2>7. Approves(case'[c].approver, case[c]) => Approves(case'[c].approver, case'[c])
    BY <1>3 DEF Approves
  <2> HIDE DEF old, k
  <2> QED BY <1>3, <2>3, <2>4, <2>5, <2>6, <2>7 DEF CaseExplained
<1>14. ASSUME NEW o \in Cases \ {c}, CaseExplained(o) PROVE CaseExplained(o)'
  BY <1>3, <1>10, <1>11, <1>14 DEF CaseExplained
<1>15. ASSUME NEW o \in Desks, desk'[o].case # None PROVE CasePending(o)'
  <2>1. o # d /\ desk'[o] = desk[o] /\ CasePending(o) /\ desk[o].case \in Cases
    BY <1>9, <1>15 DEF CaseInv, CaseRowsOK
  <2>2. \A p \in Desks : desk'[p].case = desk[p].case \/ desk'[p].case = None
    BY <1>9
  <2>3. CASE desk[o].case # c
    <3>1. case'[desk[o].case] = case[desk[o].case]
      BY <1>3, <2>1, <2>3
    <3> QED BY <2>1, <2>2, <3>1, CaseworkAssumption DEF CasePending
  <2>4. CASE desk[o].case = c
    <3>1. case[c].kind = "audit" /\ case'[c].kind = "audit"
      BY <1>3, <1>5, <2>1, <2>4
    <3> QED BY <1>7, <2>1, <2>4, <3>1 DEF CasePending
  <2> QED BY <2>3, <2>4
<1>16. \A o \in Cases : IF case'[o] = NoCase THEN history'[o] = <<>> /\ ~Posted(ExpenseKey(o))'
                        ELSE /\ case'[o].kind \in Kinds /\ case'[o].status \in StatesOf[case'[o].kind]
                             /\ history'[o] # <<>>
                             /\ case'[o].kind # "audit" => CaseExplained(o)'
  <2> SUFFICES ASSUME NEW o \in Cases
               PROVE  IF case'[o] = NoCase THEN history'[o] = <<>> /\ ~Posted(ExpenseKey(o))'
                      ELSE /\ case'[o].kind \in Kinds
                           /\ case'[o].status \in StatesOf[case'[o].kind]
                           /\ history'[o] # <<>>
                           /\ case'[o].kind # "audit" => CaseExplained(o)'
    OBVIOUS
  <2>1. CASE o = c
    <3>1. history'[c] # <<>>
      BY <1>6, <1>10
    <3> QED BY <1>3, <1>5, <1>6, <1>7, <1>13, <2>1, <3>1
  <2>2. CASE o # c
    BY <1>3, <1>10, <1>11, <1>14, <2>2 DEF CaseInv
  <2> QED BY <2>1, <2>2
<1> QED BY <1>12, <1>15, <1>16 DEF CaseInv

LEMMA CaseStarts == CaseInit => CaseInv
<1> SUFFICES ASSUME CaseInit PROVE CaseInv
  OBVIOUS
<1>1. FreeDesk \in [case : Cases \cup {None}, event : EventRow] /\ FreeDesk.case = None
  BY NoCaseTyped DEF FreeDesk
<1> QED BY <1>1, NoCaseTyped DEF CaseInit, CaseInv, CaseRowsOK, Posted

LEMMA CaseStep == CaseInv /\ [CaseNext]_caseVars => CaseInv'
<1> SUFFICES ASSUME CaseInv, [CaseNext]_caseVars PROVE CaseInv'
  OBVIOUS
<1>1. CASE UNCHANGED caseVars
  BY <1>1 DEF caseVars, CaseInv, CaseRowsOK, CaseExplained, CasePending, Posted
<1>2. ASSUME NEW c \in Cases,
             CreateInquiry(c) \/ DetectAlert(c) \/ \E u \in Staff : FileRequest(u, c)
      PROVE  CaseInv'
  <2>1. {"inquiry", "alert", "privacy"} \subseteq Kinds
    BY KindsListed
  <2>2. /\ "new" \in StatesOf["inquiry"] /\ "open" \in StatesOf["alert"]
        /\ "submitted" \in StatesOf["privacy"]
    BY DEF StatesOf, InquiryStates, AlertStates, PrivacyStates
  <2> QED BY <1>2, <2>1, <2>2, CaseOpenKeeps DEF CreateInquiry, DetectAlert, FileRequest
<1>3. ASSUME NEW c \in Cases, NEW u \in Staff, PortalOperations(u, c)
      PROVE  CaseInv'
  <2>1. {"incident", "lost_found"} \subseteq Kinds
    BY KindsListed
  <2>2. "open" \in StatesOf["incident"] /\ "found" \in StatesOf["lost_found"]
    BY DEF StatesOf, IncidentStates, LostFoundStates
  <2> QED BY <1>3, <2>1, <2>2, CaseOpenKeeps DEF PortalOperations
<1>4. ASSUME NEW c \in Cases, NEW u \in Staff, NEW d \in Desks,
             \/ PortalIncidentAction(d, u, c) \/ PortalLostFoundAction(d, u, c)
             \/ PortalInquiryDetail(d, u, c) \/ PortalManagementQuery(d, u, c)
             \/ PrivacyDesk(d, u, c)
      PROVE  CaseInv'
  <2>1. {"incident", "lost_found", "inquiry", "query", "privacy"} \subseteq Kinds
    BY KindsListed
  <2> QED BY <1>4, <2>1, CaseDecideKeeps, CaseReplyKeeps
          DEF PortalIncidentAction, PortalLostFoundAction, PortalInquiryDetail,
              PortalManagementQuery, PrivacyDesk
<1>5. ASSUME NEW c \in Cases, NEW u \in Staff, NEW d \in Desks,
             \/ PortalManagement(d, u, c) \/ PortalExpenditures(d, u, c)
             \/ PortalFinancialAudit(d, u, c)
      PROVE  CaseInv'
  <2>1. {"alert", "query", "expenditure", "audit"} \subseteq Kinds
    BY KindsListed
  <2>2. /\ "open" \in StatesOf["query"] /\ "submitted" \in StatesOf["expenditure"]
        /\ "prepared" \in StatesOf["audit"]
    BY DEF StatesOf, QueryStates, ExpenditureStates, AuditStates
  <2> QED BY <1>5, <2>1, <2>2, CaseDecideKeeps, CaseOpenKeeps
          DEF PortalManagement, PortalExpenditures, PortalFinancialAudit
<1> QED BY <1>1, <1>2, <1>3, <1>4, <1>5, CaseEvaluateKeeps, CaseCommitKeeps, CaseAbortKeeps DEF CaseNext

THEOREM CaseInvariance == CaseSpec => []CaseInv
  BY CaseStarts, CaseStep, PTL DEF CaseSpec

LEMMA CaseTyped == CaseInv => CaseTypeOK
<1> SUFFICES ASSUME CaseInv PROVE CaseTypeOK
  OBVIOUS
<1>1. \A h \in EventRow : IsEvent(h)
  BY DEF EventRow, IsEvent, NoEvent, Event
<1>2. ASSUME NEW c \in Cases, NEW n \in DOMAIN history[c] PROVE IsEvent(history[c][n])
  <2>1. history[c][n] \in EventRow
    BY <1>2 DEF CaseInv, CaseRowsOK
  <2> QED BY <1>1, <2>1
<1>3. \A d \in Desks : desk[d].case \in Cases \cup {None} /\ IsEvent(desk[d].event)
  BY <1>1 DEF CaseInv, CaseRowsOK
<1> QED BY <1>2, <1>3 DEF CaseInv, CaseRowsOK, CaseTypeOK

LEMMA CasesOK == ASSUME CaseInv PROVE HistoryExplainsStatus
  BY DEF CaseInv, HistoryExplainsStatus, CaseExplained, Permits, Approves, ExpenseKey

\* The history of every case explains its status: each row begins where the one before
\* ended and is a step its kind allows its actor, and an expenditure is in the journal
\* exactly when it is paid, after an independent approval (HistoryExplainsStatus).
THEOREM CasesExplained == CaseSpec => []HistoryExplainsStatus
  BY CasesOK, CaseInvariance, PTL

-----------------------------------------------------------------------------
(* Folios *)

LineKinds == {"accommodation", "tax", "extra"}
IsLine(e) == e.key[1] \in LineKinds

\* What an entry of a folio stands for, as the rows say it.
PricePosted(e) ==
    /\ e.amount > 0
    /\ \/ e = Entry(e.stay, "accommodation", e.stay, "accommodation", e.amount)
       \/ e = Entry(e.stay, "tax", e.stay, "tax", e.amount)
       \/ e = Entry(e.stay, "extra", e.stay, "service", e.amount)

CancelPosted(e) ==
    /\ stay[e.stay].status = "cancelled"
    /\ \/ /\ stay[e.stay].total > 0
          /\ e = Entry(e.stay, "cancellation-reversal", e.stay, "credit_note",
                       -stay[e.stay].total)
       \/ e = Entry(e.stay, "cancellation-fee", e.stay, "adjustment", stay[e.stay].fee)

AmendmentPosted(e) ==
    \E n \in DOMAIN amended :
       /\ amended[n] = e.stay
       /\ e = Entry(e.stay, "reservation-amendment", n, CorrectionType(e.amount), e.amount)

CorrectionPosted(e) ==
    \E n \in 1 .. corrected :
       e = Entry(e.stay, "correction", n, CorrectionType(e.amount), e.amount)

DiscountEntry(d) ==
    Entry(discount[d].stay, "reservation-discount", d, "credit_note", -discount[d].amount)
DiscountPosted(e) ==
    \E d \in Discounts : discount[d].status = "approved" /\ e = DiscountEntry(d)

OrderEntry(o) == Entry(order[o].stay, "service-order", o, "service", OrderTotal(o))
OrderPosted(e) ==
    \E o \in Orders : order[o].status = "completed" /\ e = OrderEntry(o)

PaymentPosted(e) ==
    \E p \in PaymentIds :
       /\ payment_of[p].stay # None
       /\ e = Entry(payment_of[p].stay, "payment", p, "payment", -payment_of[p].amount)

RefundPosted(e) ==
    \E f \in RefundIds :
       /\ refund_of[f].payment # None
       /\ payment_of[refund_of[f].payment].stay # None
       /\ e = Entry(payment_of[refund_of[f].payment].stay, "refund", f, "refund",
                    refund_of[f].amount)

Caused(e) ==
    /\ IsEntry(e) /\ e.stay \in folios
    /\ \/ PricePosted(e) \/ CancelPosted(e) \/ AmendmentPosted(e) \/ CorrectionPosted(e)
       \/ DiscountPosted(e) \/ OrderPosted(e) \/ PaymentPosted(e) \/ RefundPosted(e)

\* The journal rows that stand for entries of folios; the others are those of Casework.
FolioKinds == {"receipt", "refund", "folio-journal"}
FolioRows == {j \in journal : j.key[1] \in FolioKinds}

\* The entries: each with its cause, under a key and with a journal entry of its own.
EntriesOK ==
    /\ IsFiniteSet(entries)
    /\ \A e \in entries : Caused(e)
    /\ \A e, f \in entries : e.key = f.key => e = f
    /\ FolioRows = {JournalOf(e) : e \in entries}

\* The other way round: what a cause has posted.
CausesPosted ==
    /\ \A o \in Orders :
          order[o].status = "completed" /\ order[o].stay # None => OrderEntry(o) \in entries
    /\ \A d \in Discounts : discount[d].status = "approved" => DiscountEntry(d) \in entries
    /\ \A s \in Stays : stay[s].status = "cancelled" /\ stay[s].total > 0 =>
          Keyed(<<"cancellation-reversal", s>>)

\* Rows refer to stays that are there, and money to stays with a folio.
RowsRefer ==
    /\ \A s \in Stays : s \in folios => stay[s].status # "none"
    /\ \A s \in Stays : IF invoice[s].raised THEN s \in folios ELSE invoice[s].paid = 0
    /\ \A o \in Orders : order[o].stay # None => stay[order[o].stay].status # "none"
    /\ \A d \in Discounts : discount[d].status # "none" =>
          discount[d].stay # None /\ stay[discount[d].stay].status # "none"
    /\ \A p \in PaymentIds : payment_of[p].stay # None => invoice[payment_of[p].stay].raised

MoneyOn(s) == {e \in entries : e.stay = s /\ e.type \in {"payment", "refund"}}
\* The invoice of a stay and the money on its folio.
PaidAsPosted(s) == invoice[s].paid = -SumOf(MoneyOn(s))

WasAmended(s) == \E n \in DOMAIN amended : amended[n] = s

\* Prices are not negative, and the total is the sum of the lines: or that of the nights
\* alone, after an amendment without a rate plan.  Without a plan there are no extras.
PriceOK(s) ==
    /\ stay[s].subtotal \in Nat /\ stay[s].taxes \in Nat /\ stay[s].total \in Nat
    /\ stay[s].fee \in Nat
    /\ ~stay[s].plan => stay[s].extra = 0
    /\ \/ stay[s].total = stay[s].subtotal + stay[s].extra + stay[s].taxes
       \/ /\ WasAmended(s) /\ ~stay[s].plan
          /\ stay[s].total = stay[s].subtotal /\ stay[s].total > 0

\* What belongs to the price of the stay, the lines among it.
OtherKeys == {"service-order", "correction", "reservation-discount"}
IsOwn(e) == e.type \notin {"payment", "refund"} /\ e.key[1] \notin OtherKeys
OwnOn(s) == {e \in entries : e.stay = s /\ IsOwn(e)}

\* What the folio of a stay comes to: the price, or the fee once it is cancelled.
Owed(s) == IF stay[s].status = "cancelled" THEN stay[s].fee ELSE stay[s].total

\* The lines that a folio was opened with are on it.
OpenedPosted(s) ==
    /\ opened[s].subtotal # 0 => Keyed(<<"accommodation", s>>)
    /\ opened[s].taxes # 0 => Keyed(<<"tax", s>>)
    /\ opened[s].extra # 0 => Keyed(<<"extra", s>>)

FeeOK(s) ==
    /\ ~WasAmended(s) /\ s \in folios => Charges(s) = {} /\ LateLines(s) = {}
    /\ s \in folios =>
          /\ OpenedPosted(s)
          /\ SumOf(OwnOn(s)) = Owed(s) + SumOf(LateLines(s))
    /\ s \notin folios /\ stay[s].status = "cancelled" =>
          stay[s].total = 0 /\ stay[s].fee = 0

FolioInv ==
    /\ FolioTypeOK
    /\ EntriesOK /\ CausesPosted /\ RowsRefer
    /\ \A s \in Stays : PaidAsPosted(s) /\ PriceOK(s) /\ FeeOK(s)

-----------------------------------------------------------------------------
(* Sums of entries *)

SumTyped(es) == IsFiniteSet(es) /\ \A e \in es : e.amount \in Int

LEMMA SumOfNothing == SumOf({}) = 0
  BY SumNothing DEF SumOf

LEMMA SumOfInt == ASSUME NEW es, SumTyped(es) PROVE SumOf(es) \in Int
  BY SumInt DEF SumOf, SumTyped

LEMMA SumOfAdded ==
    ASSUME NEW es, SumTyped(es), NEW e, e \notin es, e.amount \in Int
    PROVE  SumTyped(es \cup {e}) /\ SumOf(es \cup {e}) = SumOf(es) + e.amount
<1> DEFINE w == [x \in es |-> x.amount]
           v == [x \in es \cup {e} |-> x.amount]
<1>1. SumTyped(es \cup {e})
  BY FS_AddElement DEF SumTyped
<1>2. (\A x \in es : w[x] \in Int /\ v[x] = w[x]) /\ v[e] \in Int /\ v[e] = e.amount
  BY DEF SumTyped
<1>3. SumFunctionOnSet(v, es \cup {e}) = SumFunctionOnSet(w, es) + v[e]
  <2> HIDE DEF w, v
  <2> QED BY <1>2, SumAdded DEF SumTyped
<1> QED BY <1>1, <1>2, <1>3 DEF SumOf

\* The sums of sets without a common element add up.
LEMMA SumOfUnion ==
    ASSUME NEW es, SumTyped(es), NEW fs, SumTyped(fs), es \cap fs = {}
    PROVE  SumTyped(es \cup fs) /\ SumOf(es \cup fs) = SumOf(es) + SumOf(fs)
<1> DEFINE G == {gs \in SUBSET fs : SumOf(es \cup gs) = SumOf(es) + SumOf(gs)}
<1>1. \A gs \in SUBSET fs : SumTyped(gs) /\ SumTyped(es \cup gs)
  BY FS_Subset, FS_Union DEF SumTyped
<1>2. ASSUME NEW gs \in SUBSET fs, \A e \in gs : gs \ {e} \in G PROVE gs \in G
  <2>1. CASE gs = {}
    BY <2>1, SumOfNothing, SumOfInt
  <2>2. CASE gs # {}
    <3>1. PICK e \in gs : TRUE
      BY <2>2
    <3> DEFINE rest == gs \ {e}
    <3>2. /\ rest \in SUBSET fs /\ e \notin rest /\ rest \cup {e} = gs
          /\ (es \cup rest) \cup {e} = es \cup gs /\ e \notin es \cup rest
          /\ e.amount \in Int /\ rest \in G
      BY <1>2, <3>1 DEF SumTyped
    <3> HIDE DEF rest
    <3>3. SumOf(gs) = SumOf(rest) + e.amount
      BY <1>1, <3>2, SumOfAdded
    <3>4. SumOf(es \cup gs) = SumOf(es \cup rest) + e.amount
      BY <1>1, <3>2, SumOfAdded
    <3>5. SumOf(rest) \in Int /\ SumOf(es) \in Int
      BY <1>1, <3>2, SumOfInt
    <3>6. SumOf(es \cup rest) = SumOf(es) + SumOf(rest)
      BY <3>2
    <3>7. SumOf(es \cup gs) = SumOf(es) + SumOf(gs)
      BY <3>2, <3>3, <3>4, <3>5, <3>6
    <3> QED BY <3>7
  <2> QED BY <2>1, <2>2
<1>3. \A gs \in SUBSET fs : gs \in G
  <2> HIDE DEF G
  <2> QED BY <1>2, SubsetInduction DEF SumTyped
<1> QED BY <1>1, <1>3

-----------------------------------------------------------------------------
(* Posting *)

LEMMA FolioConstants ==
    /\ RefundIds \subseteq Nat /\ Repeats \in Nat /\ NightRate \in Nat /\ ItemPrice \in Nat
    /\ VatRates \subseteq Nat /\ FeePercents \subseteq Nat
    /\ Promos \subseteq Nat /\ Extras \subseteq Nat /\ Nights \subseteq Nat /\ Sums \subseteq Nat
    /\ DiscountSums \subseteq Nat /\ CorrectionSums \subseteq Int
    /\ None \notin Stays /\ None \notin PaymentIds /\ None \notin Orders
    /\ MethodOf \in [PaymentIds -> {"cash", "bank_transfer", "pos", "online"}]
  BY FolioAssumption DEF RateRange

\* What a step leaves as it is: rows that have posted something.
CausesStay ==
    /\ folios \subseteq folios'
    /\ \A s \in Stays : stay[s].status = "cancelled" => stay'[s] = stay[s]
    /\ \A d \in Discounts : discount[d].status = "approved" => discount'[d] = discount[d]
    /\ \A o \in Orders : order[o].status = "completed" => order'[o] = order[o]
    /\ \A p \in PaymentIds : payment_of[p].stay # None => payment_of'[p] = payment_of[p]
    /\ \A f \in RefundIds : refund_of[f].payment # None => refund_of'[f] = refund_of[f]
    /\ corrected \in Nat /\ corrected' \in Nat /\ corrected <= corrected'
    /\ \A n \in DOMAIN amended : n \in DOMAIN amended' /\ amended'[n] = amended[n]

LEMMA CauseKept ==
    ASSUME FolioTypeOK, CausesStay, NEW e, Caused(e)
    PROVE  Caused(e)'
<1>1. e.stay \in Stays /\ e.stay \in folios' /\ IsEntry(e)
  BY DEF Caused, IsEntry, CausesStay
<1>2. CASE PricePosted(e)
  BY <1>1, <1>2 DEF Caused, PricePosted
<1>3. CASE CancelPosted(e)
  <2>1. stay'[e.stay] = stay[e.stay]
    BY <1>1, <1>3 DEF CancelPosted, CausesStay
  <2> QED BY <1>1, <1>3, <2>1 DEF Caused, CancelPosted
<1>4. CASE AmendmentPosted(e)
  BY <1>1, <1>4 DEF Caused, AmendmentPosted, CausesStay
<1>5. CASE CorrectionPosted(e)
  BY <1>1, <1>5 DEF Caused, CorrectionPosted, CausesStay
<1>6. CASE DiscountPosted(e)
  <2>1. PICK d \in Discounts : discount[d].status = "approved" /\ e = DiscountEntry(d)
    BY <1>6 DEF DiscountPosted
  <2>2. discount'[d] = discount[d]
    BY <2>1 DEF CausesStay
  <2> QED BY <1>1, <2>1, <2>2 DEF Caused, DiscountPosted, DiscountEntry
<1>7. CASE OrderPosted(e)
  <2>1. PICK o \in Orders : order[o].status = "completed" /\ e = OrderEntry(o)
    BY <1>7 DEF OrderPosted
  <2>2. order'[o] = order[o]
    BY <2>1 DEF CausesStay
  <2> QED BY <1>1, <2>1, <2>2 DEF Caused, OrderPosted, OrderEntry, OrderTotal
<1>8. CASE PaymentPosted(e)
  <2>1. PICK p \in PaymentIds :
           /\ payment_of[p].stay # None
           /\ e = Entry(payment_of[p].stay, "payment", p, "payment", -payment_of[p].amount)
    BY <1>8 DEF PaymentPosted
  <2>2. payment_of'[p] = payment_of[p]
    BY <2>1 DEF CausesStay
  <2> QED BY <1>1, <2>1, <2>2 DEF Caused, PaymentPosted
<1>9. CASE RefundPosted(e)
  <2>1. PICK f \in RefundIds :
           /\ refund_of[f].payment # None
           /\ payment_of[refund_of[f].payment].stay # None
           /\ e = Entry(payment_of[refund_of[f].payment].stay, "refund", f, "refund",
                        refund_of[f].amount)
    BY <1>9 DEF RefundPosted
  <2>2. refund_of'[f] = refund_of[f] /\ refund_of[f].payment \in PaymentIds
    BY <2>1 DEF CausesStay, FolioTypeOK
  <2>3. payment_of'[refund_of[f].payment] = payment_of[refund_of[f].payment]
    BY <2>1, <2>2 DEF CausesStay
  <2> QED BY <1>1, <2>1, <2>2, <2>3 DEF Caused, RefundPosted
<1> QED BY <1>2, <1>3, <1>4, <1>5, <1>6, <1>7, <1>8, <1>9 DEF Caused

\* The kind of a payment or refund is in its key, and of nothing else.
LEMMA MoneyKeys ==
    ASSUME NEW e, Caused(e)
    PROVE  /\ e.type = "payment" =>
                 PaymentPosted(e) /\ e.key = <<"payment", e.key[2]>> /\ e.key[2] \in PaymentIds
           /\ e.type = "refund" =>
                 /\ RefundPosted(e) /\ e.key = <<"refund", e.key[2]>>
                 /\ e.key[2] \in RefundIds /\ refund_of[e.key[2]].payment # None
           /\ e.amount \in Int
<1>1. CASE PricePosted(e) \/ CancelPosted(e) \/ AmendmentPosted(e) \/ CorrectionPosted(e)
           \/ DiscountPosted(e) \/ OrderPosted(e)
  <2>1. e.type # "payment" /\ e.type # "refund"
    BY <1>1 DEF PricePosted, CancelPosted, AmendmentPosted, CorrectionPosted, DiscountPosted,
                OrderPosted, Entry, CorrectionType, DiscountEntry, OrderEntry
  <2> QED BY <2>1 DEF Caused, IsEntry
<1>2. CASE PaymentPosted(e)
  <2>1. PICK p \in PaymentIds :
            e = Entry(payment_of[p].stay, "payment", p, "payment", -payment_of[p].amount)
    BY <1>2 DEF PaymentPosted
  <2>2. e.type = "payment" /\ e.key = <<"payment", p>> /\ e.key[2] = p
    BY <2>1 DEF Entry
  <2>3. e.amount \in Int
    BY DEF Caused, IsEntry
  <2> QED BY <1>2, <2>2, <2>3
<1>3. CASE RefundPosted(e)
  <2>1. PICK f \in RefundIds :
            /\ refund_of[f].payment # None
            /\ e = Entry(payment_of[refund_of[f].payment].stay, "refund", f, "refund",
                         refund_of[f].amount)
    BY <1>3 DEF RefundPosted
  <2>2. e.type = "refund" /\ e.key = <<"refund", f>> /\ e.key[2] = f
    BY <2>1 DEF Entry
  <2>3. e.amount \in Int
    BY DEF Caused, IsEntry
  <2> QED BY <1>3, <2>1, <2>2, <2>3
<1> QED BY <1>1, <1>2, <1>3 DEF Caused

\* The same, as far as it is about the entry alone.
KeyForm(e) == /\ e.type = "payment" => e.key = <<"payment", e.key[2]>>
              /\ e.type = "refund" => e.key = <<"refund", e.key[2]>>

LEMMA CausedForm == ASSUME NEW e, Caused(e) PROVE KeyForm(e)
  BY MoneyKeys DEF KeyForm

LEMMA CausedFormNext == ASSUME NEW e, Caused(e)' PROVE KeyForm(e)
  BY DEF Caused, KeyForm, PricePosted, CancelPosted, AmendmentPosted, CorrectionPosted,
         DiscountPosted, OrderPosted, PaymentPosted, RefundPosted, Entry, CorrectionType,
         DiscountEntry, OrderEntry

LEMMA JournalKeysDiffer ==
    ASSUME NEW e, NEW f, KeyForm(e), KeyForm(f), JournalKey(e) = JournalKey(f)
    PROVE  e.key = f.key
<1>1. CASE e.type = "payment"
  BY <1>1 DEF JournalKey, KeyForm
<1>2. CASE e.type = "refund"
  BY <1>2 DEF JournalKey, KeyForm
<1>3. CASE e.type \notin {"payment", "refund"}
  BY <1>3 DEF JournalKey, KeyForm
<1> QED BY <1>1, <1>2, <1>3

LEMMA JournalKeysDifferNext ==
    ASSUME NEW e, NEW f, KeyForm(e), KeyForm(f), JournalKey(e)' = JournalKey(f)'
    PROVE  e.key = f.key
<1>1. CASE e.type = "payment"
  BY <1>1 DEF JournalKey, KeyForm
<1>2. CASE e.type = "refund"
  BY <1>2 DEF JournalKey, KeyForm
<1>3. CASE e.type \notin {"payment", "refund"}
  BY <1>3 DEF JournalKey, KeyForm
<1> QED BY <1>1, <1>2, <1>3

LEMMA JournalKept ==
    ASSUME FolioTypeOK, CausesStay, NEW e, Caused(e)
    PROVE  JournalOf(e)' = JournalOf(e)
<1>1. CASE e.type = "refund"
  <2>1. refund_of'[e.key[2]] = refund_of[e.key[2]]
    BY <1>1, MoneyKeys DEF CausesStay
  <2> QED BY <1>1, <2>1 DEF JournalOf, JournalKey, Contra, Till
<1>2. CASE e.type # "refund"
  BY <1>2 DEF JournalOf, JournalKey, Contra, Till, RevenueAccount
<1> QED BY <1>1, <1>2

LEMMA JournalTyped ==
    ASSUME NEW e, e.amount \in Int
    PROVE  IsJournalEntry(JournalOf(e))
  BY DEF IsJournalEntry, JournalOf, Moves, Lines

LEMMA JournalKinds == \A e : JournalOf(e).key[1] \in FolioKinds /\ JournalOf(e)'.key[1] \in FolioKinds
<1> SUFFICES ASSUME NEW e
             PROVE  JournalOf(e).key[1] \in FolioKinds /\ JournalOf(e)'.key[1] \in FolioKinds
  OBVIOUS
<1>1. CASE e.type = "payment"
  BY <1>1 DEF JournalOf, JournalKey, FolioKinds
<1>2. CASE e.type = "refund"
  BY <1>2 DEF JournalOf, JournalKey, FolioKinds
<1>3. CASE e.type \notin {"payment", "refund"}
  BY <1>3 DEF JournalOf, JournalKey, FolioKinds
<1> QED BY <1>1, <1>2, <1>3

\* What a step of the folios does to the journal: it adds rows, and rows of its own.
OnlyFolioRows == journal \subseteq journal' /\ \A j \in journal' \ journal : j.key[1] \in FolioKinds

LEMMA PostAdds == ASSUME NEW new, Post(new) PROVE OnlyFolioRows
  BY JournalKinds DEF Post, OnlyFolioRows

\* The entries after a posting.
LEMMA Posting ==
    ASSUME FolioTypeOK, EntriesOK, CausesStay, NEW new, IsFiniteSet(new), Post(new),
           \A e \in new : Caused(e)', \A e, f \in new : e.key = f.key => e = f
    PROVE  /\ entries' = entries \cup new
           /\ EntriesOK'
           /\ \A e \in entries' : IsEntry(e)
           /\ \A j \in journal' : IsJournalEntry(j)
<1>1. entries' = entries \cup new /\ IsFiniteSet(entries')
  BY FS_Union DEF Post, EntriesOK
<1>2. \A e \in entries : Caused(e) /\ Caused(e)' /\ JournalOf(e)' = JournalOf(e)
  BY CauseKept, JournalKept DEF EntriesOK
<1>3. \A e \in entries' : Caused(e)'
  BY <1>1, <1>2
<1>4. \A e, f \in entries' : e.key = f.key => e = f
  BY <1>1 DEF EntriesOK, Post, Keyed
<1>5. \A e \in entries' : KeyForm(e)
  BY <1>3, CausedFormNext
<1>6. \A e \in new : ~Posted(JournalOf(e)'.key)
  <2> SUFFICES ASSUME NEW e \in new, Posted(JournalOf(e)'.key) PROVE FALSE
    OBVIOUS
  <2>1. PICK j \in journal : j.key = JournalOf(e)'.key
    BY DEF Posted
  <2>2. j \in FolioRows
    BY <2>1, JournalKinds DEF FolioRows
  <2>3. PICK f \in entries : j = JournalOf(f)
    BY <2>2 DEF EntriesOK
  <2>4. JournalKey(f)' = JournalKey(e)'
    BY <1>2, <2>1, <2>3 DEF JournalOf
  <2>5. e.key = f.key
    BY <1>1, <1>5, <2>4, JournalKeysDifferNext
  <2> QED BY <2>5 DEF Post, Keyed
<1>7. journal' = journal \cup {JournalOf(e)' : e \in new}
  BY <1>6 DEF Post
<1>8. FolioRows' = {JournalOf(e)' : e \in entries'}
  <2>1. FolioRows' = FolioRows \cup {JournalOf(e)' : e \in new}
    BY <1>7, JournalKinds DEF FolioRows
  <2>2. FolioRows = {JournalOf(e)' : e \in entries}
    BY <1>2 DEF EntriesOK
  <2> QED BY <1>1, <2>1, <2>2
<1>9. EntriesOK'
  BY <1>1, <1>3, <1>4, <1>8 DEF EntriesOK
<1>10. \A e \in entries' : IsEntry(e)
  BY <1>3 DEF Caused
<1>11. \A e \in new : IsJournalEntry(JournalOf(e)')
  <2> SUFFICES ASSUME NEW e \in new PROVE IsJournalEntry(JournalOf(e)')
    OBVIOUS
  <2>1. e.amount \in Int
    BY <1>1, <1>10 DEF IsEntry
  <2> QED BY <2>1 DEF IsJournalEntry, JournalOf, Moves, Lines
<1>12. \A j \in journal' : IsJournalEntry(j)
  BY <1>7, <1>11 DEF FolioTypeOK
<1> QED BY <1>1, <1>9, <1>10, <1>12

-----------------------------------------------------------------------------
(* What a folio comes to *)

LEMMA PercentNat ==
    ASSUME NEW x \in Nat, NEW p \in Nat
    PROVE  Percent(x, p) \in Nat /\ (x = 0 => Percent(x, p) = 0)
<1>1. x * p \in Nat /\ (x = 0 => x * p = 0)
  OBVIOUS
<1>2. \A z \in Nat : z \div 100 \in Nat
  OBVIOUS
<1>3. 0 \div 100 = 0
  OBVIOUS
<1> QED BY <1>1, <1>2, <1>3 DEF Percent

\* An entry with an amount above zero, or nothing.
LEMMA LineSum ==
    ASSUME NEW e, e.amount \in Nat
    PROVE  /\ SumTyped({f \in {e} : f.amount > 0})
           /\ SumOf({f \in {e} : f.amount > 0}) = e.amount
<1>1. CASE e.amount = 0
  <2>1. {f \in {e} : f.amount > 0} = {}
    BY <1>1
  <2> QED BY <1>1, <2>1, SumOfNothing, FS_EmptySet DEF SumTyped
<1>2. CASE e.amount > 0
  <2>1. {f \in {e} : f.amount > 0} = {} \cup {e}
    BY <1>2
  <2>2. SumTyped({}) /\ e \notin {}
    BY FS_EmptySet DEF SumTyped
  <2>3. SumTyped({} \cup {e}) /\ SumOf({} \cup {e}) = SumOf({}) + e.amount
    BY <2>2, SumOfAdded
  <2> QED BY <2>1, <2>3, SumOfNothing
<1> QED BY <1>1, <1>2

NightsLine(s) == Entry(s, "accommodation", s, "accommodation", stay[s].subtotal)
TaxLine(s) == Entry(s, "tax", s, "tax", stay[s].taxes)
ExtraLine(s) == Entry(s, "extra", s, "service", stay[s].extra)

\* The lines of a price come to its parts.
LEMMA PriceSum ==
    ASSUME FolioTypeOK, NEW s \in Stays, PriceOK(s)
    PROVE  /\ SumTyped(PriceLines(s))
           /\ SumOf(PriceLines(s)) = stay[s].subtotal + stay[s].taxes + stay[s].extra
           /\ SumOf({e \in PriceLines(s) : e.key[1] # "accommodation"})
              = stay[s].taxes + stay[s].extra
           /\ \A e \in PriceLines(s) :
                 e.stay = s /\ IsLine(e) /\ IsOwn(e) /\ IsEntry(e) /\ PricePosted(e)
           /\ \A e, f \in PriceLines(s) : e.key = f.key => e = f
<1> DEFINE Above(e) == {f \in {e} : f.amount > 0}
<1>1. stay[s].subtotal \in Nat /\ stay[s].taxes \in Nat /\ stay[s].extra \in Nat
  BY DEF PriceOK, FolioTypeOK, StayRow
<1>2. /\ SumTyped(Above(NightsLine(s))) /\ SumOf(Above(NightsLine(s))) = stay[s].subtotal
      /\ SumTyped(Above(TaxLine(s))) /\ SumOf(Above(TaxLine(s))) = stay[s].taxes
      /\ SumTyped(Above(ExtraLine(s))) /\ SumOf(Above(ExtraLine(s))) = stay[s].extra
  <2>1. /\ NightsLine(s).amount = stay[s].subtotal /\ TaxLine(s).amount = stay[s].taxes
        /\ ExtraLine(s).amount = stay[s].extra
    BY DEF NightsLine, TaxLine, ExtraLine, Entry
  <2>2. \A e : e.amount \in Nat => SumTyped(Above(e)) /\ SumOf(Above(e)) = e.amount
    BY LineSum
  <2> HIDE DEF Above
  <2> QED BY <1>1, <2>1, <2>2
<1>3. PriceLines(s) = (Above(TaxLine(s)) \cup Above(ExtraLine(s))) \cup Above(NightsLine(s))
  BY DEF PriceLines, NightsLine, TaxLine, ExtraLine
<1>4. /\ NightsLine(s).key[1] = "accommodation" /\ TaxLine(s).key[1] = "tax"
      /\ ExtraLine(s).key[1] = "extra"
  BY DEF NightsLine, TaxLine, ExtraLine, Entry
<1>5. /\ Above(TaxLine(s)) \cap Above(ExtraLine(s)) = {}
      /\ (Above(TaxLine(s)) \cup Above(ExtraLine(s))) \cap Above(NightsLine(s)) = {}
      /\ {e \in PriceLines(s) : e.key[1] # "accommodation"}
         = Above(TaxLine(s)) \cup Above(ExtraLine(s))
  BY <1>3, <1>4
<1>6. /\ \A e \in PriceLines(s) : e \in {NightsLine(s), TaxLine(s), ExtraLine(s)} /\ e.amount > 0
  BY <1>3
<1>7. ASSUME NEW e \in PriceLines(s)
      PROVE  e.stay = s /\ IsLine(e) /\ IsOwn(e) /\ IsEntry(e) /\ PricePosted(e)
  <2>1. CASE e = NightsLine(s)
    BY <1>1, <1>6, <2>1 DEF NightsLine, Entry, IsLine, LineKinds, IsOwn, OtherKeys, IsEntry,
                            EntryTypes, PricePosted
  <2>2. CASE e = TaxLine(s)
    BY <1>1, <1>6, <2>2 DEF TaxLine, Entry, IsLine, LineKinds, IsOwn, OtherKeys, IsEntry,
                            EntryTypes, PricePosted
  <2>3. CASE e = ExtraLine(s)
    BY <1>1, <1>6, <2>3 DEF ExtraLine, Entry, IsLine, LineKinds, IsOwn, OtherKeys, IsEntry,
                            EntryTypes, PricePosted
  <2> QED BY <1>6, <2>1, <2>2, <2>3
<1>8. \A e, f \in PriceLines(s) : e.key = f.key => e = f
  BY <1>4, <1>6
<1> HIDE DEF Above
<1>9. /\ SumTyped(Above(TaxLine(s)) \cup Above(ExtraLine(s)))
      /\ SumOf(Above(TaxLine(s)) \cup Above(ExtraLine(s))) = stay[s].taxes + stay[s].extra
  BY <1>2, <1>5, SumOfUnion
<1>10. /\ SumTyped(PriceLines(s))
       /\ SumOf(PriceLines(s)) = (stay[s].taxes + stay[s].extra) + stay[s].subtotal
  BY <1>2, <1>3, <1>5, <1>9, SumOfUnion
<1>11. SumOf(PriceLines(s)) = stay[s].subtotal + stay[s].taxes + stay[s].extra
  BY <1>1, <1>10
<1>12. SumOf({e \in PriceLines(s) : e.key[1] # "accommodation"})
       = stay[s].taxes + stay[s].extra
  BY <1>5, <1>9
<1> QED BY <1>7, <1>8, <1>10, <1>11, <1>12

\* A line is on the folio of the stay its key names.
LEMMA LineStay ==
    ASSUME NEW e, Caused(e), NEW k \in LineKinds, NEW s, e.key = <<k, s>>
    PROVE  e.stay = s
  BY DEF Caused, PricePosted, CancelPosted, AmendmentPosted, CorrectionPosted, DiscountPosted,
         OrderPosted, PaymentPosted, RefundPosted, Entry, LineKinds, DiscountEntry, OrderEntry

LEMMA OwnTyped ==
    ASSUME EntriesOK, NEW s
    PROVE  SumTyped(OwnOn(s)) /\ SumTyped(LateLines(s)) /\ SumTyped(MoneyOn(s))
<1>1. OwnOn(s) \subseteq entries /\ LateLines(s) \subseteq entries /\ MoneyOn(s) \subseteq entries
  BY DEF OwnOn, LateLines, MoneyOn
<1>2. \A e \in entries : e.amount \in Int
  BY MoneyKeys DEF EntriesOK
<1> QED BY <1>1, <1>2, FS_Subset DEF EntriesOK, SumTyped

SamePrice(t) ==
    /\ stay'[t].subtotal = stay[t].subtotal /\ stay'[t].taxes = stay[t].taxes
    /\ stay'[t].extra = stay[t].extra /\ stay'[t].total = stay[t].total
    /\ stay'[t].fee = stay[t].fee /\ stay'[t].plan = stay[t].plan
    /\ stay'[t].status = "cancelled" <=> stay[t].status = "cancelled"

\* A posting that is no part of the price leaves what the price has come to.
LEMMA FeeKept ==
    ASSUME NEW t \in Stays, FeeOK(t), NEW new, entries' = entries \cup new,
           \A e \in new : e.stay = t => ~IsLine(e) /\ ~IsOwn(e),
           t \in folios' <=> t \in folios, opened'[t] = opened[t],
           SamePrice(t), WasAmended(t)' <=> WasAmended(t)
    PROVE  FeeOK(t)'
<1>1. OwnOn(t)' = OwnOn(t)
  BY DEF OwnOn
<1>2. LateLines(t)' = LateLines(t)
  BY DEF LateLines, IsLine, LineKinds, SamePrice
<1>3. Charges(t)' \subseteq Charges(t)
  BY DEF Charges, PriceLines, SamePrice, Keyed, Entry
<1>4. Owed(t)' = Owed(t)
  BY DEF Owed, SamePrice
<1>5. OpenedPosted(t) => OpenedPosted(t)'
  BY DEF OpenedPosted, Keyed
<1>6. stay'[t].fee = stay[t].fee /\ stay'[t].total = stay[t].total
      /\ (stay'[t].status = "cancelled" <=> stay[t].status = "cancelled")
  BY DEF SamePrice
<1> HIDE DEF OwnOn, LateLines, Charges, Owed, WasAmended, OpenedPosted
<1>7. SumOf(OwnOn(t))' = SumOf(OwnOn(t)) /\ SumOf(LateLines(t))' = SumOf(LateLines(t))
  BY <1>1, <1>2 DEF SumOf
<1> QED BY <1>2, <1>3, <1>4, <1>5, <1>6, <1>7 DEF FeeOK

\* What the folio of a stay comes to when it is brought up to date and posted to.
LEMMA FolioOpened ==
    ASSUME FolioTypeOK, EntriesOK, NEW s \in Stays, PriceOK(s), FeeOK(s),
           NEW charges, charges = Charges(s), NEW new, IsFiniteSet(new),
           \A e \in new : e.amount \in Int /\ e.stay = s /\ ~IsLine(e) /\ ~Keyed(e.key),
           entries' = entries \cup (charges \cup new), Opens(s), stay'[s].plan = stay[s].plan
    PROVE  /\ \A e \in PriceLines(s) : Keyed(e.key)'
           /\ OpenedPosted(s)' /\ SumOf(LateLines(s)') \in Int
           /\ ~WasAmended(s) => LateLines(s)' = {}
           /\ SumOf(OwnOn(s)')
              = Owed(s) + SumOf(LateLines(s)') + SumOf({e \in new : IsOwn(e)})
<1> DEFINE own == {e \in new : IsOwn(e)}
<1>1. /\ SumTyped(PriceLines(s))
      /\ SumOf(PriceLines(s)) = stay[s].subtotal + stay[s].taxes + stay[s].extra
      /\ SumOf({e \in PriceLines(s) : e.key[1] # "accommodation"})
         = stay[s].taxes + stay[s].extra
      /\ \A e \in PriceLines(s) : e.stay = s /\ IsLine(e) /\ IsOwn(e)
  BY PriceSum
<1>2. charges \subseteq PriceLines(s) /\ \A e \in charges : ~Keyed(e.key)
  BY DEF Charges
<1>3. \A e \in PriceLines(s) : Keyed(e.key)'
  BY DEF Charges, Keyed
<1>4. /\ SumTyped(OwnOn(s)) /\ SumTyped(charges) /\ SumTyped(own)
      /\ SumTyped(OwnOn(s) \cup charges)
      /\ SumOf(OwnOn(s) \cup charges) = SumOf(OwnOn(s)) + SumOf(charges)
      /\ OwnOn(s)' = (OwnOn(s) \cup charges) \cup own
      /\ SumOf(OwnOn(s)') = (SumOf(OwnOn(s)) + SumOf(charges)) + SumOf(own)
  <2>1. SumTyped(OwnOn(s)) /\ SumTyped(charges) /\ SumTyped(own)
    <3>1. SumTyped(charges)
      BY <1>1, <1>2, FS_Subset DEF SumTyped
    <3>2. SumTyped(own)
      BY FS_Subset DEF SumTyped
    <3> QED BY <3>1, <3>2, OwnTyped
  <2>2. \A e \in entries : Keyed(e.key)
    BY DEF Keyed
  <2>3. OwnOn(s) \cap charges = {} /\ (OwnOn(s) \cup charges) \cap own = {}
    BY <1>1, <1>2, <2>2 DEF OwnOn
  <2>4. OwnOn(s)' = (OwnOn(s) \cup charges) \cup own
    BY <1>1, <1>2 DEF OwnOn
  <2>5. /\ SumTyped(OwnOn(s) \cup charges)
        /\ SumOf(OwnOn(s) \cup charges) = SumOf(OwnOn(s)) + SumOf(charges)
    BY <2>1, <2>3, SumOfUnion
  <2>6. SumOf((OwnOn(s) \cup charges) \cup own) = SumOf(OwnOn(s) \cup charges) + SumOf(own)
    BY <2>1, <2>3, <2>5, SumOfUnion
  <2> QED BY <2>1, <2>4, <2>5, <2>6
<1>5. /\ stay[s].subtotal \in Nat /\ stay[s].taxes \in Nat /\ stay[s].extra \in Nat
      /\ stay[s].total \in Nat
  BY DEF PriceOK, FolioTypeOK, StayRow
<1>6. SumOf(OwnOn(s)) \in Int /\ SumOf(charges) \in Int /\ SumOf(own) \in Int /\ Owed(s) \in Int
  BY <1>4, SumOfInt DEF Owed, PriceOK
<1>7. CASE s \in folios
  <2>1. opened' = opened /\ OpenedPosted(s) /\ SumOf(OwnOn(s)) = Owed(s) + SumOf(LateLines(s))
    BY <1>7 DEF FeeOK, Opens
  <2>2. OpenedPosted(s)'
    BY <2>1 DEF OpenedPosted, Keyed
  <2>3. ~WasAmended(s) => charges = {} /\ LateLines(s) = {}
    BY <1>7 DEF FeeOK
  <2>4. \A e \in charges : \/ e.key = <<"accommodation", s>> /\ opened[s].subtotal = 0
                           \/ e.key = <<"tax", s>> /\ opened[s].taxes = 0
                           \/ e.key = <<"extra", s>> /\ opened[s].extra = 0
    BY <1>2, <2>1 DEF PriceLines, Entry, OpenedPosted
  <2>5. LateLines(s)' = LateLines(s) \cup charges
    <3>1. \A e \in charges : e.stay = s /\ \/ e.key[1] = "accommodation" /\ opened[s].subtotal = 0
                                           \/ e.key[1] = "tax" /\ opened[s].taxes = 0
                                           \/ e.key[1] = "extra" /\ opened[s].extra = 0
      BY <1>1, <1>2, <2>4
    <3>2. \A e \in new : e.key[1] \notin {"accommodation", "tax", "extra"}
      BY DEF IsLine, LineKinds
    <3> QED BY <2>1, <3>1, <3>2 DEF LateLines
  <2>6. SumTyped(LateLines(s)) /\ LateLines(s) \cap charges = {}
    BY <1>2, OwnTyped DEF LateLines, Keyed
  <2>7. /\ SumOf(LateLines(s) \cup charges) = SumOf(LateLines(s)) + SumOf(charges)
        /\ SumOf(LateLines(s)) \in Int
    BY <1>4, <2>6, SumOfUnion, SumOfInt
  <2>8. /\ SumOf(OwnOn(s)') = Owed(s) + SumOf(LateLines(s)') + SumOf(own)
        /\ SumOf(LateLines(s)') \in Int
    BY <1>4, <1>6, <2>1, <2>5, <2>7
  <2> QED BY <1>3, <2>2, <2>3, <2>5, <2>8
<1>8. CASE s \notin folios
  <2>1. \A e \in entries : e.stay # s
    BY <1>8 DEF EntriesOK, Caused
  <2>2. OwnOn(s) = {} /\ SumOf(OwnOn(s)) = 0
    BY <2>1, SumOfNothing DEF OwnOn
  <2>3. charges = PriceLines(s)
    <3> SUFFICES ASSUME NEW e \in PriceLines(s), Keyed(e.key) PROVE FALSE
      BY DEF Charges
    <3>1. PICK f \in entries : f.key = e.key
      BY DEF Keyed
    <3>2. \E k \in LineKinds : e.key = <<k, s>>
      BY DEF PriceLines, Entry, LineKinds
    <3>3. f.stay = s
      BY <3>1, <3>2, LineStay DEF EntriesOK
    <3> QED BY <2>1, <3>1, <3>3
  <2>4. /\ opened'[s].subtotal = stay[s].subtotal /\ opened'[s].taxes = stay[s].taxes
        /\ opened'[s].extra = stay[s].extra /\ opened'[s].total = stay[s].total
    BY <1>8 DEF Opens, PricesOf, FolioTypeOK
  <2>5. Owed(s) = stay[s].total
    BY <1>8 DEF Owed, FeeOK
  <2>6. OpenedPosted(s)'
    <3>1. /\ stay[s].subtotal # 0 => NightsLine(s) \in PriceLines(s)
          /\ stay[s].taxes # 0 => TaxLine(s) \in PriceLines(s)
          /\ stay[s].extra # 0 => ExtraLine(s) \in PriceLines(s)
      BY <1>5 DEF PriceLines, NightsLine, TaxLine, ExtraLine, Entry
    <3>2. /\ NightsLine(s).key = <<"accommodation", s>> /\ TaxLine(s).key = <<"tax", s>>
          /\ ExtraLine(s).key = <<"extra", s>>
      BY DEF NightsLine, TaxLine, ExtraLine, Entry
    <3> QED BY <1>3, <2>4, <3>1, <3>2 DEF OpenedPosted
  <2>7. LateLines(s)' = {e \in PriceLines(s) : /\ e.key[1] = "tax" /\ ~stay[s].plan
                                              /\ stay[s].total = stay[s].subtotal}
    <3>1. \A e \in PriceLines(s) :
             /\ e.key[1] = "accommodation" => stay[s].subtotal # 0
             /\ e.key[1] = "tax" => stay[s].taxes # 0
             /\ e.key[1] = "extra" => stay[s].extra # 0
      BY <1>5 DEF PriceLines, Entry
    <3>2. \A e \in new : e.key[1] \notin {"accommodation", "tax", "extra"}
      BY DEF IsLine, LineKinds
    <3>3. \A e \in entries' : e.stay = s /\ e.key[1] \in {"accommodation", "tax", "extra"}
                             <=> e \in PriceLines(s)
      BY <1>1, <2>1, <2>3, <3>2 DEF IsLine, LineKinds
    <3>4. \A e \in PriceLines(s) : e \in entries'
      BY <2>3
    <3>5. LateLines(s)' = {e \in entries' :
             /\ e.stay = s
             /\ \/ e.key[1] = "accommodation" /\ stay[s].subtotal = 0
                \/ e.key[1] = "tax" /\ stay[s].taxes = 0
                \/ e.key[1] = "extra" /\ stay[s].extra = 0
                \/ e.key[1] = "tax" /\ ~stay[s].plan /\ stay[s].total = stay[s].subtotal}
      BY <2>4 DEF LateLines
    <3>6. \A e \in PriceLines(s) : e.stay = s
      BY <1>1
    <3>7. ASSUME NEW e
          PROVE  e \in LateLines(s)' <=> /\ e \in PriceLines(s) /\ e.key[1] = "tax"
                                         /\ ~stay[s].plan /\ stay[s].total = stay[s].subtotal
      <4>1. CASE e \in PriceLines(s)
        BY <3>1, <3>4, <3>5, <3>6, <4>1
      <4>2. CASE e \notin PriceLines(s)
        BY <3>3, <3>5, <4>2
      <4> QED BY <4>1, <4>2
    <3> QED BY <3>7
  <2>8. CASE stay[s].total = stay[s].subtotal + stay[s].extra + stay[s].taxes
    <3>1. LateLines(s)' = {}
      <4>1. \A e \in PriceLines(s) : e.key[1] = "tax" => stay[s].taxes > 0
        BY DEF PriceLines, Entry
      <4>2. stay[s].taxes > 0 => stay[s].total # stay[s].subtotal
        BY <1>5, <2>8
      <4> QED BY <2>7, <4>1, <4>2
    <3>2. SumOf(OwnOn(s)') = Owed(s) + SumOf(LateLines(s)') + SumOf(own)
      BY <1>1, <1>4, <1>5, <1>6, <2>2, <2>3, <2>5, <2>8, <3>1, SumOfNothing
    <3> QED BY <1>3, <2>6, <3>1, <3>2, SumOfNothing
  <2>9. CASE WasAmended(s) /\ ~stay[s].plan /\ stay[s].total = stay[s].subtotal
    <3>1. LateLines(s)' = {e \in PriceLines(s) : e.key[1] # "accommodation"}
      <4>1. \A e \in PriceLines(s) : e.key[1] \in {"accommodation", "tax"}
        BY <2>9 DEF PriceLines, Entry, PriceOK
      <4> QED BY <2>7, <2>9, <4>1
    <3>2. /\ SumOf(OwnOn(s)') = Owed(s) + SumOf(LateLines(s)') + SumOf(own)
          /\ SumOf(LateLines(s)') \in Int
      BY <1>1, <1>4, <1>5, <1>6, <2>2, <2>3, <2>5, <2>9, <3>1
    <3> QED BY <1>3, <2>6, <2>9, <3>2
  <2> QED BY <2>8, <2>9 DEF PriceOK
<1> QED BY <1>7, <1>8

\* The same, for what the invariant says of the stay afterwards.
LEMMA FeeOpened ==
    ASSUME FolioTypeOK, EntriesOK, NEW s \in Stays, PriceOK(s), FeeOK(s),
           NEW charges, charges = Charges(s), NEW new, IsFiniteSet(new),
           \A e \in new : e.amount \in Int /\ e.stay = s /\ ~IsLine(e) /\ ~Keyed(e.key),
           entries' = entries \cup (charges \cup new), Opens(s),
           stay'[s].subtotal = stay[s].subtotal, stay'[s].taxes = stay[s].taxes,
           stay'[s].extra = stay[s].extra, stay'[s].plan = stay[s].plan,
           WasAmended(s)' <=> WasAmended(s),
           Owed(s)' = Owed(s) + SumOf({e \in new : IsOwn(e)})
    PROVE  FeeOK(s)'
<1>1. /\ \A e \in PriceLines(s) : Keyed(e.key)'
      /\ OpenedPosted(s)' /\ SumOf(LateLines(s)') \in Int
      /\ ~WasAmended(s) => LateLines(s)' = {}
      /\ SumOf(OwnOn(s)') = Owed(s) + SumOf(LateLines(s)') + SumOf({e \in new : IsOwn(e)})
  BY FolioOpened
<1>2. PriceLines(s)' = PriceLines(s)
  BY DEF PriceLines, Entry
<1>3. Charges(s)' = {}
  BY <1>1, <1>2 DEF Charges
<1>4. Owed(s) \in Int /\ SumOf({e \in new : IsOwn(e)}) \in Int
  <2>1. SumTyped({e \in new : IsOwn(e)})
    BY FS_Subset DEF SumTyped
  <2> QED BY <2>1, SumOfInt DEF Owed, PriceOK
<1>5. SumOf(OwnOn(s)') = Owed(s)' + SumOf(LateLines(s)')
  BY <1>1, <1>4
<1>6. SumOf(OwnOn(s))' = SumOf(OwnOn(s)') /\ SumOf(LateLines(s))' = SumOf(LateLines(s)')
  BY DEF SumOf
<1>7. s \in folios'
  BY DEF Opens
<1> HIDE DEF OwnOn, LateLines, Charges, Owed, WasAmended, OpenedPosted
<1> QED BY <1>1, <1>3, <1>5, <1>6, <1>7 DEF FeeOK

LEMMA FeeSame ==
    ASSUME NEW t \in Stays, FeeOK(t), entries' = entries, t \in folios' <=> t \in folios,
           opened'[t] = opened[t], SamePrice(t), WasAmended(t)' <=> WasAmended(t)
    PROVE  FeeOK(t)'
<1>1. PICK new : new = {}
  OBVIOUS
<1>2. entries' = entries \cup new /\ \A e \in new : e.stay = t => ~IsLine(e) /\ ~IsOwn(e)
  BY <1>1
<1> QED BY <1>2, FeeKept

LEMMA FeeAmended ==
    ASSUME EntriesOK, NEW s \in Stays, s \in folios, FeeOK(s), PriceOK(s),
           NEW e, e \notin entries, e.stay = s, ~IsLine(e), IsOwn(e), e.amount \in Int,
           entries' = entries \cup {e}, s \in folios', opened'[s] = opened[s], WasAmended(s)',
           stay'[s].plan = stay[s].plan, Owed(s)' = Owed(s) + e.amount
    PROVE  FeeOK(s)'
<1>1. SumOf(OwnOn(s)) = Owed(s) + SumOf(LateLines(s)) /\ OpenedPosted(s)
  BY DEF FeeOK
<1>2. OwnOn(s)' = OwnOn(s) \cup {e} /\ e \notin OwnOn(s) /\ LateLines(s)' = LateLines(s)
  BY DEF LateLines, IsLine, LineKinds, OwnOn
<1>3. SumOf(OwnOn(s)') = SumOf(OwnOn(s)) + e.amount
  BY <1>2, OwnTyped, SumOfAdded
<1>4. SumOf(LateLines(s)) \in Int /\ Owed(s) \in Int
  BY OwnTyped, SumOfInt DEF Owed, PriceOK
<1>5. SumOf(OwnOn(s)') = Owed(s)' + SumOf(LateLines(s)')
  BY <1>1, <1>2, <1>3, <1>4
<1>6. SumOf(OwnOn(s))' = SumOf(OwnOn(s)') /\ SumOf(LateLines(s))' = SumOf(LateLines(s)')
  BY DEF SumOf
<1>7. OpenedPosted(s)'
  BY <1>1 DEF OpenedPosted, Keyed
<1> HIDE DEF OwnOn, LateLines, Owed, WasAmended, OpenedPosted
<1> QED BY <1>5, <1>6, <1>7 DEF FeeOK

-----------------------------------------------------------------------------
(* Payments and refunds *)

LEMMA PaidKept ==
    ASSUME NEW s \in Stays, PaidAsPosted(s), invoice'[s].paid = invoice[s].paid,
           MoneyOn(s)' = MoneyOn(s)
    PROVE  PaidAsPosted(s)'
<1>1. SumOf(MoneyOn(s))' = SumOf(MoneyOn(s)')
  BY DEF SumOf
<1> HIDE DEF MoneyOn
<1> QED BY <1>1 DEF PaidAsPosted

LEMMA PaidMore ==
    ASSUME FolioTypeOK, EntriesOK, NEW s \in Stays, PaidAsPosted(s), NEW e, e.amount \in Int,
           e \notin MoneyOn(s), MoneyOn(s)' = MoneyOn(s) \cup {e},
           invoice'[s].paid = invoice[s].paid - e.amount
    PROVE  PaidAsPosted(s)'
<1>1. SumOf(MoneyOn(s))' = SumOf(MoneyOn(s)')
  BY DEF SumOf
<1>2. SumTyped(MoneyOn(s)) /\ SumOf(MoneyOn(s)) \in Int
  BY OwnTyped, SumOfInt
<1>3. SumOf(MoneyOn(s) \cup {e}) = SumOf(MoneyOn(s)) + e.amount
  BY <1>2, SumOfAdded
<1> HIDE DEF MoneyOn
<1>4. invoice[s].paid = -SumOf(MoneyOn(s))
  BY DEF PaidAsPosted
<1>5. invoice'[s].paid = -SumOf(MoneyOn(s)')
  BY <1>2, <1>3, <1>4
<1> QED BY <1>1, <1>5 DEF PaidAsPosted

-----------------------------------------------------------------------------
(* The steps *)

LEMMA PricesTyped ==
    ASSUME FolioTypeOK, NEW s \in Stays
    PROVE  PricesOf(stay[s]) \in PriceRow /\ (Opens(s) => opened' \in [Stays -> PriceRow])
  BY DEF FolioTypeOK, StayRow, PriceRow, PricesOf, Opens

\* The types of the rows, without the postings.
RowsTyped ==
    /\ vat \in VatRates
    /\ stay \in [Stays -> StayRow]
    /\ invoice \in [Stays -> InvoiceRow]
    /\ folios \subseteq Stays
    /\ order \in [Orders -> OrderRow]
    /\ discount \in [Discounts -> DiscountRow]
    /\ payment_of \in [PaymentIds -> [stay : Stays \cup {None}, amount : Nat]]
    /\ refund_of \in [RefundIds -> [payment : PaymentIds \cup {None}, amount : Nat]]
    /\ IsAmendmentHistory(amended) /\ corrected \in 0 .. Repeats

\* A step without postings: nothing happens to what has been posted.
LEMMA NothingPosted ==
    ASSUME FolioInv, CausesStay, RowsTyped', NoPosting
    PROVE  /\ FolioTypeOK' /\ EntriesOK'
           /\ \A s \in Stays : MoneyOn(s)' = MoneyOn(s)
<1>1. \A e \in entries : Caused(e)' /\ JournalOf(e)' = JournalOf(e)
  BY CauseKept, JournalKept DEF FolioInv, EntriesOK
<1>2. entries' = entries /\ journal' = journal /\ opened' = opened
  BY DEF NoPosting
<1>3. EntriesOK'
  BY <1>1, <1>2 DEF FolioInv, EntriesOK, FolioRows
<1>4. FolioTypeOK'
  BY <1>2 DEF FolioInv, FolioTypeOK, RowsTyped
<1> QED BY <1>2, <1>3, <1>4 DEF MoneyOn

\* A posting that brings the folio up to date: the charges of the stay and `new`.
LEMMA PostingToFolio ==
    ASSUME FolioInv, CausesStay, RowsTyped', NEW s \in Stays, NEW new, IsFiniteSet(new),
           PostToFolio(s, new), \A e \in new : Caused(e)' /\ ~IsLine(e) /\ e.stay = s,
           \A e, f \in new : e.key = f.key => e = f
    PROVE  /\ FolioTypeOK' /\ EntriesOK' /\ folios' = folios \cup {s} /\ Opens(s)
           /\ entries' = entries \cup (Charges(s) \cup new)
           /\ \A e \in new : e.amount \in Int /\ ~Keyed(e.key)
           /\ \A t \in Stays : MoneyOn(t)' = MoneyOn(t) \cup {e \in new :
                                 e.stay = t /\ e.type \in {"payment", "refund"}}
<1>1. PICK charges : charges = Charges(s)
  OBVIOUS
<1>2. folios' = folios \cup {s} /\ Opens(s) /\ Post(charges \cup new)
  BY <1>1 DEF PostToFolio, Opens
<1>3. /\ IsFiniteSet(charges)
      /\ \A e \in charges : e.stay = s /\ IsLine(e) /\ IsOwn(e) /\ IsEntry(e) /\ PricePosted(e)
      /\ \A e, f \in charges : e.key = f.key => e = f
  <2>1. charges \subseteq PriceLines(s)
    BY <1>1 DEF Charges
  <2> QED BY <2>1, PriceSum, FS_Subset DEF FolioInv, SumTyped
<1>4. IsFiniteSet(charges \cup new)
  BY <1>3, FS_Union
<1>5. \A e \in charges \cup new : Caused(e)'
  BY <1>2, <1>3 DEF Caused, PricePosted
<1>6. \A e, f \in charges \cup new : e.key = f.key => e = f
  BY <1>3 DEF IsLine
<1>7. /\ entries' = entries \cup (charges \cup new) /\ EntriesOK'
      /\ \A e \in entries' : IsEntry(e)
      /\ \A j \in journal' : IsJournalEntry(j)
  BY <1>2, <1>4, <1>5, <1>6, Posting DEF FolioInv
<1>8. FolioTypeOK'
  BY <1>2, <1>7, PricesTyped DEF FolioInv, FolioTypeOK, RowsTyped
<1>9. \A e \in new : e.amount \in Int /\ ~Keyed(e.key)
  BY <1>2, <1>7 DEF Post, IsEntry
<1>10. \A t \in Stays : MoneyOn(t)' = MoneyOn(t) \cup {e \in new :
                          e.stay = t /\ e.type \in {"payment", "refund"}}
  BY <1>3, <1>7 DEF MoneyOn, IsOwn
<1> QED BY <1>1, <1>2, <1>7, <1>8, <1>9, <1>10

\* A posting of one entry.
LEMMA PostingAlone ==
    ASSUME FolioInv, CausesStay, RowsTyped', NEW e, Post({e}), Caused(e)', folios' = folios,
           opened' = opened
    PROVE  /\ FolioTypeOK' /\ EntriesOK'
           /\ entries' = entries \cup {e} /\ e \notin entries /\ e.amount \in Int
           /\ ~IsLine(e) /\ ~IsOwn(e) /\ stay' = stay /\ amended' = amended =>
                 \A t \in Stays : FeeOK(t)'
           /\ \A t \in Stays : MoneyOn(t)' = MoneyOn(t) \cup {f \in {e} :
                                 f.stay = t /\ f.type \in {"payment", "refund"}}
<1>1. IsFiniteSet({e})
  BY FS_Singleton
<1>2. /\ entries' = entries \cup {e} /\ EntriesOK'
      /\ \A f \in entries' : IsEntry(f)
      /\ \A j \in journal' : IsJournalEntry(j)
  BY <1>1, Posting DEF FolioInv
<1>3. FolioTypeOK'
  BY <1>2 DEF FolioInv, FolioTypeOK, RowsTyped
<1>4. e \notin entries /\ e.amount \in Int
  BY <1>2 DEF Post, Keyed, IsEntry
<1>5. ASSUME ~IsLine(e), ~IsOwn(e), stay' = stay, amended' = amended, NEW t \in Stays
      PROVE  FeeOK(t)'
  <2>1. SamePrice(t) /\ (WasAmended(t)' <=> WasAmended(t))
    BY <1>5 DEF SamePrice, WasAmended
  <2>2. PICK new : new = {e}
    OBVIOUS
  <2> QED BY <1>2, <1>5, <2>1, <2>2, FeeKept DEF FolioInv
<1>6. \A t \in Stays : MoneyOn(t)' = MoneyOn(t) \cup {f \in {e} :
                         f.stay = t /\ f.type \in {"payment", "refund"}}
  BY <1>2 DEF MoneyOn
<1> QED BY <1>2, <1>3, <1>4, <1>5, <1>6

\* A posting to a stay that leaves its price alone: every folio comes to what it should.
LEMMA FeesOpened ==
    ASSUME FolioInv, NEW s \in Stays, NEW new, IsFiniteSet(new), Opens(s),
           entries' = entries \cup (Charges(s) \cup new), amended' = amended,
           \A e \in new : e.amount \in Int /\ e.stay = s /\ ~IsLine(e) /\ ~Keyed(e.key),
           stay'[s].subtotal = stay[s].subtotal, stay'[s].taxes = stay[s].taxes,
           stay'[s].extra = stay[s].extra, stay'[s].plan = stay[s].plan,
           Owed(s)' = Owed(s) + SumOf({e \in new : IsOwn(e)}),
           \A t \in Stays \ {s} : stay'[t] = stay[t]
    PROVE  \A t \in Stays : FeeOK(t)'
<1> PICK charges : charges = Charges(s)
  OBVIOUS
<1> SUFFICES ASSUME NEW t \in Stays PROVE FeeOK(t)'
  OBVIOUS
<1>1. WasAmended(t)' <=> WasAmended(t)
  BY DEF WasAmended
<1>2. CASE t = s
  BY <1>1, <1>2, FeeOpened DEF FolioInv
<1>3. CASE t # s
  <2>1. \A e \in charges \cup new : e.stay = s
    BY PriceSum DEF Charges, FolioInv
  <2>2. PICK all : all = charges \cup new
    OBVIOUS
  <2>3. SamePrice(t)
    BY <1>3 DEF SamePrice
  <2>4. (t \in folios' <=> t \in folios) /\ opened'[t] = opened[t]
    BY <1>3 DEF Opens, FolioInv, FolioTypeOK
  <2> QED BY <1>1, <1>3, <2>1, <2>2, <2>3, <2>4, FeeKept DEF FolioInv
<1> QED BY <1>2, <1>3

\* A step without postings that leaves stays, amendments and invoices alone.
LEMMA RowsOnly ==
    ASSUME FolioInv, CausesStay, RowsTyped', NoPosting, stay' = stay, amended' = amended,
           invoice' = invoice
    PROVE  /\ FolioTypeOK' /\ EntriesOK'
           /\ \A s \in Stays : PaidAsPosted(s)' /\ PriceOK(s)' /\ FeeOK(s)'
<1>1. FolioTypeOK' /\ EntriesOK' /\ \A s \in Stays : MoneyOn(s)' = MoneyOn(s)
  BY NothingPosted
<1>2. ASSUME NEW s \in Stays PROVE PaidAsPosted(s)' /\ PriceOK(s)' /\ FeeOK(s)'
  <2>1. PaidAsPosted(s)'
    BY <1>1, PaidKept DEF FolioInv
  <2>2. PriceOK(s)'
    BY DEF FolioInv, PriceOK, WasAmended
  <2>3. SamePrice(s) /\ (WasAmended(s)' <=> WasAmended(s)) /\ (s \in folios' <=> s \in folios)
        /\ entries' = entries /\ opened' = opened
    BY DEF SamePrice, WasAmended, NoPosting
  <2>4. FeeOK(s)'
    BY <2>3, FeeSame DEF FolioInv
  <2> QED BY <2>1, <2>2, <2>4
<1> QED BY <1>1, <1>2

LEMMA Unposted ==
    ASSUME NoPosting, CausesPosted, NEW s \in Stays, stay'[s] = stay[s]
    PROVE  stay'[s].status = "cancelled" /\ stay'[s].total > 0 =>
              Keyed(<<"cancellation-reversal", s>>)'
  BY DEF NoPosting, CausesPosted, Keyed

LEMMA RefersKept ==
    ASSUME FolioTypeOK, RowsRefer,
           order' = order, discount' = discount, payment_of' = payment_of,
           \A s \in Stays : stay[s].status # "none" => stay'[s].status # "none",
           \A s \in Stays : s \in folios' => stay'[s].status # "none",
           \A s \in Stays : invoice[s].raised => invoice'[s].raised,
           \A s \in Stays : IF invoice'[s].raised THEN s \in folios' ELSE invoice'[s].paid = 0
    PROVE  RowsRefer'
<1>1. /\ \A o \in Orders : order[o].stay # None => order[o].stay \in Stays
      /\ \A d \in Discounts : discount[d].stay # None => discount[d].stay \in Stays
      /\ \A p \in PaymentIds : payment_of[p].stay # None => payment_of[p].stay \in Stays
  BY DEF FolioTypeOK, OrderRow, DiscountRow
<1>2. \A o \in Orders : order'[o].stay # None => stay'[order'[o].stay].status # "none"
  BY <1>1 DEF RowsRefer
<1>3. \A d \in Discounts : discount'[d].status # "none" =>
         discount'[d].stay # None /\ stay'[discount'[d].stay].status # "none"
  BY <1>1 DEF RowsRefer
<1>4. \A p \in PaymentIds :
         payment_of'[p].stay # None => invoice'[payment_of'[p].stay].raised
  BY <1>1 DEF RowsRefer
<1> QED BY <1>2, <1>3, <1>4 DEF RowsRefer

LEMMA SetVatKeeps ==
    ASSUME FolioInv, NEW rate \in VatRates, SetVat(rate)
    PROVE  FolioInv'
<1>1. CausesStay /\ RowsTyped'
  BY DEF FolioInv, FolioTypeOK, CausesStay, RowsTyped, SetVat, NoPosting
<1>2. /\ FolioTypeOK' /\ EntriesOK'
      /\ \A s \in Stays : PaidAsPosted(s)' /\ PriceOK(s)' /\ FeeOK(s)'
  BY <1>1, RowsOnly DEF SetVat
<1>3. CausesPosted' /\ RowsRefer'
  BY DEF FolioInv, CausesPosted, RowsRefer, SetVat, NoPosting, Keyed, OrderEntry, OrderTotal,
         DiscountEntry
<1> QED BY <1>2, <1>3 DEF FolioInv

\* What a new reservation says of its price.
NewPrice(price) ==
    /\ price \in StayRow /\ price.status = "pending"
    /\ price.subtotal \in Nat /\ price.taxes \in Nat /\ price.fee = 0
    /\ ~price.plan => price.extra = 0
    /\ price.total = price.subtotal + price.extra + price.taxes

LEMMA SnapshotPrice ==
    ASSUME vat \in Nat, NEW plan \in BOOLEAN, NEW n \in Nat, NEW subtotal \in Nat,
           NEW extra \in Nat, plan \/ extra = 0
    PROVE  NewPrice(Snapshot(plan, n, subtotal, extra))
<1>1. PICK taxes : taxes = Percent(subtotal + extra, vat)
  OBVIOUS
<1>2. taxes \in Nat
  BY <1>1, PercentNat
<1>3. Snapshot(plan, n, subtotal, extra) =
        [status |-> "pending", plan |-> plan, nights |-> n, subtotal |-> subtotal,
         extra |-> extra, taxes |-> taxes, total |-> subtotal + extra + taxes, fee |-> 0]
  BY <1>1 DEF Snapshot
<1> QED BY <1>2, <1>3 DEF NewPrice, StayRow, StayStates

LEMMA QuotedPrice ==
    ASSUME vat \in Nat, NEW n \in Nat, NEW promo \in Nat, NEW extra \in Nat
    PROVE  NewPrice(Quoted(n, promo, extra)) /\ NewPrice(Walkin(n))
<1>1. n * NightRate \in Nat
  BY FolioConstants
<1>2. PICK nights : nights = n * NightRate
  OBVIOUS
<1>3. nights - (IF promo < nights THEN promo ELSE nights) \in Nat
  BY <1>1, <1>2
<1>4. NewPrice(Quoted(n, promo, extra))
  BY <1>2, <1>3, SnapshotPrice DEF Quoted
<1> QED BY <1>1, <1>4, SnapshotPrice DEF Walkin

LEMMA BookKeeps ==
    ASSUME FolioInv, NEW s \in Stays, NEW snapshot, NewPrice(snapshot), Book(s, snapshot)
    PROVE  FolioInv'
<1>1. CausesStay /\ RowsTyped'
  BY DEF FolioInv, FolioTypeOK, CausesStay, RowsTyped, Book, StayStep, NoPosting, NewPrice
<1>2. FolioTypeOK' /\ EntriesOK' /\ \A t \in Stays : MoneyOn(t)' = MoneyOn(t)
  BY <1>1, NothingPosted DEF Book
<1>3. stay'[s] = snapshot /\ s \notin folios /\ \A t \in Stays \ {s} : stay'[t] = stay[t]
  BY DEF Book, FolioInv, FolioTypeOK, RowsRefer
<1>4. CausesPosted'
  BY <1>3 DEF FolioInv, CausesPosted, Book, NoPosting, StayStep, Keyed, OrderEntry, OrderTotal,
              DiscountEntry, NewPrice
<1>5. RowsRefer'
  BY <1>3 DEF FolioInv, RowsRefer, FolioTypeOK, OrderRow, DiscountRow, Book, NoPosting,
              StayStep, NewPrice
<1>6. ASSUME NEW t \in Stays PROVE PaidAsPosted(t)' /\ PriceOK(t)' /\ FeeOK(t)'
  <2>1. PaidAsPosted(t)'
    BY <1>2, PaidKept DEF FolioInv, Book
  <2>2. WasAmended(t)' <=> WasAmended(t)
    BY DEF Book, WasAmended
  <2>3. PriceOK(t)'
    <3>1. CASE t = s
      BY <1>3, <3>1 DEF PriceOK, NewPrice, StayRow
    <3>2. CASE t # s
      BY <1>3, <2>2, <3>2 DEF PriceOK, FolioInv
    <3> QED BY <3>1, <3>2
  <2>4. FeeOK(t)'
    <3>1. CASE t = s
      <4>1. t \notin folios' /\ stay'[t].status # "cancelled"
        BY <1>3, <3>1 DEF Book, NoPosting, NewPrice
      <4> QED BY <4>1 DEF FeeOK
    <3>2. CASE t # s
      <4>1. SamePrice(t) /\ (t \in folios' <=> t \in folios) /\ entries' = entries
            /\ opened' = opened
        BY <1>3, <3>2 DEF SamePrice, Book, NoPosting
      <4> QED BY <2>2, <4>1, FeeSame DEF FolioInv
    <3> QED BY <3>1, <3>2
  <2> QED BY <2>1, <2>3, <2>4
<1> QED BY <1>2, <1>4, <1>5, <1>6 DEF FolioInv

\* A change of status alone.
LEMMA EntersKeeps ==
    ASSUME FolioInv, NEW s \in Stays, NEW from, NEW status, Enters(s, from, status), NoPosting,
           from \subseteq ActiveStay, status \in StayStates \ {"none", "cancelled"},
           invoice' = invoice
    PROVE  FolioInv'
<1>1. stay[s].status \notin {"none", "cancelled"}
  BY DEF Enters, ActiveStay
<1>2. PICK old \in StayRow : old = stay[s]
  BY DEF FolioInv, FolioTypeOK
<1>3. PICK new \in StayRow : new = [old EXCEPT !.status = status]
  BY <1>2 DEF StayRow
<1>4. stay' = [stay EXCEPT ![s] = new] /\ stay'[s] = new
  BY <1>2, <1>3 DEF Enters, FolioInv, FolioTypeOK
<1>5. CausesStay /\ RowsTyped'
  <2>1. /\ vat' = vat /\ order' = order /\ discount' = discount /\ payment_of' = payment_of
        /\ refund_of' = refund_of /\ corrected' = corrected /\ amended' = amended
        /\ folios' = folios
    BY DEF Enters, StayStep, NoPosting
  <2>2. stay' \in [Stays -> StayRow]
    BY <1>4 DEF FolioInv, FolioTypeOK
  <2>3. RowsTyped'
    BY <2>1, <2>2 DEF FolioInv, FolioTypeOK, RowsTyped, IsAmendmentHistory
  <2>4. \A t \in Stays : stay[t].status = "cancelled" => stay'[t] = stay[t]
    BY <1>1, <1>4 DEF FolioInv, FolioTypeOK
  <2>5. corrected \in Nat
    BY FolioConstants DEF FolioInv, FolioTypeOK
  <2> QED BY <2>1, <2>3, <2>4, <2>5 DEF CausesStay
<1>6. FolioTypeOK' /\ EntriesOK' /\ \A t \in Stays : MoneyOn(t)' = MoneyOn(t)
  BY <1>5, NothingPosted
<1>7. \A t \in Stays : /\ SamePrice(t)
                       /\ stay'[t].status = "none" <=> stay[t].status = "none"
  BY <1>1, <1>2, <1>3, <1>4 DEF SamePrice, StayRow, FolioInv, FolioTypeOK
<1>8. CausesPosted'
  BY <1>7 DEF FolioInv, CausesPosted, SamePrice, Enters, NoPosting, StayStep, Keyed, OrderEntry,
              OrderTotal, DiscountEntry
<1>9. RowsRefer'
  BY <1>7 DEF FolioInv, RowsRefer, FolioTypeOK, OrderRow, DiscountRow, Enters, NoPosting,
              StayStep
<1>10. ASSUME NEW t \in Stays PROVE PaidAsPosted(t)' /\ PriceOK(t)' /\ FeeOK(t)'
  <2>1. PaidAsPosted(t)'
    BY <1>6, PaidKept DEF FolioInv
  <2>2. WasAmended(t)' <=> WasAmended(t)
    BY DEF Enters, WasAmended
  <2>3. PriceOK(t)'
    BY <1>7, <2>2 DEF PriceOK, SamePrice, FolioInv
  <2>4. (t \in folios' <=> t \in folios) /\ entries' = entries /\ opened' = opened
    BY DEF NoPosting
  <2>5. FeeOK(t)'
    BY <1>7, <2>2, <2>4, FeeSame DEF FolioInv
  <2> QED BY <2>1, <2>3, <2>5
<1> QED BY <1>6, <1>8, <1>9, <1>10 DEF FolioInv

LEMMA ConfirmStayKeeps ==
    ASSUME FolioInv, NEW s \in Stays, Confirm(s)
    PROVE  FolioInv'
<1>1. /\ vat' = vat /\ order' = order /\ discount' = discount /\ payment_of' = payment_of
      /\ refund_of' = refund_of /\ corrected' = corrected /\ amended' = amended
      /\ folios' = folios \cup {s} /\ stay[s].status = "pending"
  BY DEF Confirm, Enters, StayStep, PostToFolio, Opens
<1>2. PICK old \in StayRow : old = stay[s]
  BY DEF FolioInv, FolioTypeOK
<1>3. PICK new \in StayRow : new = [old EXCEPT !.status = "confirmed"]
  BY DEF StayRow, StayStates
<1>4. stay' = [stay EXCEPT ![s] = new] /\ stay'[s] = new
  BY <1>2, <1>3 DEF Confirm, Enters, FolioInv, FolioTypeOK
<1>5. PICK raised \in InvoiceRow :
         /\ invoice' = [invoice EXCEPT ![s] = raised] /\ invoice'[s] = raised
         /\ raised.paid = invoice[s].paid /\ raised.raised
  <2>1. PICK was \in InvoiceRow : was = invoice[s]
    BY DEF FolioInv, FolioTypeOK
  <2>2. PICK sum \in Int : sum = stay[s].subtotal + stay[s].extra + stay[s].taxes
    BY <1>2 DEF StayRow
  <2> DEFINE raised == IF was.raised THEN was
                       ELSE [raised |-> TRUE, paid |-> 0, total |-> sum]
  <2>3. raised \in InvoiceRow /\ raised.raised
    BY DEF InvoiceRow
  <2>4. raised.paid = was.paid
    BY <2>1 DEF FolioInv, RowsRefer
  <2>5. invoice' = [invoice EXCEPT ![s] = raised]
    BY <2>1, <2>2 DEF Confirm
  <2>6. invoice'[s] = raised
    BY <2>5 DEF FolioInv, FolioTypeOK
  <2> HIDE DEF raised
  <2> QED BY <2>1, <2>3, <2>4, <2>5, <2>6
<1>6. CausesStay /\ RowsTyped'
  <2>1. stay' \in [Stays -> StayRow] /\ invoice' \in [Stays -> InvoiceRow]
    BY <1>4, <1>5 DEF FolioInv, FolioTypeOK
  <2>2. RowsTyped'
    BY <1>1, <2>1 DEF FolioInv, FolioTypeOK, RowsTyped, IsAmendmentHistory
  <2>3. \A t \in Stays : stay[t].status = "cancelled" => stay'[t] = stay[t]
    BY <1>1, <1>4 DEF FolioInv, FolioTypeOK
  <2>4. corrected \in Nat
    BY FolioConstants DEF FolioInv, FolioTypeOK
  <2> QED BY <1>1, <2>2, <2>3, <2>4 DEF CausesStay
<1>7. PICK none : none = {}
  OBVIOUS
<1>8. /\ FolioTypeOK' /\ EntriesOK' /\ entries' = entries \cup (Charges(s) \cup none)
      /\ Opens(s) /\ \A t \in Stays : MoneyOn(t)' = MoneyOn(t)
  <2>1. PostToFolio(s, none) /\ IsFiniteSet(none)
    BY <1>7, FS_EmptySet DEF Confirm
  <2>2. \A e \in none : Caused(e)' /\ ~IsLine(e) /\ e.stay = s
    BY <1>7
  <2>3. \A e, f \in none : e.key = f.key => e = f
    BY <1>7
  <2>4. \A t \in Stays : {e \in none : e.stay = t /\ e.type \in {"payment", "refund"}} = {}
    BY <1>7
  <2>5. /\ FolioTypeOK' /\ EntriesOK' /\ entries' = entries \cup (Charges(s) \cup none)
        /\ Opens(s) /\ \A t \in Stays : MoneyOn(t)' = MoneyOn(t) \cup {e \in none :
                              e.stay = t /\ e.type \in {"payment", "refund"}}
    BY <1>6, <2>1, <2>2, <2>3, PostingToFolio
  <2> QED BY <2>4, <2>5
<1>9. \A t \in Stays : SamePrice(t) /\ (stay'[t].status = "none" <=> stay[t].status = "none")
  BY <1>1, <1>2, <1>3, <1>4 DEF SamePrice, StayRow, FolioInv, FolioTypeOK
<1>10. CausesPosted'
  BY <1>1, <1>8, <1>9 DEF FolioInv, CausesPosted, SamePrice, Keyed, OrderEntry, OrderTotal,
                          DiscountEntry
<1>11. RowsRefer'
  <2>1. \A t \in Stays \ {s} : invoice'[t] = invoice[t]
    BY <1>5 DEF FolioInv, FolioTypeOK
  <2>2. \A t \in Stays :
           /\ t \in folios' => stay'[t].status # "none"
           /\ IF invoice'[t].raised THEN t \in folios' ELSE invoice'[t].paid = 0
    BY <1>1, <1>5, <1>9, <2>1 DEF FolioInv, RowsRefer
  <2>3. \A t \in Stays : invoice[t].raised => invoice'[t].raised
    BY <1>5, <2>1
  <2> QED BY <1>1, <1>9, <2>2, <2>3, RefersKept DEF FolioInv
<1>12. \A t \in Stays : PaidAsPosted(t)'
  <2>1. \A t \in Stays : invoice'[t].paid = invoice[t].paid
    BY <1>5 DEF FolioInv, FolioTypeOK
  <2> QED BY <1>8, <2>1, PaidKept DEF FolioInv
<1>13. \A t \in Stays : PriceOK(t)'
  BY <1>1, <1>9 DEF PriceOK, SamePrice, FolioInv, WasAmended
<1>14. \A t \in Stays : FeeOK(t)'
  <2>1. IsFiniteSet(none) /\ \A e \in none : e.amount \in Int /\ e.stay = s /\ ~IsLine(e)
                                            /\ ~Keyed(e.key)
    BY <1>7, FS_EmptySet
  <2>2. SumOf({e \in none : IsOwn(e)}) = 0
    <3>1. {e \in none : IsOwn(e)} = {}
      BY <1>7
    <3> QED BY <3>1, SumOfNothing
  <2>3. Owed(s)' = Owed(s) + SumOf({e \in none : IsOwn(e)})
    <3>1. Owed(s) \in Int /\ Owed(s)' = Owed(s)
      BY <1>9 DEF Owed, SamePrice, FolioInv, PriceOK
    <3> QED BY <2>2, <3>1
  <2>4. \A t \in Stays \ {s} : stay'[t] = stay[t]
    BY <1>4 DEF FolioInv, FolioTypeOK
  <2>5. stay'[s].subtotal = stay[s].subtotal /\ stay'[s].taxes = stay[s].taxes
        /\ stay'[s].extra = stay[s].extra /\ stay'[s].plan = stay[s].plan
    BY <1>9 DEF SamePrice
  <2> QED BY <1>1, <1>8, <2>1, <2>3, <2>4, <2>5, FeesOpened
<1> QED BY <1>8, <1>10, <1>11, <1>12, <1>13, <1>14 DEF FolioInv

LEMMA CancelKeeps ==
    ASSUME FolioInv, NEW s \in Stays, NEW percent \in FeePercents, Cancel(s, percent)
    PROVE  FolioInv'
<1>1. /\ vat' = vat /\ order' = order /\ discount' = discount /\ payment_of' = payment_of
      /\ refund_of' = refund_of /\ corrected' = corrected /\ amended' = amended
      /\ invoice' = invoice /\ stay[s].status \in {"pending", "confirmed"}
  BY DEF Cancel, StayStep
<1>2. PICK total : total = stay[s].total
  OBVIOUS
<1>3. PICK fee \in Nat : fee = Percent(total, percent) /\ (total = 0 => fee = 0)
  <2>1. total \in Nat /\ percent \in Nat
    BY <1>2, FolioConstants DEF FolioInv, PriceOK
  <2> QED BY <2>1, PercentNat
<1>4. PICK old \in StayRow : old = stay[s]
  BY DEF FolioInv, FolioTypeOK
<1>5. PICK new \in StayRow : new = [old EXCEPT !.status = "cancelled", !.fee = fee]
  <2>1. PICK ended \in StayRow : ended = [old EXCEPT !.status = "cancelled"]
    BY DEF StayRow, StayStates
  <2>2. [ended EXCEPT !.fee = fee] \in StayRow
    BY DEF StayRow
  <2>3. [ended EXCEPT !.fee = fee] = [old EXCEPT !.status = "cancelled", !.fee = fee]
    BY <2>1
  <2> QED BY <2>2, <2>3
<1>6. stay' = [stay EXCEPT ![s] = new] /\ stay'[s] = new
  BY <1>2, <1>3, <1>4, <1>5 DEF Cancel, FolioInv, FolioTypeOK
<1>7. /\ new.status = "cancelled" /\ new.fee = fee /\ new.total = total
      /\ new.subtotal = stay[s].subtotal /\ new.taxes = stay[s].taxes
      /\ new.extra = stay[s].extra /\ new.plan = stay[s].plan /\ total \in Nat
  BY <1>2, <1>4, <1>5 DEF StayRow, FolioInv, PriceOK
<1>8. \A t \in Stays \ {s} : stay'[t] = stay[t]
  BY <1>6 DEF FolioInv, FolioTypeOK
<1>9. folios' = folios \/ folios' = folios \cup {s}
  BY DEF Cancel, NoPosting, PostToFolio, Opens
<1>10. CausesStay /\ RowsTyped'
  <2>1. stay' \in [Stays -> StayRow]
    BY <1>6 DEF FolioInv, FolioTypeOK
  <2>2. RowsTyped'
    BY <1>1, <1>9, <2>1 DEF FolioInv, FolioTypeOK, RowsTyped, IsAmendmentHistory
  <2>3. \A t \in Stays : stay[t].status = "cancelled" => stay'[t] = stay[t]
    BY <1>1, <1>8
  <2>4. corrected \in Nat
    BY FolioConstants DEF FolioInv, FolioTypeOK
  <2> QED BY <1>1, <1>9, <2>2, <2>3, <2>4 DEF CausesStay
<1>11. \A t \in Stays : PriceOK(t)'
  <2>1. PriceOK(s)'
    BY <1>1, <1>2, <1>6, <1>7 DEF PriceOK, FolioInv, WasAmended
  <2>2. \A t \in Stays \ {s} : PriceOK(t)'
    BY <1>1, <1>8 DEF PriceOK, FolioInv, WasAmended
  <2> QED BY <2>1, <2>2
<1>12. RowsRefer'
  <2>1. \A t \in Stays : stay'[t].status # "none" <=> stay[t].status # "none"
    BY <1>1, <1>6, <1>7, <1>8
  <2>2. s \in folios' => stay'[s].status # "none"
    BY <1>6, <1>7
  <2>3. \A t \in Stays :
           /\ t \in folios' => stay'[t].status # "none"
           /\ IF invoice'[t].raised THEN t \in folios' ELSE invoice'[t].paid = 0
    BY <1>1, <1>9, <2>1, <2>2 DEF FolioInv, RowsRefer
  <2> QED BY <1>1, <2>1, <2>3, RefersKept DEF FolioInv
<1>13. CASE total = 0
  <2>1. NoPosting
    BY <1>2, <1>13 DEF Cancel
  <2>2. FolioTypeOK' /\ EntriesOK' /\ \A t \in Stays : MoneyOn(t)' = MoneyOn(t)
    BY <1>10, <2>1, NothingPosted
  <2>3. CausesPosted'
    <3>1. \A t \in Stays : stay'[t].status = "cancelled" /\ stay'[t].total > 0 =>
             t # s /\ stay'[t] = stay[t]
      BY <1>6, <1>7, <1>8, <1>13
    <3> QED BY <1>1, <2>1, <3>1 DEF FolioInv, CausesPosted, NoPosting, Keyed, OrderEntry,
                                    OrderTotal, DiscountEntry
  <2>4. ASSUME NEW t \in Stays PROVE PaidAsPosted(t)' /\ FeeOK(t)'
    <3>1. PaidAsPosted(t)'
      BY <1>1, <2>2, PaidKept DEF FolioInv
    <3>2. (WasAmended(t)' <=> WasAmended(t)) /\ (t \in folios' <=> t \in folios)
          /\ entries' = entries /\ opened' = opened
      BY <1>1, <2>1 DEF WasAmended, NoPosting
    <3>3. CASE t # s
      <4>1. SamePrice(t)
        BY <1>8, <3>3 DEF SamePrice
      <4> QED BY <3>1, <3>2, <4>1, FeeSame DEF FolioInv
    <3>4. CASE t = s
      <4>1. PICK none : none = {}
        OBVIOUS
      <4>2. OwnOn(s)' = OwnOn(s) /\ LateLines(s)' = LateLines(s) /\ Charges(s)' = Charges(s)
            /\ OpenedPosted(s)' = OpenedPosted(s)
        BY <1>6, <1>7, <2>1 DEF OwnOn, LateLines, Charges, PriceLines, Entry, Keyed, NoPosting,
                                OpenedPosted
      <4>3. Owed(s) = 0 /\ Owed(s)' = 0
        BY <1>1, <1>2, <1>3, <1>6, <1>7, <1>13 DEF Owed
      <4>4. SumOf(OwnOn(s))' = SumOf(OwnOn(s)) /\ SumOf(LateLines(s))' = SumOf(LateLines(s))
        BY <4>2 DEF SumOf
      <4>5. stay'[s].total = 0 /\ stay'[s].fee = 0 /\ FeeOK(s)
        BY <1>3, <1>6, <1>7, <1>13 DEF FolioInv
      <4>6. (WasAmended(s)' <=> WasAmended(s)) /\ (s \in folios' <=> s \in folios)
        BY <3>2, <3>4
      <4> HIDE DEF OwnOn, LateLines, Charges, Owed, WasAmended, OpenedPosted
      <4>7. FeeOK(s)'
        BY <4>2, <4>3, <4>4, <4>5, <4>6 DEF FeeOK
      <4> QED BY <3>1, <3>4, <4>7
    <3> QED BY <3>1, <3>3, <3>4
  <2> QED BY <1>11, <1>12, <2>2, <2>3, <2>4 DEF FolioInv
<1>14. CASE total > 0
  <2> DEFINE back == Entry(s, "cancellation-reversal", s, "credit_note", -total)
             charge == Entry(s, "cancellation-fee", s, "adjustment", fee)
  <2>1. PICK reversal : reversal = back
    OBVIOUS
  <2>2. PICK costs : costs = IF fee > 0 THEN {charge} ELSE {}
    OBVIOUS
  <2>3. PICK both : both = {reversal} \cup costs
    OBVIOUS
  <2>4. PostToFolio(s, both) /\ folios' = folios \cup {s}
    BY <1>2, <1>3, <1>14, <2>1, <2>2, <2>3 DEF Cancel, PostToFolio, Opens
  <2>5. /\ reversal.stay = s /\ reversal.amount = -total /\ ~IsLine(reversal)
        /\ IsOwn(reversal) /\ reversal.type \notin {"payment", "refund"}
        /\ reversal.key = <<"cancellation-reversal", s>>
    BY <2>1 DEF Entry, IsLine, LineKinds, IsOwn, OtherKeys
  <2>6. \A e \in costs :
           /\ e = charge /\ e.stay = s /\ e.amount = fee /\ ~IsLine(e) /\ IsOwn(e)
           /\ e.type \notin {"payment", "refund"} /\ e.key = <<"cancellation-fee", s>>
           /\ fee > 0
    BY <2>2 DEF Entry, IsLine, LineKinds, IsOwn, OtherKeys
  <2>7. IsFiniteSet(costs) /\ IsFiniteSet(both) /\ SumTyped(costs) /\ SumOf(costs) = fee
    <3>1. CASE fee > 0
      <4>1. costs = {} \cup {charge} /\ charge.amount = fee
        BY <2>2, <3>1 DEF Entry
      <4>2. SumTyped({}) /\ charge \notin {}
        BY FS_EmptySet DEF SumTyped
      <4> HIDE DEF charge
      <4>3. SumTyped({} \cup {charge}) /\ SumOf({} \cup {charge}) = SumOf({}) + charge.amount
        BY <4>1, <4>2, SumOfAdded
      <4>4. SumTyped(costs) /\ SumOf(costs) = fee
        BY <4>1, <4>3, SumOfNothing
      <4> QED BY <2>3, <4>4, FS_Singleton, FS_Union DEF SumTyped
    <3>2. CASE fee = 0
      <4>1. costs = {}
        BY <2>2, <3>2
      <4> QED BY <2>3, <3>2, <4>1, SumOfNothing, FS_EmptySet, FS_Singleton, FS_Union
              DEF SumTyped
    <3> QED BY <3>1, <3>2
  <2>8. \A e \in both : Caused(e)'
    <3>1. stay'[s].status = "cancelled" /\ stay'[s].total > 0 /\ s \in folios'
      BY <1>6, <1>7, <1>14, <2>4
    <3>2. Caused(reversal)'
      <4>1. IsEntry(reversal)
        BY <1>7, <1>14, <2>1 DEF IsEntry, Entry, EntryTypes
      <4> QED BY <1>6, <1>7, <2>1, <2>5, <3>1, <4>1 DEF Caused, CancelPosted
    <3>3. ASSUME NEW e \in costs PROVE Caused(e)'
      <4>1. IsEntry(e)
        BY <2>6 DEF IsEntry, Entry, EntryTypes
      <4> QED BY <1>6, <1>7, <2>6, <3>1, <4>1 DEF Caused, CancelPosted
    <3> QED BY <2>3, <3>2, <3>3
  <2>9. \A e, f \in both : e.key = f.key => e = f
    BY <2>3, <2>5, <2>6
  <2>10. \A e \in both : ~IsLine(e) /\ IsOwn(e) /\ e.stay = s
                         /\ e.type \notin {"payment", "refund"}
    BY <2>3, <2>5, <2>6
  <2>11. /\ FolioTypeOK' /\ EntriesOK'
         /\ entries' = entries \cup (Charges(s) \cup both)
         /\ Opens(s) /\ \A e \in both : e.amount \in Int /\ ~Keyed(e.key)
         /\ \A t \in Stays : MoneyOn(t)' = MoneyOn(t)
    <3>1. \A t \in Stays : {e \in both : e.stay = t /\ e.type \in {"payment", "refund"}} = {}
      BY <2>10
    <3>2. /\ FolioTypeOK' /\ EntriesOK'
          /\ entries' = entries \cup (Charges(s) \cup both)
          /\ Opens(s) /\ \A e \in both : e.amount \in Int /\ ~Keyed(e.key)
          /\ \A t \in Stays : MoneyOn(t)' = MoneyOn(t) \cup {e \in both :
                                e.stay = t /\ e.type \in {"payment", "refund"}}
      BY <1>10, <2>4, <2>7, <2>8, <2>9, <2>10, PostingToFolio
    <3> QED BY <3>1, <3>2
  <2>12. CausesPosted'
    <3>1. reversal \in entries' /\ entries \subseteq entries'
      BY <2>3, <2>11
    <3> QED BY <1>1, <1>8, <2>5, <3>1 DEF FolioInv, CausesPosted, Keyed, OrderEntry, OrderTotal,
                                          DiscountEntry
  <2>13. Owed(s)' = Owed(s) + SumOf({e \in both : IsOwn(e)})
    <3>1. {e \in both : IsOwn(e)} = costs \cup {reversal}
      BY <2>3, <2>10
    <3>2. reversal \notin costs
      BY <2>5, <2>6
    <3>3. SumOf(costs \cup {reversal}) = fee - total
      BY <1>7, <2>5, <2>7, <3>2, SumOfAdded
    <3>4. Owed(s) = total /\ Owed(s)' = fee
      BY <1>1, <1>2, <1>6, <1>7 DEF Owed
    <3>5. SumOf({e \in both : IsOwn(e)}) = fee - total
      BY <3>1, <3>3
    <3> QED BY <1>7, <3>4, <3>5
  <2>14. \A t \in Stays : FeeOK(t)'
    BY <1>1, <1>6, <1>7, <1>8, <2>4, <2>7, <2>10, <2>11, <2>13, FeesOpened
  <2>15. \A t \in Stays : PaidAsPosted(t)'
    BY <1>1, <2>11, PaidKept DEF FolioInv
  <2> QED BY <1>11, <1>12, <2>11, <2>12, <2>14, <2>15 DEF FolioInv
<1> QED BY <1>7, <1>13, <1>14

\* What an amendment makes of a price.
LEMMA RepricedPrice ==
    ASSUME FolioInv, NEW s \in Stays, NEW n \in Nights, NEW new, new = Repriced(s, n)
    PROVE  /\ new \in StayRow /\ new.status = stay[s].status
           /\ new.subtotal \in Nat /\ new.taxes \in Nat /\ new.total \in Nat /\ new.fee \in Nat
           /\ new.plan = stay[s].plan /\ (~new.plan => new.extra = 0)
           /\ \/ new.total = new.subtotal + new.extra + new.taxes
              \/ ~new.plan /\ new.total = new.subtotal /\ new.total > 0
<1>1. PICK old \in StayRow : old = stay[s]
  BY DEF FolioInv, FolioTypeOK
<1>2. n \in Nat /\ vat \in Nat
  BY FolioConstants DEF FolioInv, FolioTypeOK
<1>3. CASE stay[s].plan
  <2>1. PICK quoted : quoted = Quoted(n, 0, 0)
    OBVIOUS
  <2>2. NewPrice(quoted)
    BY <1>2, <2>1, QuotedPrice
  <2>3. new = [quoted EXCEPT !.status = old.status]
    BY <1>1, <1>3, <2>1 DEF Repriced
  <2>4. quoted \in StayRow /\ old.status \in StayStates
    BY <2>2 DEF NewPrice, StayRow
  <2>5. new \in StayRow /\ new.status = old.status
    BY <2>3, <2>4 DEF StayRow
  <2>6. /\ new.subtotal = quoted.subtotal /\ new.taxes = quoted.taxes
        /\ new.total = quoted.total /\ new.fee = quoted.fee /\ new.extra = quoted.extra
        /\ quoted.extra \in Nat /\ new.plan = quoted.plan
    BY <2>3, <2>4 DEF StayRow
  <2>7. quoted.plan = TRUE
    BY <2>1 DEF Quoted, Snapshot
  <2>8. new.plan = stay[s].plan
    <3>1. \A b \in BOOLEAN : b => b = TRUE
      OBVIOUS
    <3>2. stay[s].plan \in BOOLEAN
      BY <1>1 DEF StayRow
    <3> QED BY <1>3, <2>6, <2>7, <3>1, <3>2
  <2> QED BY <1>1, <1>3, <2>2, <2>5, <2>6, <2>8 DEF NewPrice
<1>4. CASE ~stay[s].plan
  <2>1. PICK price \in Nat : price = n * NightRate
    BY <1>2, FolioConstants
  <2>2. price > 0
    BY <2>1, FolioAssumption
  <2>3. new = [stay[s] EXCEPT !.nights = n, !.subtotal = price, !.total = price]
    BY <1>4, <2>1 DEF Repriced
  <2>4. PICK longer \in StayRow : longer = [old EXCEPT !.nights = n]
    BY <1>2 DEF StayRow
  <2>5. PICK dearer \in StayRow : dearer = [longer EXCEPT !.subtotal = price]
    <3>1. [longer EXCEPT !.subtotal = price] \in StayRow
      BY DEF StayRow
    <3> QED BY <3>1
  <2>6. [dearer EXCEPT !.total = price] \in StayRow
    BY DEF StayRow
  <2>7. new = [dearer EXCEPT !.total = price]
    BY <1>1, <2>3, <2>4, <2>5
  <2>8. /\ new.status = old.status /\ new.subtotal = price /\ new.total = price
        /\ new.taxes = old.taxes /\ new.fee = old.fee /\ new.plan = old.plan
        /\ new.extra = old.extra
    BY <2>4, <2>5, <2>7 DEF StayRow
  <2>9. old.taxes \in Nat /\ old.fee \in Nat /\ old.extra = 0
    BY <1>1, <1>4 DEF FolioInv, PriceOK
  <2> QED BY <1>1, <1>4, <2>2, <2>6, <2>7, <2>8, <2>9
<1> QED BY <1>3, <1>4

LEMMA AmendKeeps ==
    ASSUME FolioInv, NEW s \in Stays, NEW n \in Nights, Amend(s, n)
    PROVE  FolioInv'
<1>1. /\ vat' = vat /\ order' = order /\ discount' = discount /\ payment_of' = payment_of
      /\ refund_of' = refund_of /\ corrected' = corrected /\ invoice' = invoice
      /\ folios' = folios /\ opened' = opened /\ stay[s].status \in ActiveStay
      /\ amended' = Append(amended, s) /\ Len(amended) < Repeats
  BY DEF Amend, StayStep
<1>2. PICK new : new = Repriced(s, n)
  OBVIOUS
<1>3. /\ new \in StayRow /\ new.status = stay[s].status
      /\ new.subtotal \in Nat /\ new.taxes \in Nat /\ new.total \in Nat /\ new.fee \in Nat
      /\ new.plan = stay[s].plan /\ (~new.plan => new.extra = 0)
      /\ \/ new.total = new.subtotal + new.extra + new.taxes
         \/ ~new.plan /\ new.total = new.subtotal /\ new.total > 0
  BY <1>2, RepricedPrice
<1>4. stay' = [stay EXCEPT ![s] = new] /\ stay'[s] = new
  BY <1>2 DEF Amend, FolioInv, FolioTypeOK
<1>5. \A t \in Stays \ {s} : stay'[t] = stay[t]
  BY <1>4 DEF FolioInv, FolioTypeOK
<1>6. PICK difference \in Int : difference = new.total - stay[s].total
  BY <1>3 DEF FolioInv, PriceOK
<1>7. PICK id \in Nat : id = Len(amended) + 1
  BY DEF FolioInv, FolioTypeOK, IsAmendmentHistory
<1>8. /\ amended' \in Seq(Stays) /\ Len(amended') = id /\ id \in DOMAIN amended'
      /\ amended'[id] = s /\ id <= Repeats
      /\ \A m \in DOMAIN amended : m \in DOMAIN amended' /\ amended'[m] = amended[m]
      /\ \A m \in DOMAIN amended' : m \in DOMAIN amended \/ m = id
  <2>1. amended \in Seq(Stays)
    BY DEF FolioInv, FolioTypeOK, IsAmendmentHistory
  <2> QED BY <1>1, <1>7, <2>1, FolioConstants
<1>9. WasAmended(s)' /\ \A t \in Stays \ {s} : WasAmended(t)' <=> WasAmended(t)
  BY <1>8 DEF WasAmended
<1>10. CausesStay /\ RowsTyped'
  <2>1. stay' \in [Stays -> StayRow]
    BY <1>3, <1>4 DEF FolioInv, FolioTypeOK
  <2>2. RowsTyped'
    BY <1>1, <1>8, <2>1 DEF FolioInv, FolioTypeOK, RowsTyped, IsAmendmentHistory
  <2>3. \A t \in Stays : stay[t].status = "cancelled" => stay'[t] = stay[t]
    BY <1>1, <1>5 DEF ActiveStay
  <2>4. corrected \in Nat
    BY FolioConstants DEF FolioInv, FolioTypeOK
  <2> QED BY <1>1, <1>8, <2>2, <2>3, <2>4 DEF CausesStay
<1>11. \A t \in Stays : PriceOK(t)'
  <2>1. PriceOK(s)'
    BY <1>3, <1>4, <1>9 DEF PriceOK
  <2>2. \A t \in Stays \ {s} : PriceOK(t)'
    BY <1>5, <1>9 DEF PriceOK, FolioInv
  <2> QED BY <2>1, <2>2
<1>12. RowsRefer'
  <2>1. \A t \in Stays : stay'[t].status = stay[t].status
    BY <1>3, <1>4, <1>5
  <2>2. \A t \in Stays :
           /\ t \in folios' => stay'[t].status # "none"
           /\ IF invoice'[t].raised THEN t \in folios' ELSE invoice'[t].paid = 0
    BY <1>1, <2>1 DEF FolioInv, RowsRefer
  <2> QED BY <1>1, <2>1, <2>2, RefersKept DEF FolioInv
<1>13. stay[s].status # "cancelled" /\ stay'[s].status # "cancelled"
  BY <1>1, <1>3, <1>4 DEF ActiveStay
<1>14. Owed(s)' = Owed(s) + difference
  BY <1>3, <1>4, <1>6, <1>13 DEF Owed, FolioInv, PriceOK
<1>15. ASSUME entries \subseteq entries' PROVE CausesPosted'
  <2>1. \A t \in Stays : stay'[t].status = "cancelled" => stay'[t] = stay[t]
    BY <1>5, <1>13
  <2> QED BY <1>1, <1>15, <2>1 DEF FolioInv, CausesPosted, Keyed, OrderEntry, OrderTotal,
                                   DiscountEntry
<1>16. CASE difference # 0 /\ s \in folios
  <2> DEFINE posted == Entry(s, "reservation-amendment", id,
                             IF difference > 0 THEN "adjustment" ELSE "credit_note", difference)
  <2>1. PICK e : e = posted
    OBVIOUS
  <2>2. Post({e})
    BY <1>2, <1>6, <1>7, <1>16, <2>1 DEF Amend
  <2>3. /\ e.stay = s /\ e.amount = difference /\ ~IsLine(e) /\ IsOwn(e) /\ IsEntry(e)
        /\ e.type \notin {"payment", "refund"}
    BY <1>16, <2>1 DEF Entry, IsLine, LineKinds, IsOwn, OtherKeys, IsEntry, EntryTypes
  <2>4. Caused(e)'
    BY <1>1, <1>8, <1>16, <2>1, <2>3 DEF Caused, AmendmentPosted, CorrectionType, Entry
  <2>5. /\ FolioTypeOK' /\ EntriesOK'
        /\ entries' = entries \cup {e} /\ e \notin entries
        /\ \A t \in Stays : MoneyOn(t)' = MoneyOn(t)
    <3>1. \A t \in Stays : {f \in {e} : f.stay = t /\ f.type \in {"payment", "refund"}} = {}
      BY <2>3
    <3>2. /\ FolioTypeOK' /\ EntriesOK'
          /\ entries' = entries \cup {e} /\ e \notin entries
          /\ \A t \in Stays : MoneyOn(t)' = MoneyOn(t) \cup {f \in {e} :
                                f.stay = t /\ f.type \in {"payment", "refund"}}
      BY <1>1, <1>10, <2>2, <2>4, PostingAlone
    <3> QED BY <3>1, <3>2
  <2>6. FeeOK(s)'
    BY <1>1, <1>3, <1>4, <1>9, <1>14, <1>16, <2>3, <2>5, FeeAmended DEF FolioInv
  <2>7. ASSUME NEW t \in Stays \ {s} PROVE FeeOK(t)'
    <3>1. PICK one : one = {e}
      OBVIOUS
    <3>2. SamePrice(t)
      BY <1>5 DEF SamePrice
    <3>3. entries' = entries \cup one /\ \A f \in one : f.stay # t
      BY <2>3, <2>5, <3>1
    <3> QED BY <1>1, <1>9, <3>2, <3>3, FeeKept DEF FolioInv
  <2>8. \A t \in Stays : PaidAsPosted(t)'
    BY <1>1, <2>5, PaidKept DEF FolioInv
  <2> QED BY <1>11, <1>12, <1>15, <2>5, <2>6, <2>7, <2>8 DEF FolioInv
<1>17. CASE ~(difference # 0 /\ s \in folios)
  <2>1. NoPosting
    <3>1. Post({})
      BY <1>2, <1>6, <1>17 DEF Amend
    <3> QED BY <1>1, <3>1 DEF Post, NoPosting
  <2>2. FolioTypeOK' /\ EntriesOK' /\ \A t \in Stays : MoneyOn(t)' = MoneyOn(t)
    BY <1>10, <2>1, NothingPosted
  <2>3. \A t \in Stays : PaidAsPosted(t)'
    BY <1>1, <2>2, PaidKept DEF FolioInv
  <2>4. ASSUME NEW t \in Stays \ {s} PROVE FeeOK(t)'
    <3>1. SamePrice(t) /\ entries' = entries
      BY <1>5, <2>1 DEF SamePrice, NoPosting
    <3> QED BY <1>1, <1>9, <3>1, FeeSame DEF FolioInv
  <2>5. FeeOK(s)'
    <3>1. CASE s \notin folios
      BY <1>1, <1>13, <3>1 DEF FeeOK
    <3>2. CASE s \in folios
      <4>1. Owed(s)' = Owed(s)
        BY <1>14, <1>17, <3>2 DEF Owed, FolioInv, PriceOK
      <4>2. OwnOn(s)' = OwnOn(s) /\ LateLines(s)' = LateLines(s)
            /\ OpenedPosted(s)' = OpenedPosted(s)
        BY <1>3, <1>4, <2>1 DEF OwnOn, LateLines, OpenedPosted, Keyed, NoPosting
      <4>3. SumOf(OwnOn(s))' = SumOf(OwnOn(s)) /\ SumOf(LateLines(s))' = SumOf(LateLines(s))
        BY <4>2 DEF SumOf
      <4>4. FeeOK(s) /\ s \in folios'
        BY <1>1, <3>2 DEF FolioInv
      <4> HIDE DEF OwnOn, LateLines, Owed, WasAmended, OpenedPosted
      <4> QED BY <1>9, <3>2, <4>1, <4>2, <4>3, <4>4 DEF FeeOK
    <3> QED BY <3>1, <3>2
  <2>6. CausesPosted'
    BY <1>15, <2>1 DEF NoPosting
  <2> QED BY <1>11, <1>12, <2>2, <2>3, <2>4, <2>5, <2>6 DEF FolioInv
<1> QED BY <1>16, <1>17

-----------------------------------------------------------------------------
(* Discounts, corrections and orders *)

LEMMA RequestDiscountKeeps ==
    ASSUME FolioInv, NEW u \in Staff, NEW d \in Discounts, NEW s \in Stays,
           NEW amount \in DiscountSums, RequestDiscount(u, d, s, amount)
    PROVE  FolioInv'
<1>1. /\ vat' = vat /\ stay' = stay /\ invoice' = invoice /\ order' = order
      /\ payment_of' = payment_of /\ refund_of' = refund_of /\ amended' = amended
      /\ corrected' = corrected /\ NoPosting
      /\ discount[d].status = "none" /\ stay[s].status \in ActiveStay
  BY DEF RequestDiscount, DiscountStep
<1>2. PICK asked \in DiscountRow :
         asked = [status |-> "pending", stay |-> s, amount |-> amount, by |-> u]
  BY FolioConstants DEF DiscountRow
<1>3. /\ discount' = [discount EXCEPT ![d] = asked] /\ discount'[d] = asked
      /\ \A o \in Discounts \ {d} : discount'[o] = discount[o]
  BY <1>2 DEF RequestDiscount, FolioInv, FolioTypeOK
<1>4. CausesStay /\ RowsTyped'
  <2>1. discount' \in [Discounts -> DiscountRow]
    BY <1>3 DEF FolioInv, FolioTypeOK
  <2>2. RowsTyped'
    BY <1>1, <2>1 DEF FolioInv, FolioTypeOK, RowsTyped, IsAmendmentHistory, NoPosting
  <2>3. corrected \in Nat
    BY FolioConstants DEF FolioInv, FolioTypeOK
  <2> QED BY <1>1, <1>3, <2>2, <2>3 DEF CausesStay, NoPosting
<1>5. /\ FolioTypeOK' /\ EntriesOK'
      /\ \A t \in Stays : PaidAsPosted(t)' /\ PriceOK(t)' /\ FeeOK(t)'
  BY <1>1, <1>4, RowsOnly
<1>6. CausesPosted'
  <2>1. \A o \in Discounts : discount'[o].status = "approved" => DiscountEntry(o)' \in entries
    <3>1. discount'[d].status # "approved"
      BY <1>2, <1>3
    <3> QED BY <1>3, <3>1 DEF FolioInv, CausesPosted, DiscountEntry
  <2> QED BY <1>1, <2>1 DEF FolioInv, CausesPosted, NoPosting, Keyed, OrderEntry, OrderTotal
<1>7. RowsRefer'
  BY <1>1, <1>2, <1>3, FolioConstants DEF FolioInv, RowsRefer, NoPosting, ActiveStay
<1> QED BY <1>5, <1>6, <1>7 DEF FolioInv

\* What the approval of a discount or the completion of an order posts.
LEMMA PostedBeside ==
    ASSUME FolioInv, CausesStay, RowsTyped', NEW s \in Stays, NEW e, e.stay = s,
           PostToFolio(s, {e}), IsEntry(e), Caused(e)', ~IsLine(e), ~IsOwn(e),
           stay' = stay, amended' = amended
    PROVE  /\ FolioTypeOK' /\ EntriesOK' /\ folios' = folios \cup {s}
           /\ entries \subseteq entries' /\ e \in entries' /\ ~Keyed(e.key) /\ e.amount \in Int
           /\ \A t \in Stays : PriceOK(t)' /\ FeeOK(t)'
           /\ \A t \in Stays : MoneyOn(t)' = MoneyOn(t) \cup {f \in {e} :
                                 f.stay = t /\ f.type \in {"payment", "refund"}}
<1>1. PICK new : new = {e}
  OBVIOUS
<1>2. IsFiniteSet(new)
  BY <1>1, FS_Singleton
<1>3. /\ FolioTypeOK' /\ EntriesOK' /\ folios' = folios \cup {s} /\ Opens(s)
      /\ entries' = entries \cup (Charges(s) \cup new)
      /\ \A f \in new : f.amount \in Int /\ ~Keyed(f.key)
      /\ \A t \in Stays : MoneyOn(t)' = MoneyOn(t) \cup {f \in new :
                            f.stay = t /\ f.type \in {"payment", "refund"}}
  <2>1. /\ PostToFolio(s, new) /\ \A f \in new : Caused(f)' /\ ~IsLine(f) /\ f.stay = s
        /\ \A f, g \in new : f.key = g.key => f = g
    BY <1>1
  <2> QED BY <1>2, <2>1, PostingToFolio
<1>4. \A t \in Stays : PriceOK(t)'
  BY DEF FolioInv, PriceOK, WasAmended
<1>5. \A t \in Stays : FeeOK(t)'
  <2>1. SumOf({f \in new : IsOwn(f)}) = 0
    <3>1. {f \in new : IsOwn(f)} = {}
      BY <1>1
    <3> QED BY <3>1, SumOfNothing
  <2>2. Owed(s)' = Owed(s) + SumOf({f \in new : IsOwn(f)})
    <3>1. Owed(s)' = Owed(s) /\ Owed(s) \in Int
      BY DEF Owed, FolioInv, PriceOK
    <3> QED BY <2>1, <3>1
  <2>3. \A f \in new : f.amount \in Int /\ f.stay = s /\ ~IsLine(f) /\ ~Keyed(f.key)
    BY <1>1, <1>3
  <2>4. \A t \in Stays \ {s} : stay'[t] = stay[t]
    OBVIOUS
  <2> QED BY <1>2, <1>3, <2>2, <2>3, <2>4, FeesOpened
<1> QED BY <1>1, <1>3, <1>4, <1>5

LEMMA ReviewDiscountKeeps ==
    ASSUME FolioInv, NEW u \in Staff, NEW d \in Discounts, NEW approve \in BOOLEAN,
           ReviewDiscount(u, d, approve)
    PROVE  FolioInv'
<1>1. /\ vat' = vat /\ stay' = stay /\ invoice' = invoice /\ order' = order
      /\ payment_of' = payment_of /\ refund_of' = refund_of /\ amended' = amended
      /\ corrected' = corrected /\ discount[d].status = "pending"
  BY DEF ReviewDiscount, DiscountStep
<1>2. PICK asked \in DiscountRow : asked = discount[d]
  BY DEF FolioInv, FolioTypeOK
<1>3. PICK status \in {"approved", "rejected"} :
         status = IF approve THEN "approved" ELSE "rejected"
  OBVIOUS
<1>4. PICK decided \in DiscountRow :
         /\ decided = [[asked EXCEPT !.status = status] EXCEPT !.by = None]
         /\ decided.status = status /\ decided.stay = asked.stay
         /\ decided.amount = asked.amount
  <2>1. PICK half \in DiscountRow : half = [asked EXCEPT !.status = status]
    BY DEF DiscountRow
  <2>2. PICK decided \in DiscountRow : decided = [half EXCEPT !.by = None]
    BY DEF DiscountRow
  <2> QED BY <2>1, <2>2 DEF DiscountRow
<1>5. /\ discount'[d] = decided /\ discount' \in [Discounts -> DiscountRow]
      /\ \A o \in Discounts \ {d} : discount'[o] = discount[o]
  <2>1. discount' = [discount EXCEPT ![d] = decided]
    BY <1>2, <1>3, <1>4 DEF ReviewDiscount, FolioInv, FolioTypeOK
  <2> QED BY <2>1 DEF FolioInv, FolioTypeOK
<1>6. PICK s \in Stays : s = asked.stay /\ stay[s].status # "none"
  BY <1>1, <1>2 DEF FolioInv, RowsRefer, DiscountRow
<1>7. folios' = folios \/ folios' = folios \cup {s}
  BY <1>2, <1>6 DEF ReviewDiscount, NoPosting, PostToFolio, Opens
<1>8. CausesStay /\ RowsTyped'
  <2>1. RowsTyped'
    BY <1>1, <1>5, <1>7 DEF FolioInv, FolioTypeOK, RowsTyped, IsAmendmentHistory
  <2>2. corrected \in Nat
    BY FolioConstants DEF FolioInv, FolioTypeOK
  <2> QED BY <1>1, <1>5, <1>7, <2>1, <2>2 DEF CausesStay
<1>9. RowsRefer'
  <2>1. \A t \in Stays : t \in folios' => stay'[t].status # "none"
    BY <1>1, <1>6, <1>7 DEF FolioInv, RowsRefer
  <2>2. \A t \in Stays : IF invoice'[t].raised THEN t \in folios' ELSE invoice'[t].paid = 0
    BY <1>1, <1>7 DEF FolioInv, RowsRefer
  <2>3. discount'[d].stay = s
    BY <1>4, <1>5, <1>6
  <2> QED BY <1>1, <1>5, <1>6, <2>1, <2>2, <2>3, FolioConstants DEF FolioInv, RowsRefer
<1>10. CASE approve
  <2>1. PICK e : e = Entry(s, "reservation-discount", d, "credit_note", -asked.amount)
    OBVIOUS
  <2>2. PostToFolio(s, {e})
    BY <1>2, <1>6, <1>10, <2>1 DEF ReviewDiscount
  <2>3. /\ e.stay = s /\ ~IsLine(e) /\ ~IsOwn(e) /\ e.type \notin {"payment", "refund"}
    BY <2>1 DEF Entry, IsLine, LineKinds, IsOwn, OtherKeys
  <2>4. IsEntry(e)
    <3>1. asked.amount \in Nat /\ e.amount # 0 /\ e.amount = -asked.amount
      BY <2>1, <2>2 DEF DiscountRow, PostToFolio, Post, Entry
    <3> QED BY <2>1, <3>1 DEF IsEntry, Entry, EntryTypes
  <2>5. e = DiscountEntry(d)' /\ discount'[d].status = "approved"
    BY <1>3, <1>4, <1>5, <1>6, <1>10, <2>1 DEF DiscountEntry
  <2>6. Caused(e)'
    <3>1. s \in folios'
      BY <2>2 DEF PostToFolio, Opens
    <3> QED BY <2>3, <2>4, <2>5, <3>1 DEF Caused, DiscountPosted
  <2>7. /\ FolioTypeOK' /\ EntriesOK'
        /\ entries \subseteq entries' /\ e \in entries'
        /\ \A t \in Stays : PriceOK(t)' /\ FeeOK(t)'
        /\ \A t \in Stays : MoneyOn(t)' = MoneyOn(t) \cup {f \in {e} :
                              f.stay = t /\ f.type \in {"payment", "refund"}}
    BY <1>1, <1>8, <2>2, <2>3, <2>4, <2>6, PostedBeside
  <2>8. \A t \in Stays : PaidAsPosted(t)'
    <3>1. \A t \in Stays : MoneyOn(t)' = MoneyOn(t)
      BY <2>3, <2>7
    <3> QED BY <1>1, <3>1, PaidKept DEF FolioInv
  <2>9. CausesPosted'
    <3>1. \A o \in Discounts : discount'[o].status = "approved" => DiscountEntry(o)' \in entries'
      BY <1>5, <2>5, <2>7 DEF FolioInv, CausesPosted, DiscountEntry
    <3> QED BY <1>1, <2>7, <3>1 DEF FolioInv, CausesPosted, Keyed, OrderEntry, OrderTotal
  <2> QED BY <1>9, <2>7, <2>8, <2>9 DEF FolioInv
<1>11. CASE ~approve
  <2>1. NoPosting
    BY <1>11 DEF ReviewDiscount
  <2>2. /\ FolioTypeOK' /\ EntriesOK'
        /\ \A t \in Stays : PaidAsPosted(t)' /\ PriceOK(t)' /\ FeeOK(t)'
    BY <1>1, <1>8, <2>1, RowsOnly
  <2>3. CausesPosted'
    <3>1. \A o \in Discounts : discount'[o].status = "approved" => DiscountEntry(o)' \in entries
      <4>1. discount'[d].status # "approved"
        BY <1>3, <1>4, <1>5, <1>11
      <4> QED BY <1>5, <4>1 DEF FolioInv, CausesPosted, DiscountEntry
    <3> QED BY <1>1, <2>1, <3>1 DEF FolioInv, CausesPosted, NoPosting, Keyed, OrderEntry,
                                    OrderTotal
  <2> QED BY <1>9, <2>2, <2>3 DEF FolioInv
<1> QED BY <1>10, <1>11

LEMMA CorrectKeeps ==
    ASSUME FolioInv, NEW s \in Stays, NEW amount \in CorrectionSums, Correct(s, amount)
    PROVE  FolioInv'
<1>1. /\ vat' = vat /\ stay' = stay /\ invoice' = invoice /\ order' = order
      /\ payment_of' = payment_of /\ refund_of' = refund_of /\ amended' = amended
      /\ discount' = discount /\ folios' = folios /\ corrected' = corrected + 1
      /\ opened' = opened
      /\ corrected < Repeats /\ s \in folios
  BY DEF Correct
<1>2. PICK n \in Nat \ {0} : n = corrected + 1
  BY FolioConstants DEF FolioInv, FolioTypeOK
<1>3. PICK e : e = Entry(s, "correction", n, CorrectionType(amount), amount)
  OBVIOUS
<1>4. Post({e})
  BY <1>2, <1>3 DEF Correct
<1>5. CausesStay /\ RowsTyped'
  <2>1. corrected \in Nat /\ corrected' \in 0 .. Repeats /\ corrected <= corrected'
    BY <1>1, FolioConstants DEF FolioInv, FolioTypeOK
  <2> QED BY <1>1, <2>1 DEF CausesStay, FolioInv, FolioTypeOK, RowsTyped, IsAmendmentHistory
<1>6. /\ e.stay = s /\ ~IsLine(e) /\ ~IsOwn(e) /\ e.type \notin {"payment", "refund"}
      /\ IsEntry(e)
  BY <1>3, FolioAssumption DEF Entry, IsLine, LineKinds, IsOwn, OtherKeys, IsEntry, EntryTypes,
                               CorrectionType
<1>7. Caused(e)'
  <2>1. corrected' = n /\ n \in 1 .. n /\ e.amount = amount
    BY <1>1, <1>2, <1>3 DEF Entry
  <2> QED BY <1>1, <1>3, <1>6, <2>1 DEF Caused, CorrectionPosted
<1>8. /\ FolioTypeOK' /\ EntriesOK' /\ entries \subseteq entries'
      /\ \A t \in Stays : FeeOK(t)'
      /\ \A t \in Stays : MoneyOn(t)' = MoneyOn(t) \cup {f \in {e} :
                            f.stay = t /\ f.type \in {"payment", "refund"}}
  BY <1>1, <1>4, <1>5, <1>6, <1>7, PostingAlone
<1>9. \A t \in Stays : PaidAsPosted(t)' /\ PriceOK(t)'
  <2>1. \A t \in Stays : MoneyOn(t)' = MoneyOn(t)
    BY <1>6, <1>8
  <2>2. \A t \in Stays : PriceOK(t)'
    BY <1>1 DEF FolioInv, PriceOK, WasAmended
  <2> QED BY <1>1, <2>1, <2>2, PaidKept DEF FolioInv
<1>10. CausesPosted'
  BY <1>1, <1>8 DEF FolioInv, CausesPosted, Keyed, OrderEntry, OrderTotal, DiscountEntry
<1>11. RowsRefer'
  BY <1>1 DEF FolioInv, RowsRefer
<1> QED BY <1>8, <1>9, <1>10, <1>11 DEF FolioInv

\* A change of an order that posts nothing: it is not completed, or has no stay.
LEMMA OrderKeeps ==
    ASSUME FolioInv, NEW o \in Orders, NEW new \in OrderRow, OrderStep, NoPosting,
           order' = [order EXCEPT ![o] = new], order[o].status # "completed",
           new.status = "completed" => new.stay = None,
           new.stay # None => stay[new.stay].status # "none"
    PROVE  FolioInv'
<1>1. /\ vat' = vat /\ stay' = stay /\ invoice' = invoice /\ discount' = discount
      /\ payment_of' = payment_of /\ refund_of' = refund_of /\ amended' = amended
      /\ corrected' = corrected
  BY DEF OrderStep
<1>2. /\ order'[o] = new /\ order' \in [Orders -> OrderRow]
      /\ \A x \in Orders \ {o} : order'[x] = order[x]
  BY DEF FolioInv, FolioTypeOK
<1>3. CausesStay /\ RowsTyped'
  <2>1. RowsTyped'
    BY <1>1, <1>2 DEF FolioInv, FolioTypeOK, RowsTyped, IsAmendmentHistory, NoPosting
  <2>2. corrected \in Nat
    BY FolioConstants DEF FolioInv, FolioTypeOK
  <2> QED BY <1>1, <1>2, <2>1, <2>2 DEF CausesStay, NoPosting
<1>4. /\ FolioTypeOK' /\ EntriesOK'
      /\ \A t \in Stays : PaidAsPosted(t)' /\ PriceOK(t)' /\ FeeOK(t)'
  BY <1>1, <1>3, RowsOnly
<1>5. CausesPosted'
  <2>1. \A x \in Orders :
           order'[x].status = "completed" /\ order'[x].stay # None => OrderEntry(x)' \in entries
    BY <1>2 DEF FolioInv, CausesPosted, OrderEntry, OrderTotal
  <2> QED BY <1>1, <2>1 DEF FolioInv, CausesPosted, NoPosting, Keyed, DiscountEntry
<1>6. RowsRefer'
  BY <1>1, <1>2 DEF FolioInv, RowsRefer, NoPosting
<1> QED BY <1>4, <1>5, <1>6 DEF FolioInv

LEMMA CreateOrderKeeps ==
    ASSUME FolioInv, NEW o \in Orders, NEW s \in Stays \cup {None}, NEW n \in Nat,
           CreateOrder(o, s, n)
    PROVE  FolioInv'
<1>1. PICK new \in OrderRow : new = [status |-> "pending", stay |-> s, items |-> n]
  BY DEF OrderRow, OrderStates
<1> QED BY <1>1, OrderKeeps DEF CreateOrder

LEMMA ChangeItemsKeeps ==
    ASSUME FolioInv, NEW o \in Orders, NEW n \in Int, ChangeItems(o, n)
    PROVE  FolioInv'
<1>1. PICK old \in OrderRow : old = order[o]
  BY DEF FolioInv, FolioTypeOK
<1>2. PICK items \in Nat : items = old.items + n
  BY <1>1 DEF ChangeItems
<1>3. PICK new \in OrderRow : new = [old EXCEPT !.items = items]
  BY DEF OrderRow
<1>4. order' = [order EXCEPT ![o] = new]
  BY <1>1, <1>2, <1>3 DEF ChangeItems, FolioInv, FolioTypeOK
<1>5. new.status = old.status /\ new.stay = old.stay /\ old.status = "pending"
  BY <1>1, <1>3 DEF OrderRow, ChangeItems
<1>6. old.stay # None => stay[old.stay].status # "none"
  BY <1>1 DEF FolioInv, RowsRefer
<1> QED BY <1>1, <1>4, <1>5, <1>6, OrderKeeps DEF ChangeItems

LEMMA OrderEntersKeeps ==
    ASSUME FolioInv, NEW o \in Orders, NEW from, NEW status \in OrderStates,
           OrderEnters(o, from, status), "completed" \notin from, NoPosting,
           status = "completed" => order[o].stay = None
    PROVE  FolioInv'
<1>1. PICK old \in OrderRow : old = order[o]
  BY DEF FolioInv, FolioTypeOK
<1>2. PICK new \in OrderRow : new = [old EXCEPT !.status = status]
  BY DEF OrderRow
<1>3. order' = [order EXCEPT ![o] = new]
  BY <1>1, <1>2 DEF OrderEnters, FolioInv, FolioTypeOK
<1>4. new.status = status /\ new.stay = old.stay /\ old.status # "completed"
  BY <1>1, <1>2 DEF OrderRow, OrderEnters
<1>5. old.stay # None => stay[old.stay].status # "none"
  BY <1>1 DEF FolioInv, RowsRefer
<1>6. /\ order[o].status # "completed" /\ (new.status = "completed" => new.stay = None)
      /\ new.stay # None => stay[new.stay].status # "none"
  BY <1>1, <1>4, <1>5
<1> QED BY <1>3, <1>6, OrderKeeps DEF OrderEnters

LEMMA CompleteOrderKeeps ==
    ASSUME FolioInv, NEW o \in Orders, CompleteOrder(o)
    PROVE  FolioInv'
<1>1. CASE order[o].stay = None
  BY <1>1, OrderEntersKeeps DEF CompleteOrder, OrderStates
<1>2. CASE order[o].stay # None
  <2>1. /\ vat' = vat /\ stay' = stay /\ invoice' = invoice /\ discount' = discount
        /\ payment_of' = payment_of /\ refund_of' = refund_of /\ amended' = amended
        /\ corrected' = corrected /\ order[o].status = "in_progress" /\ order[o].items > 0
    BY DEF CompleteOrder, OrderEnters, OrderStep
  <2>2. PICK old \in OrderRow : old = order[o]
    BY DEF FolioInv, FolioTypeOK
  <2>3. PICK new \in OrderRow : new = [old EXCEPT !.status = "completed"]
    BY DEF OrderRow, OrderStates
  <2>4. /\ order' = [order EXCEPT ![o] = new] /\ order'[o] = new
        /\ order' \in [Orders -> OrderRow]
        /\ \A x \in Orders \ {o} : order'[x] = order[x]
    BY <2>2, <2>3 DEF CompleteOrder, OrderEnters, FolioInv, FolioTypeOK
  <2>5. new.status = "completed" /\ new.stay = old.stay /\ new.items = old.items
    BY <2>3 DEF OrderRow
  <2>6. PICK s \in Stays : s = old.stay /\ stay[s].status # "none"
    BY <1>2, <2>2 DEF OrderRow, FolioInv, RowsRefer
  <2>7. PICK e : e = Entry(s, "service-order", o, "service", OrderTotal(o))
    OBVIOUS
  <2>8. PostToFolio(s, {e}) /\ folios' = folios \cup {s}
    BY <1>2, <2>2, <2>6, <2>7 DEF CompleteOrder, PostToFolio, Opens
  <2>9. CausesStay /\ RowsTyped'
    <3>1. RowsTyped'
      BY <2>1, <2>4, <2>8 DEF FolioInv, FolioTypeOK, RowsTyped, IsAmendmentHistory
    <3>2. corrected \in Nat
      BY FolioConstants DEF FolioInv, FolioTypeOK
    <3> QED BY <2>1, <2>4, <2>8, <3>1, <3>2 DEF CausesStay
  <2>10. /\ e.stay = s /\ ~IsLine(e) /\ ~IsOwn(e) /\ e.type \notin {"payment", "refund"}
    BY <2>7 DEF Entry, IsLine, LineKinds, IsOwn, OtherKeys
  <2>11. IsEntry(e)
    <3>1. OrderTotal(o) \in Int /\ e.amount # 0 /\ e.amount = OrderTotal(o)
      BY <2>2, <2>7, <2>8, FolioConstants DEF OrderTotal, OrderRow, PostToFolio, Post, Entry
    <3> QED BY <2>7, <3>1 DEF IsEntry, Entry, EntryTypes
  <2>12. e = OrderEntry(o)' /\ order'[o].status = "completed"
    BY <2>2, <2>4, <2>5, <2>6, <2>7 DEF OrderEntry, OrderTotal
  <2>13. Caused(e)'
    BY <2>8, <2>10, <2>11, <2>12 DEF Caused, OrderPosted
  <2>14. /\ FolioTypeOK' /\ EntriesOK'
         /\ entries \subseteq entries' /\ e \in entries'
         /\ \A t \in Stays : PriceOK(t)' /\ FeeOK(t)'
         /\ \A t \in Stays : MoneyOn(t)' = MoneyOn(t) \cup {f \in {e} :
                               f.stay = t /\ f.type \in {"payment", "refund"}}
    BY <2>1, <2>8, <2>9, <2>10, <2>11, <2>13, PostedBeside
  <2>15. \A t \in Stays : PaidAsPosted(t)'
    <3>1. \A t \in Stays : MoneyOn(t)' = MoneyOn(t)
      BY <2>10, <2>14
    <3> QED BY <2>1, <3>1, PaidKept DEF FolioInv
  <2>16. CausesPosted'
    <3>1. \A x \in Orders :
             order'[x].status = "completed" /\ order'[x].stay # None =>
                OrderEntry(x)' \in entries'
      BY <2>4, <2>12, <2>14 DEF FolioInv, CausesPosted, OrderEntry, OrderTotal
    <3> QED BY <2>1, <2>14, <3>1 DEF FolioInv, CausesPosted, Keyed, DiscountEntry
  <2>17. RowsRefer'
    <3>1. \A t \in Stays : t \in folios' => stay'[t].status # "none"
      BY <2>1, <2>6, <2>8 DEF FolioInv, RowsRefer
    <3>2. \A t \in Stays : IF invoice'[t].raised THEN t \in folios' ELSE invoice'[t].paid = 0
      BY <2>1, <2>8 DEF FolioInv, RowsRefer
    <3>3. \A x \in Orders : order'[x].stay = order[x].stay
      BY <2>2, <2>4, <2>5
    <3> QED BY <2>1, <3>1, <3>2, <3>3 DEF FolioInv, RowsRefer
  <2> QED BY <2>14, <2>15, <2>16, <2>17 DEF FolioInv
<1> QED BY <1>1, <1>2

-----------------------------------------------------------------------------
(* Money *)

LEMMA PayKeeps ==
    ASSUME FolioInv, NEW u \in Staff, NEW p \in PaymentIds, NEW s \in Stays, NEW amount \in Sums,
           Pay(u, p, s, amount)
    PROVE  FolioInv'
<1>1. /\ vat' = vat /\ stay' = stay /\ order' = order /\ discount' = discount
      /\ refund_of' = refund_of /\ amended' = amended /\ corrected' = corrected
      /\ payment_of[p].stay = None /\ invoice[s].raised
  BY DEF Pay, MoneyStep
<1>2. amount \in Nat /\ amount # 0
  BY FolioAssumption
<1>3. /\ payment_of' = [payment_of EXCEPT ![p] = [stay |-> s, amount |-> amount]]
      /\ payment_of'[p] = [stay |-> s, amount |-> amount]
      /\ payment_of' \in [PaymentIds -> [stay : Stays \cup {None}, amount : Nat]]
      /\ \A x \in PaymentIds \ {p} : payment_of'[x] = payment_of[x]
  BY <1>2 DEF Pay, FolioInv, FolioTypeOK
<1>4. PICK old \in InvoiceRow : old = invoice[s]
  BY DEF FolioInv, FolioTypeOK
<1>5. PICK sum \in Int : sum = old.paid + amount
  BY <1>2 DEF InvoiceRow
<1>6. PICK new \in InvoiceRow : new = [old EXCEPT !.paid = sum]
  BY DEF InvoiceRow
<1>7. /\ invoice' = [invoice EXCEPT ![s] = new] /\ invoice'[s] = new
      /\ invoice' \in [Stays -> InvoiceRow]
      /\ \A t \in Stays \ {s} : invoice'[t] = invoice[t]
  BY <1>4, <1>5, <1>6 DEF Pay, FolioInv, FolioTypeOK
<1>8. new.raised /\ new.paid = invoice[s].paid + amount /\ invoice[s].paid \in Int
  BY <1>1, <1>4, <1>5, <1>6 DEF InvoiceRow
<1>9. PICK e : e = Entry(s, "payment", p, "payment", -amount)
  OBVIOUS
<1>10. PostToFolio(s, {e}) /\ folios' = folios \cup {s}
  BY <1>9 DEF Pay, PostToFolio, Opens
<1>11. CausesStay /\ RowsTyped'
  <2>1. RowsTyped'
    BY <1>1, <1>3, <1>7, <1>10 DEF FolioInv, FolioTypeOK, RowsTyped, IsAmendmentHistory
  <2>2. corrected \in Nat
    BY FolioConstants DEF FolioInv, FolioTypeOK
  <2> QED BY <1>1, <1>3, <1>10, <2>1, <2>2 DEF CausesStay
<1>12. /\ e.stay = s /\ ~IsLine(e) /\ ~IsOwn(e) /\ e.type = "payment" /\ IsEntry(e)
       /\ e.amount = -amount
  BY <1>2, <1>9 DEF Entry, IsLine, LineKinds, IsOwn, OtherKeys, IsEntry, EntryTypes
<1>13. Caused(e)'
  <2>1. PaymentPosted(e)'
    BY <1>3, <1>9, FolioConstants DEF PaymentPosted
  <2> QED BY <1>10, <1>12, <2>1 DEF Caused
<1>14. /\ FolioTypeOK' /\ EntriesOK'
       /\ entries \subseteq entries' /\ ~Keyed(e.key)
       /\ \A t \in Stays : PriceOK(t)' /\ FeeOK(t)'
       /\ \A t \in Stays : MoneyOn(t)' = MoneyOn(t) \cup {f \in {e} :
                             f.stay = t /\ f.type \in {"payment", "refund"}}
  BY <1>1, <1>10, <1>11, <1>12, <1>13, PostedBeside
<1>15. \A t \in Stays : PaidAsPosted(t)'
  <2>1. PaidAsPosted(s)'
    <3>1. MoneyOn(s)' = MoneyOn(s) \cup {e} /\ e \notin MoneyOn(s)
      BY <1>12, <1>14 DEF MoneyOn, Keyed
    <3>2. invoice'[s].paid = invoice[s].paid - e.amount /\ e.amount \in Int
      BY <1>2, <1>7, <1>8, <1>12
    <3> QED BY <3>1, <3>2, PaidMore DEF FolioInv
  <2>2. \A t \in Stays \ {s} : MoneyOn(t)' = MoneyOn(t)
    BY <1>12, <1>14
  <2>3. \A t \in Stays \ {s} : PaidAsPosted(t)'
    BY <1>7, <2>2, PaidKept DEF FolioInv
  <2> QED BY <2>1, <2>3
<1>16. CausesPosted'
  BY <1>1, <1>14 DEF FolioInv, CausesPosted, Keyed, OrderEntry, OrderTotal, DiscountEntry
<1>17. RowsRefer'
  <2>1. s \in folios
    BY <1>1 DEF FolioInv, RowsRefer
  <2>2. \A t \in Stays : t \in folios' => stay'[t].status # "none"
    BY <1>1, <1>10, <2>1 DEF FolioInv, RowsRefer
  <2>3. \A t \in Stays : IF invoice'[t].raised THEN t \in folios' ELSE invoice'[t].paid = 0
    BY <1>7, <1>8, <1>10 DEF FolioInv, RowsRefer
  <2>4. \A x \in PaymentIds :
           payment_of'[x].stay # None => invoice'[payment_of'[x].stay].raised
    <3>1. \A t \in Stays : invoice[t].raised => invoice'[t].raised
      BY <1>7, <1>8
    <3>2. \A x \in PaymentIds \ {p} : payment_of[x].stay # None => payment_of[x].stay \in Stays
      BY DEF FolioInv, FolioTypeOK
    <3> QED BY <1>3, <1>7, <1>8, <3>1, <3>2 DEF FolioInv, RowsRefer
  <2> QED BY <1>1, <2>2, <2>3, <2>4 DEF FolioInv, RowsRefer
<1> QED BY <1>14, <1>15, <1>16, <1>17 DEF FolioInv

LEMMA RefundKeeps ==
    ASSUME FolioInv, NEW u \in Staff, NEW f \in RefundIds, NEW p \in PaymentIds,
           NEW amount \in Sums, Refund(u, f, p, amount)
    PROVE  FolioInv'
<1>1. /\ vat' = vat /\ stay' = stay /\ order' = order /\ discount' = discount
      /\ payment_of' = payment_of /\ amended' = amended /\ corrected' = corrected
      /\ folios' = folios /\ payment_of[p].stay # None /\ refund_of[f].payment = None
      /\ opened' = opened
  BY DEF Refund, MoneyStep
<1>2. amount \in Nat /\ amount # 0
  BY FolioAssumption
<1>3. /\ refund_of' = [refund_of EXCEPT ![f] = [payment |-> p, amount |-> amount]]
      /\ refund_of'[f] = [payment |-> p, amount |-> amount]
      /\ refund_of' \in [RefundIds -> [payment : PaymentIds \cup {None}, amount : Nat]]
      /\ \A x \in RefundIds \ {f} : refund_of'[x] = refund_of[x]
  BY <1>2 DEF Refund, FolioInv, FolioTypeOK
<1>4. PICK s \in Stays : s = payment_of[p].stay /\ invoice[s].raised /\ s \in folios
  BY <1>1 DEF FolioInv, FolioTypeOK, RowsRefer
<1>5. PICK old \in InvoiceRow : old = invoice[s]
  BY DEF FolioInv, FolioTypeOK
<1>6. PICK sum \in Int : sum = old.paid - amount
  BY <1>2 DEF InvoiceRow
<1>7. PICK new \in InvoiceRow : new = [old EXCEPT !.paid = sum]
  BY DEF InvoiceRow
<1>8. /\ invoice' = [invoice EXCEPT ![s] = new] /\ invoice'[s] = new
      /\ invoice' \in [Stays -> InvoiceRow]
      /\ \A t \in Stays \ {s} : invoice'[t] = invoice[t]
  BY <1>4, <1>5, <1>6, <1>7 DEF Refund, FolioInv, FolioTypeOK
<1>9. new.raised /\ new.paid = invoice[s].paid - amount /\ invoice[s].paid \in Int
  BY <1>4, <1>5, <1>6, <1>7 DEF InvoiceRow
<1>10. PICK e : e = Entry(s, "refund", f, "refund", amount)
  OBVIOUS
<1>11. Post({e})
  BY <1>4, <1>10 DEF Refund
<1>12. CausesStay /\ RowsTyped'
  <2>1. RowsTyped'
    BY <1>1, <1>3, <1>8 DEF FolioInv, FolioTypeOK, RowsTyped, IsAmendmentHistory
  <2>2. corrected \in Nat
    BY FolioConstants DEF FolioInv, FolioTypeOK
  <2> QED BY <1>1, <1>3, <2>1, <2>2 DEF CausesStay
<1>13. /\ e.stay = s /\ ~IsLine(e) /\ ~IsOwn(e) /\ e.type = "refund" /\ IsEntry(e)
       /\ e.amount = amount
  BY <1>2, <1>10 DEF Entry, IsLine, LineKinds, IsOwn, OtherKeys, IsEntry, EntryTypes
<1>14. Caused(e)'
  <2>1. RefundPosted(e)'
    BY <1>1, <1>3, <1>4, <1>10, FolioConstants DEF RefundPosted
  <2> QED BY <1>1, <1>4, <1>13, <2>1 DEF Caused
<1>15. /\ FolioTypeOK' /\ EntriesOK'
       /\ entries' = entries \cup {e} /\ e \notin entries
       /\ \A t \in Stays : FeeOK(t)'
       /\ \A t \in Stays : MoneyOn(t)' = MoneyOn(t) \cup {g \in {e} :
                             g.stay = t /\ g.type \in {"payment", "refund"}}
  BY <1>1, <1>11, <1>12, <1>13, <1>14, PostingAlone
<1>16. \A t \in Stays : PriceOK(t)'
  BY <1>1 DEF FolioInv, PriceOK, WasAmended
<1>17. \A t \in Stays : PaidAsPosted(t)'
  <2>1. PaidAsPosted(s)'
    <3>1. MoneyOn(s)' = MoneyOn(s) \cup {e} /\ e \notin MoneyOn(s)
      BY <1>13, <1>15 DEF MoneyOn
    <3>2. invoice'[s].paid = invoice[s].paid - e.amount /\ e.amount \in Int
      BY <1>2, <1>8, <1>9, <1>13
    <3> QED BY <3>1, <3>2, PaidMore DEF FolioInv
  <2>2. \A t \in Stays \ {s} : MoneyOn(t)' = MoneyOn(t)
    BY <1>13, <1>15
  <2>3. \A t \in Stays \ {s} : PaidAsPosted(t)'
    BY <1>8, <2>2, PaidKept DEF FolioInv
  <2> QED BY <2>1, <2>3
<1>18. CausesPosted'
  BY <1>1, <1>15 DEF FolioInv, CausesPosted, Keyed, OrderEntry, OrderTotal, DiscountEntry
<1>19. RowsRefer'
  <2>1. \A t \in Stays : invoice[t].raised => invoice'[t].raised
    BY <1>8, <1>9
  <2>2. \A t \in Stays :
           /\ t \in folios' => stay'[t].status # "none"
           /\ IF invoice'[t].raised THEN t \in folios' ELSE invoice'[t].paid = 0
    BY <1>1, <1>4, <1>8, <1>9 DEF FolioInv, RowsRefer
  <2> QED BY <1>1, <2>1, <2>2, RefersKept DEF FolioInv
<1> QED BY <1>15, <1>16, <1>17, <1>18, <1>19 DEF FolioInv

-----------------------------------------------------------------------------
(* What holds of the folios *)

LEMMA FolioStarts == FolioInit => FolioInv
<1> SUFFICES ASSUME FolioInit PROVE FolioInv
  OBVIOUS
<1>1. NoStay \in StayRow
  BY DEF NoStay, StayRow, StayStates
<1>2. FolioTypeOK
  <2>1. vat \in VatRates /\ corrected \in 0 .. Repeats /\ IsAmendmentHistory(amended)
    BY FolioAssumption DEF FolioInit, IsAmendmentHistory
  <2>2. stay \in [Stays -> StayRow] /\ invoice \in [Stays -> InvoiceRow]
    BY <1>1 DEF FolioInit, InvoiceRow
  <2>3. order \in [Orders -> OrderRow] /\ discount \in [Discounts -> DiscountRow]
    BY DEF FolioInit, OrderRow, OrderStates, DiscountRow
  <2>4. opened \in [Stays -> PriceRow]
    BY DEF FolioInit, PricesOf, NoStay, PriceRow
  <2> QED BY <2>1, <2>2, <2>3, <2>4 DEF FolioInit, FolioTypeOK
<1>3. EntriesOK
  BY FS_EmptySet DEF FolioInit, EntriesOK, FolioRows
<1>4. CausesPosted /\ RowsRefer
  BY DEF FolioInit, CausesPosted, RowsRefer, NoStay
<1>5. ASSUME NEW s \in Stays PROVE PaidAsPosted(s) /\ PriceOK(s) /\ FeeOK(s)
  <2>1. MoneyOn(s) = {}
    BY DEF FolioInit, MoneyOn
  <2>2. PaidAsPosted(s)
    BY <2>1, SumOfNothing DEF FolioInit, PaidAsPosted
  <2>3. PriceOK(s) /\ FeeOK(s)
    BY DEF FolioInit, NoStay, PriceOK, FeeOK
  <2> QED BY <2>2, <2>3
<1> QED BY <1>2, <1>3, <1>4, <1>5 DEF FolioInv

LEMMA FolioStep == FolioInv /\ [FolioNext]_folioVars => FolioInv'
<1> SUFFICES ASSUME FolioInv, [FolioNext]_folioVars PROVE FolioInv'
  OBVIOUS
<1>1. CASE UNCHANGED folioVars
  <2>1. /\ vat' = vat /\ stay' = stay /\ invoice' = invoice /\ folios' = folios
        /\ entries' = entries /\ journal' = journal /\ order' = order /\ discount' = discount
        /\ payment_of' = payment_of /\ refund_of' = refund_of /\ amended' = amended
        /\ corrected' = corrected /\ opened' = opened
    BY <1>1 DEF folioVars
  <2>2. CausesStay /\ RowsTyped' /\ NoPosting
    <3>1. corrected \in Nat
      BY FolioConstants DEF FolioInv, FolioTypeOK
    <3> QED BY <2>1, <3>1 DEF FolioInv, FolioTypeOK, CausesStay, RowsTyped, NoPosting,
                              IsAmendmentHistory
  <2>3. /\ FolioTypeOK' /\ EntriesOK'
        /\ \A s \in Stays : PaidAsPosted(s)' /\ PriceOK(s)' /\ FeeOK(s)'
    BY <2>1, <2>2, RowsOnly
  <2>4. CausesPosted' /\ RowsRefer'
    BY <2>1 DEF FolioInv, CausesPosted, RowsRefer, Keyed, OrderEntry, OrderTotal,
                DiscountEntry
  <2> QED BY <2>3, <2>4 DEF FolioInv
<1>2. ASSUME NEW u \in Staff, PortalVat(u) PROVE FolioInv'
  BY <1>2, SetVatKeeps DEF PortalVat
<1>3. ASSUME NEW u \in Staff, PortalCommercial(u) PROVE FolioInv'
  BY <1>3, RequestDiscountKeeps, ReviewDiscountKeeps DEF PortalCommercial
<1>4. ASSUME NEW s \in Stays, NEW u \in Staff,
             PortalReservations(u, s) \/ BookingQuoteViewSet(u, s)
      PROVE  FolioInv'
  <2>1. PICK n \in Nights, promo \in Nat, extra \in Nat :
           Book(s, Quoted(n, promo, extra)) \/ Book(s, Walkin(n))
    <3>1. CASE PortalReservations(u, s)
      BY <3>1 DEF PortalReservations
    <3>2. CASE BookingQuoteViewSet(u, s)
      BY <3>2, FolioConstants DEF BookingQuoteViewSet
    <3> QED BY <1>4, <3>1, <3>2
  <2>2. PICK quoted, walkin : quoted = Quoted(n, promo, extra) /\ walkin = Walkin(n)
    OBVIOUS
  <2>3. NewPrice(quoted) /\ NewPrice(walkin)
    BY <2>2, QuotedPrice, FolioConstants DEF FolioInv, FolioTypeOK
  <2> QED BY <2>1, <2>2, <2>3, BookKeeps
<1>5. ASSUME NEW s \in Stays, NEW u \in Staff, PortalReservationAction(u, s)
      PROVE  FolioInv'
  <2>1. CASE Confirm(s)
    BY <2>1, ConfirmStayKeeps
  <2>2. CASE CheckIn(s)
    BY <2>2, EntersKeeps DEF CheckIn, ActiveStay, StayStates
  <2>3. CASE Leave(s)
    BY <2>3, EntersKeeps DEF Leave, ActiveStay, StayStates
  <2>4. CASE \E percent \in FeePercents : Cancel(s, percent)
    BY <2>4, CancelKeeps
  <2> QED BY <1>5, <2>1, <2>2, <2>3, <2>4 DEF PortalReservationAction
<1>6. ASSUME NEW s \in Stays, NEW u \in Staff, PortalReservationManage(u, s)
      PROVE  FolioInv'
  BY <1>6, AmendKeeps DEF PortalReservationManage
<1>7. ASSUME NEW s \in Stays, NEW u \in Staff, PortalBilling(u, s) PROVE FolioInv'
  BY <1>7, CorrectKeeps DEF PortalBilling
<1>8. ASSUME NEW o \in Orders, NEW u \in Staff,
             PortalServices(u, o) \/ ServiceOrderViewSet(u, o) \/ PortalServiceAction(u, o)
      PROVE  FolioInv'
  <2>1. CASE PortalServices(u, o)
    BY <2>1, CreateOrderKeeps DEF PortalServices
  <2>2. CASE ServiceOrderViewSet(u, o)
    BY <2>2, CreateOrderKeeps, ChangeItemsKeeps DEF ServiceOrderViewSet
  <2>3. CASE PortalServiceAction(u, o)
    BY <2>3, OrderEntersKeeps, CompleteOrderKeeps DEF PortalServiceAction, OrderStates
  <2> QED BY <1>8, <2>1, <2>2, <2>3
<1>9. ASSUME NEW u \in Staff, NEW s \in Stays, NEW p \in PaymentIds, NEW amount \in Sums,
             Pay(u, p, s, amount)
      PROVE  FolioInv'
  BY <1>9, PayKeeps
<1>10. ASSUME NEW u \in Staff, NEW f \in RefundIds, NEW p \in PaymentIds, NEW amount \in Sums,
              Refund(u, f, p, amount)
       PROVE  FolioInv'
  BY <1>10, RefundKeeps
<1> QED BY <1>1, <1>2, <1>3, <1>4, <1>5, <1>6, <1>7, <1>8, <1>9, <1>10 DEF FolioNext

LEMMA FolioInvariance == FolioSpec => []FolioInv
  BY FolioStarts, FolioStep, PTL DEF FolioSpec

LEMMA FoliosJournaled == ASSUME FolioInv PROVE EachEntryJournaled
<1>1. \A e \in entries : KeyForm(e)
  BY CausedForm DEF FolioInv, EntriesOK
<1>2. \A e, f \in entries : JournalKey(e) = JournalKey(f) => e = f
  BY <1>1, JournalKeysDiffer DEF FolioInv, EntriesOK
<1> QED BY <1>2 DEF FolioInv, EntriesOK, EachEntryJournaled, FolioRows, FolioKinds

\* Every folio entry has a journal entry of its own, and nothing else in the journal stands
\* for one: apps/billing/services.py posts both in one transaction, under keys that are as
\* unique as those of the entries.
THEOREM JournalRepeatsFolios == FolioSpec => []EachEntryJournaled
  BY FoliosJournaled, FolioInvariance, PTL

\* A posting under the key of an order, a discount or a reversal stands for it.
LEMMA KeysExplain ==
    ASSUME FolioInv, NEW e \in entries
    PROVE  /\ \A o : e.key = <<"service-order", o>> =>
                 o \in Orders /\ order[o].status = "completed" /\ e = OrderEntry(o)
           /\ \A d : e.key = <<"reservation-discount", d>> =>
                 d \in Discounts /\ discount[d].status = "approved" /\ e = DiscountEntry(d)
           /\ \A s : e.key = <<"cancellation-reversal", s>> =>
                 s = e.stay /\ stay[s].status = "cancelled" /\ stay[s].total > 0
<1>1. Caused(e)
  BY DEF FolioInv, EntriesOK
<1>2. CASE OrderPosted(e)
  BY <1>2 DEF OrderPosted, OrderEntry, Entry
<1>3. CASE DiscountPosted(e)
  BY <1>3 DEF DiscountPosted, DiscountEntry, Entry
<1>4. CASE CancelPosted(e)
  BY <1>4 DEF CancelPosted, Entry
<1>5. CASE PricePosted(e)
  BY <1>5 DEF PricePosted, Entry
<1>6. CASE AmendmentPosted(e) \/ CorrectionPosted(e) \/ PaymentPosted(e) \/ RefundPosted(e)
  <2>1. e.key[1] \in {"reservation-amendment", "correction", "payment", "refund"}
    BY <1>6 DEF AmendmentPosted, CorrectionPosted, PaymentPosted, RefundPosted, Entry
  <2> QED BY <2>1
<1> QED BY <1>1, <1>2, <1>3, <1>4, <1>5, <1>6 DEF Caused

LEMMA FoliosExplained == ASSUME FolioInv PROVE FolioExplained
<1>1. ASSUME NEW o \in Orders
      PROVE  {e \in entries : e.key = <<"service-order", o>>}
             = IF order[o].status = "completed" /\ order[o].stay # None
               THEN {Entry(order[o].stay, "service-order", o, "service", OrderTotal(o))}
               ELSE {}
  <2>1. \A e \in entries : e.key = <<"service-order", o>> =>
           /\ order[o].status = "completed" /\ e = OrderEntry(o)
           /\ order[o].stay # None
    <3> SUFFICES ASSUME NEW e \in entries, e.key = <<"service-order", o>>
                 PROVE  /\ order[o].status = "completed" /\ e = OrderEntry(o)
                        /\ order[o].stay # None
      OBVIOUS
    <3>1. order[o].status = "completed" /\ e = OrderEntry(o)
      BY KeysExplain
    <3>2. e.stay \in Stays
      BY DEF FolioInv, FolioTypeOK, IsEntry
    <3> QED BY <3>1, <3>2, FolioConstants DEF OrderEntry, Entry
  <2>2. order[o].status = "completed" /\ order[o].stay # None =>
           OrderEntry(o) \in entries /\ OrderEntry(o).key = <<"service-order", o>>
    BY DEF FolioInv, CausesPosted, OrderEntry, Entry
  <2>3. OrderEntry(o) = Entry(order[o].stay, "service-order", o, "service", OrderTotal(o))
    BY DEF OrderEntry
  <2> HIDE DEF OrderEntry
  <2> QED BY <2>1, <2>2, <2>3
<1>2. ASSUME NEW d \in Discounts
      PROVE  {e \in entries : e.key = <<"reservation-discount", d>>}
             = IF discount[d].status = "approved"
               THEN {Entry(discount[d].stay, "reservation-discount", d, "credit_note",
                           -discount[d].amount)} ELSE {}
  <2>1. \A e \in entries : e.key = <<"reservation-discount", d>> =>
           discount[d].status = "approved" /\ e = DiscountEntry(d)
    BY KeysExplain
  <2>2. discount[d].status = "approved" =>
           DiscountEntry(d) \in entries /\ DiscountEntry(d).key = <<"reservation-discount", d>>
    BY DEF FolioInv, CausesPosted, DiscountEntry, Entry
  <2>3. DiscountEntry(d) = Entry(discount[d].stay, "reservation-discount", d, "credit_note",
                                 -discount[d].amount)
    BY DEF DiscountEntry
  <2> HIDE DEF DiscountEntry
  <2> QED BY <2>1, <2>2, <2>3
<1>3. ASSUME NEW s \in Stays
      PROVE  (stay[s].status = "cancelled" /\ stay[s].total > 0)
             <=> Keyed(<<"cancellation-reversal", s>>)
  BY KeysExplain DEF FolioInv, CausesPosted, Keyed
<1>4. ASSUME NEW s \in Stays
      PROVE  invoice[s].paid = -SumOf({e \in entries : e.stay = s
                                                     /\ e.type \in {"payment", "refund"}})
  BY DEF FolioInv, PaidAsPosted, MoneyOn
<1> QED BY <1>1, <1>2, <1>3, <1>4 DEF FolioExplained

\* What a folio says has happened, and what an invoice says is paid is what the payments and
\* refunds on the folio come to: complete_service_order, review_reservation_discount,
\* cancel_reservation, record_payment and refund_payment post exactly what they decide.
THEOREM PostingsExplained == FolioSpec => []FolioExplained
  BY FoliosExplained, FolioInvariance, PTL

LEMMA FoliosOweFee == ASSUME FolioInv PROVE CancellationLeavesFee
<1> SUFFICES ASSUME NEW s \in Stays, stay[s].status = "cancelled"
             PROVE  /\ (\A n \in DOMAIN amended : amended[n] # s) => LateLines(s) = {}
                    /\ PriceBalance(s) = stay[s].fee + SumOf(LateLines(s))
  BY DEF CancellationLeavesFee
<1>1. PriceBalance(s) = SumOf(OwnOn(s))
  BY DEF PriceBalance, OwnOn, IsOwn, OtherKeys
<1>2. CASE s \in folios
  BY <1>1, <1>2 DEF FolioInv, FeeOK, Owed, WasAmended
<1>3. CASE s \notin folios
  <2>1. OwnOn(s) = {} /\ LateLines(s) = {}
    BY <1>3 DEF FolioInv, EntriesOK, Caused, OwnOn, LateLines
  <2>2. stay[s].fee = 0
    BY <1>3 DEF FolioInv, FeeOK
  <2> QED BY <1>1, <2>1, <2>2, SumOfNothing
<1> QED BY <1>2, <1>3

\* cancel_reservation: the reversal takes back what the price and its amendments have come
\* to, whatever was posted before, so that the folio of a cancelled stay comes to the fee;
\* if the stay was amended, to the fee and the lines that neither the total nor an
\* amendment covers (LateLines), and to nothing else.
THEOREM CancelledOwesFee == FolioSpec => []CancellationLeavesFee
  BY FoliosOweFee, FolioInvariance, PTL

-----------------------------------------------------------------------------
(* The journal that folios and cases share *)

\* The steps of the folios add rows that stand for entries, and no others.
LEMMA FolioAdds == ASSUME FolioNext PROVE OnlyFolioRows
<1>1. CASE NoPosting
  BY <1>1 DEF NoPosting, OnlyFolioRows
<1>2. ASSUME NEW s, NEW new, PostToFolio(s, new) PROVE OnlyFolioRows
  <2>1. PICK all : all = Charges(s) \cup new
    OBVIOUS
  <2> QED BY <1>2, <2>1, PostAdds DEF PostToFolio
<1>3. ASSUME NEW u \in Staff, PortalVat(u) \/ PortalCommercial(u) PROVE OnlyFolioRows
  BY <1>1, <1>2, <1>3 DEF PortalVat, SetVat, PortalCommercial, RequestDiscount, ReviewDiscount
<1>4. ASSUME NEW s \in Stays, NEW u \in Staff,
             PortalReservations(u, s) \/ BookingQuoteViewSet(u, s)
      PROVE  OnlyFolioRows
  BY <1>1, <1>4 DEF PortalReservations, BookingQuoteViewSet, Book
<1>5. ASSUME NEW s \in Stays, NEW u \in Staff, PortalReservationAction(u, s)
      PROVE  OnlyFolioRows
  BY <1>1, <1>2, <1>5 DEF PortalReservationAction, Confirm, CheckIn, Leave, Cancel
<1>6. ASSUME NEW s \in Stays, NEW u \in Staff, PortalReservationManage(u, s)
      PROVE  OnlyFolioRows
  <2>1. PICK new : Post(new)
    BY <1>6 DEF PortalReservationManage, Amend
  <2> QED BY <2>1, PostAdds
<1>7. ASSUME NEW s \in Stays, NEW u \in Staff, PortalBilling(u, s) PROVE OnlyFolioRows
  BY <1>2, <1>7, PostAdds DEF PortalBilling, Correct
<1>8. ASSUME NEW o \in Orders, NEW u \in Staff,
             PortalServices(u, o) \/ ServiceOrderViewSet(u, o) \/ PortalServiceAction(u, o)
      PROVE  OnlyFolioRows
  BY <1>1, <1>2, <1>8 DEF PortalServices, ServiceOrderViewSet, PortalServiceAction, CreateOrder,
                          ChangeItems, OrderEnters, CompleteOrder
<1>9. ASSUME NEW u \in Staff, NEW s \in Stays, NEW p \in PaymentIds, NEW amount \in Sums,
             Pay(u, p, s, amount)
      PROVE  OnlyFolioRows
  BY <1>2, <1>9, PostAdds DEF Pay
<1>10. ASSUME NEW u \in Staff, NEW f \in RefundIds, NEW p \in PaymentIds, NEW amount \in Sums,
              Refund(u, f, p, amount)
       PROVE  OnlyFolioRows
  BY <1>2, <1>10, PostAdds DEF Refund
<1> QED BY <1>3, <1>4, <1>5, <1>6, <1>7, <1>8, <1>9, <1>10 DEF FolioNext

\* Those of the cases add rows for expenditures.
OnlyExpenseRows ==
    journal \subseteq journal' /\ \A j \in journal' \ journal : \E c : j.key = ExpenseKey(c)

LEMMA CaseAdds == ASSUME CaseNext PROVE OnlyExpenseRows
<1>1. CASE UNCHANGED journal
  BY <1>1 DEF OnlyExpenseRows
<1>2. ASSUME NEW c, NEW kind, NEW status, NEW u, OpenCase(c, kind, status, u)
      PROVE  OnlyExpenseRows
  BY <1>1, <1>2 DEF OpenCase
<1>3. ASSUME NEW d, NEW u, NEW c, NEW kind, Decide(d, u, c, kind) PROVE OnlyExpenseRows
  BY <1>1, <1>3 DEF Decide, BeginCase
<1>4. ASSUME NEW d, NEW c, EvaluateAlert(d, c) PROVE OnlyExpenseRows
  BY <1>1, <1>4 DEF EvaluateAlert, BeginCase
<1>5. ASSUME NEW d \in Desks, CommitCase(d) \/ AbortCase(d) PROVE OnlyExpenseRows
  <2>1. CASE AbortCase(d)
    BY <1>1, <2>1 DEF AbortCase
  <2>2. CASE CommitCase(d)
    <3> DEFINE posting == [key |-> ExpenseKey(desk[d].case), lines |-> ExpenseLines]
    <3>1. UNCHANGED journal \/ PostJournal({posting})
      BY <2>2 DEF CommitCase, ExpenseKey
    <3>2. posting.key = ExpenseKey(desk[d].case)
      OBVIOUS
    <3> HIDE DEF posting
    <3>3. ASSUME PostJournal({posting}) PROVE OnlyExpenseRows
      BY <3>2, <3>3 DEF PostJournal, OnlyExpenseRows
    <3> QED BY <1>1, <3>1, <3>3
  <2> QED BY <1>5, <2>1, <2>2
<1>6. ASSUME NEW c \in Cases, CreateInquiry(c) \/ DetectAlert(c) PROVE OnlyExpenseRows
  BY <1>2, <1>6 DEF CreateInquiry, DetectAlert
<1>7. ASSUME NEW c \in Cases, NEW u \in Staff, FileRequest(u, c) \/ PortalOperations(u, c)
      PROVE  OnlyExpenseRows
  BY <1>2, <1>7 DEF FileRequest, PortalOperations
<1>8. ASSUME NEW c \in Cases, NEW u \in Staff, NEW d \in Desks,
             \/ PortalIncidentAction(d, u, c) \/ PortalLostFoundAction(d, u, c)
             \/ PortalInquiryDetail(d, u, c) \/ PortalManagement(d, u, c)
             \/ PortalManagementQuery(d, u, c) \/ PrivacyDesk(d, u, c)
             \/ PortalExpenditures(d, u, c) \/ PortalFinancialAudit(d, u, c)
      PROVE  OnlyExpenseRows
  <2>1. CASE ReplyInquiry(u, c)
    BY <1>1, <2>1 DEF ReplyInquiry
  <2> QED BY <1>2, <1>3, <1>8, <2>1
          DEF PortalIncidentAction, PortalLostFoundAction, PortalInquiryDetail, PortalManagement,
              PortalManagementQuery, PrivacyDesk, PortalExpenditures, PortalFinancialAudit
<1> QED BY <1>4, <1>5, <1>6, <1>7, <1>8 DEF CaseNext

\* So neither disturbs what holds of the other.
LEMMA CasesLeftAlone ==
    ASSUME CaseInv, FolioTypeOK', OnlyFolioRows, UNCHANGED <<case, history, desk>>
    PROVE  CaseInv'
<1>1. \A j \in journal' : IsJournalEntry(j)
  BY DEF FolioTypeOK
<1>2. ASSUME NEW c \in Cases PROVE Posted(ExpenseKey(c))' <=> Posted(ExpenseKey(c))
  <2>1. ExpenseKey(c)[1] \notin FolioKinds
    BY DEF ExpenseKey, FolioKinds
  <2> QED BY <2>1 DEF OnlyFolioRows, Posted
<1>3. ASSUME NEW c \in Cases PROVE CaseExplained(c)' <=> CaseExplained(c)
  BY <1>2 DEF CaseExplained
<1>4. ASSUME NEW d \in Desks PROVE CasePending(d)' <=> CasePending(d)
  BY DEF CasePending
<1>5. CaseRowsOK'
  BY <1>1 DEF CaseInv, CaseRowsOK
<1> QED BY <1>2, <1>3, <1>4, <1>5 DEF CaseInv

LEMMA FoliosLeftAlone ==
    ASSUME FolioInv, CaseRowsOK', OnlyExpenseRows,
           UNCHANGED <<vat, stay, invoice, folios, opened, entries, order, discount, payment_of,
                       refund_of, amended, corrected>>
    PROVE  FolioInv'
<1>1. /\ vat' = vat /\ stay' = stay /\ invoice' = invoice /\ folios' = folios
      /\ entries' = entries /\ order' = order /\ discount' = discount
      /\ payment_of' = payment_of /\ refund_of' = refund_of /\ amended' = amended
      /\ corrected' = corrected /\ opened' = opened
  OBVIOUS
<1>2. FolioTypeOK'
  BY <1>1 DEF FolioInv, FolioTypeOK, CaseRowsOK
<1>3. FolioRows' = FolioRows
  <2>1. \A c : ExpenseKey(c)[1] \notin FolioKinds
    BY DEF ExpenseKey, FolioKinds
  <2> QED BY <2>1 DEF OnlyExpenseRows, FolioRows
<1>4. EntriesOK'
  <2>1. CausesStay
    BY <1>1, FolioConstants DEF FolioInv, FolioTypeOK, CausesStay, IsAmendmentHistory
  <2>2. \A e \in entries : Caused(e)' /\ JournalOf(e)' = JournalOf(e)
    BY <2>1, CauseKept, JournalKept DEF FolioInv, EntriesOK
  <2> QED BY <1>1, <1>3, <2>2 DEF FolioInv, EntriesOK
<1>5. CausesPosted' /\ RowsRefer'
  BY <1>1 DEF FolioInv, CausesPosted, RowsRefer, Keyed, OrderEntry, OrderTotal, DiscountEntry
<1>6. ASSUME NEW s \in Stays PROVE PaidAsPosted(s)' /\ PriceOK(s)' /\ FeeOK(s)'
  <2>1. PaidAsPosted(s) /\ PriceOK(s) /\ FeeOK(s)
    BY DEF FolioInv
  <2>2. PaidAsPosted(s)'
    BY <1>1, <2>1 DEF PaidAsPosted, MoneyOn
  <2>3. PriceOK(s)' /\ (WasAmended(s)' <=> WasAmended(s))
    BY <1>1, <2>1 DEF PriceOK, WasAmended
  <2>4. Charges(s)' = Charges(s) /\ LateLines(s)' = LateLines(s) /\ OwnOn(s)' = OwnOn(s)
        /\ Owed(s)' = Owed(s) /\ OpenedPosted(s)' = OpenedPosted(s)
    BY <1>1 DEF Charges, PriceLines, Keyed, LateLines, OwnOn, Owed, OpenedPosted
  <2>5. FeeOK(s)'
    BY <1>1, <2>1, <2>3, <2>4 DEF FeeOK
  <2> QED BY <2>2, <2>3, <2>5
<1> QED BY <1>2, <1>4, <1>5, <1>6 DEF FolioInv

-----------------------------------------------------------------------------
(* The back office as a whole *)

\* The components that share nothing but the users: a step of the back office is a step of
\* each of them or leaves it alone.
LEMMA BackSteps ==
    [BackNext]_BackVars =>
        /\ [Next]_vars /\ [StockNext]_stockVars /\ [ContactNext]_contactVars
        /\ [AccessNext]_accessVars /\ [AuditNext]_auditVars /\ [GuestNext]_guestVars
        /\ [BooksNext]_booksVars
  BY DEF BackNext, Still, BackVars

LEMMA BackStarts ==
    BackInit => /\ Init /\ StockInit /\ ContactInit /\ AccessInit /\ AuditInit /\ GuestInit
                /\ BooksInit
  BY DEF BackInit

\* So each of them behaves in the back office as it does alone, and keeps what has been
\* proved of it.
THEOREM ComponentsStayTrue ==
    BackSpec => /\ Spec /\ StockSpec /\ ContactSpec /\ AccessSpec /\ AuditSpec /\ GuestSpec
                /\ BooksSpec
  BY BackSteps, BackStarts, PTL
     DEF BackSpec, Spec, StockSpec, ContactSpec, AccessSpec, AuditSpec, GuestSpec, BooksSpec

\* Folios and cases write to one journal, and each finds its own rows in it as it left them.
SharedInv == focus \in Components /\ FolioInv /\ CaseInv

LEMMA FocusKept == ASSUME SharedInv, BackNext PROVE focus' \in Components
  BY DEF SharedInv, BackNext, Still

LEMMA SharedStep == SharedInv /\ [BackNext]_BackVars => SharedInv'
<1> SUFFICES ASSUME SharedInv, [BackNext]_BackVars PROVE SharedInv'
  OBVIOUS
<1>1. CASE UNCHANGED BackVars
  <2>1. [FolioNext]_folioVars /\ [CaseNext]_caseVars /\ focus' = focus
    BY <1>1 DEF BackVars
  <2> QED BY <2>1, FolioStep, CaseStep DEF SharedInv
<1>2. CASE Still("folio") /\ FolioNext
  <2>1. FolioInv'
    BY <1>2, FolioStep DEF SharedInv
  <2>2. CaseInv'
    BY <1>2, <2>1, FolioAdds, CasesLeftAlone DEF Still, SharedInv, FolioInv
  <2> QED BY <1>2, <2>1, <2>2, FocusKept DEF BackNext, SharedInv
<1>3. CASE Still("casework") /\ CaseNext
  <2>1. CaseInv'
    BY <1>3, CaseStep DEF SharedInv
  <2>2. FolioInv'
    BY <1>3, <2>1, CaseAdds, FoliosLeftAlone DEF Still, SharedInv, CaseInv
  <2> QED BY <1>3, <2>1, <2>2, FocusKept DEF BackNext, SharedInv
<1>4. ASSUME NEW component \in Components \ {"folio", "casework"}, Still(component)
      PROVE  SharedInv'
  <2>1. UNCHANGED folioVars /\ UNCHANGED caseVars /\ focus' = focus
    BY <1>4 DEF Still, folioVars, caseVars
  <2> QED BY <2>1, FolioStep, CaseStep DEF SharedInv
<1>5. {"cashier", "stock", "contacts", "access", "audit", "guests", "books"}
      \subseteq Components \ {"folio", "casework"}
  BY DEF Components, Accounting
<1> QED BY <1>1, <1>2, <1>3, <1>4, <1>5 DEF BackNext

THEOREM SharedInvariance == BackSpec => []SharedInv
<1>1. BackInit => SharedInv
  BY FolioStarts, CaseStarts DEF BackInit, SharedInv
<1> QED BY <1>1, SharedStep, PTL DEF BackSpec

\* The rows of every component have the types of their tables (BackTypeOK).
THEOREM BackOfficeTyped == BackSpec => []BackTypeOK
<1>1. ASSUME SharedInv PROVE CaseTypeOK /\ FolioTypeOK /\ focus \in Components
  <2>1. FolioInv => FolioTypeOK
    BY DEF FolioInv
  <2> QED BY <1>1, <2>1, CaseTyped DEF SharedInv
<1>2. ASSUME StockInv PROVE StockTypeOK
  BY <1>2 DEF StockInv, StockTypeOK, ClerkRow, Lockable
<1>3. ContactInv => ContactTypeOK
  BY DEF ContactInv
<1>4. AccessInv => AccessTypeOK
  BY DEF AccessInv
<1>5. AuditInv => AuditTypeOK
  BY DEF AuditInv
<1>6. GuestInv => GuestTypeOK
  BY DEF GuestInv
<1>7. BooksInv => BooksTypeOK
  BY DEF BooksInv
<1>8. IInv => TypeOK
  BY DEF IInv, DrawerInv
<1>9. ASSUME SharedInv, IInv, StockInv, ContactInv, AccessInv, AuditInv, GuestInv, BooksInv
      PROVE  BackTypeOK
  <2>1. focus \in Components /\ TypeOK /\ StockTypeOK /\ FolioTypeOK /\ CaseTypeOK
    BY <1>1, <1>2, <1>8, <1>9
  <2>2. ContactTypeOK /\ AccessTypeOK /\ AuditTypeOK /\ GuestTypeOK /\ BooksTypeOK
    BY <1>3, <1>4, <1>5, <1>6, <1>7, <1>9
  <2> QED BY <2>1, <2>2 DEF BackTypeOK
<1> QED BY <1>9, SharedInvariance, ComponentsStayTrue, Invariance, StockInvariance,
           ContactInvariance, AccessInvariance, AuditInvariance, GuestInvariance,
           BooksInvariance, PTL

\* What the transactions of apps/billing promise, in the whole back office: the journal has
\* an entry for every posting of a folio, whatever the expenditures add to it, each posting
\* has its cause and a cancelled stay owes its fee; and the history of every case explains
\* its status and its expenditure.
THEOREM SharedJournalHolds ==
    BackSpec => [](/\ EachEntryJournaled /\ FolioExplained /\ CancellationLeavesFee
                   /\ HistoryExplainsStatus)
<1>1. SharedInv => /\ EachEntryJournaled /\ FolioExplained /\ CancellationLeavesFee
                   /\ HistoryExplainsStatus
  BY FoliosJournaled, FoliosExplained, FoliosOweFee, CasesOK DEF SharedInv
<1> QED BY <1>1, SharedInvariance, PTL

\* Money and stock, in the whole back office: payments, drawers and shifts agree, and the
\* ledger explains the balances, without transfers that wait in a circle.
THEOREM MoneyAndStockHold ==
    BackSpec => [](/\ PaymentsTrue /\ OneShiftPerTerminal /\ CashMatchesPayments
                   /\ LedgerExplainsBalance /\ NoTransferCycle)
  BY ComponentsStayTrue, PaymentsAddUp, OneDrawer, CashAddsUp, BalancesExplained, TransfersEnd,
     PTL

\* Contacts, sessions, the audit log, accounts and the closing of days, in the whole back
\* office.
THEOREM RecordsHold ==
    BackSpec => [](/\ SyncedAtProvider /\ CodeAcceptedOnce /\ PortalProven /\ ChainHolds
                   /\ MergesEnd /\ ClosedDaysHold)
  BY ComponentsStayTrue, ProviderAgrees, CodesOnce, SecondFactorProven, ChainAlwaysHolds,
     MergedAccountsEnd, ClosedForGood, PTL

\* What a step may not do: close a shift with a wrong report, or anonymize a guest while a
\* stay or a legal hold stands.
THEOREM StepsHold == BackSpec => ZReportComplete /\ ErasedWithoutStay
  BY ComponentsStayTrue, ZReportSums, ErasedOnlyIfFree, PTL

=============================================================================
