------------------------------ MODULE BackOffice ------------------------------
(***************************************************************************)
(* The back office: the components beside the rooms and the mail.  They    *)
(* share the users and their roles (Staff) and the journal (Ledger), but   *)
(* none of them reads what another one writes; so each behaviour is one of *)
(* one component, `focus`, and the states of all of them are the sum and   *)
(* not the product of theirs.                                              *)
(***************************************************************************)
EXTENDS Reconciliation, Contacts, Access, AuditChain, Guests, Books

VARIABLE focus    \* the component that is looked at

Accounting == {"cashier", "stock", "folio", "casework"}
Components == Accounting \cup {"contacts", "access", "audit", "guests", "books", "reconciliation"}

BackVars == <<focus, vars, stockVars, folioVars, caseVars, contactVars, accessVars, auditVars,
              guestVars, booksVars, table>>

BackTypeOK ==
    /\ focus \in Components
    /\ focus = "cashier" => TypeOK
    /\ focus = "stock" => StockTypeOK
    /\ focus = "folio" => FolioTypeOK
    /\ focus = "casework" => CaseTypeOK
    /\ focus = "contacts" => ContactTypeOK
    /\ focus = "access" => AccessTypeOK
    /\ focus = "audit" => AuditTypeOK
    /\ focus = "guests" => GuestTypeOK
    /\ focus = "books" => BooksTypeOK

BackInit ==
    /\ focus \in Components
    /\ Init /\ StockInit /\ FolioInit /\ CaseInit
    /\ ContactInit /\ AccessInit /\ AuditInit /\ GuestInit /\ BooksInit
    /\ table \in IF focus = "reconciliation" THEN Tables ELSE {<<>>}

\* Everything but the named component stays.
Still(component) ==
    /\ focus = component /\ UNCHANGED <<focus, table>>
    /\ component # "cashier" => UNCHANGED vars
    /\ component # "stock" => UNCHANGED stockVars
    /\ component # "folio" => UNCHANGED <<vat, stay, invoice, folios, opened, entries, order,
                                          discount, payment_of, refund_of, amended, corrected>>
    /\ component # "casework" => UNCHANGED <<case, history, desk>>
    /\ component \notin {"folio", "casework"} => UNCHANGED journal
    /\ component # "contacts" => UNCHANGED contactVars
    /\ component # "access" => UNCHANGED accessVars
    /\ component # "audit" => UNCHANGED auditVars
    /\ component # "guests" => UNCHANGED guestVars
    /\ component # "books" => UNCHANGED booksVars

BackNext ==
    \/ Still("cashier") /\ Next
    \/ Still("stock") /\ StockNext
    \/ Still("folio") /\ FolioNext
    \/ Still("casework") /\ CaseNext
    \/ Still("contacts") /\ ContactNext
    \/ Still("access") /\ AccessNext
    \/ Still("audit") /\ AuditNext
    \/ Still("guests") /\ GuestNext
    \/ Still("books") /\ BooksNext

BackSpec == BackInit /\ [][BackNext]_BackVars

\* The reconciliation, the financial controls and the report find the books in order, in
\* every state of the components they look at (Reconciliation).
BooksReconciled == focus \in Accounting \cup {"reconciliation"} => Reconciled
=============================================================================
