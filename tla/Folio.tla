--------------------------------- MODULE Folio ---------------------------------
(***************************************************************************)
(* What a stay costs and what the books say of it: the price snapshot of a *)
(* reservation, its invoice, its folio and the journal.  apps/billing,     *)
(* the postings of apps/reservations/services.py, apps/payments and        *)
(* apps/services.                                                          *)
(*                                                                         *)
(* Every service call is one step: its transaction locks the reservation,  *)
(* the order, the request, the invoice or the payment it changes, and what *)
(* it posts is protected by unique external keys.  (Overlapping payments   *)
(* are the subject of Cashier.)  Amounts are whole units, and the assumed  *)
(* rates and percentages leave none to round.  Dates, rooms and policies   *)
(* are left out: a stay has a number of nights, and the percentage that    *)
(* cancelling costs is any of FeePercents.                                 *)
(***************************************************************************)
EXTENDS Ledger, Staff, Sequences, FiniteSetsExt

CONSTANTS
    Stays,           \* reservations (whose they are is left out)
    Nights,          \* the lengths of stay that are asked for
    NightRate,       \* price of a night: current_price and base_price
    VatRates,        \* percentages, 0 among them
    Promos,          \* what promotions take off, 0 among them
    Extras,          \* price of the booking extras that are chosen, 0 for none
    FeePercents,     \* the cancellation fee that a policy and a date come to
    Discounts,       \* discount requests
    DiscountSums,    \* the amounts that are asked for
    Orders,          \* service orders
    ItemPrice,       \* price of a menu item
    ItemBound,       \* bound: items in an order
    PaymentIds,      \* payments
    MethodOf,        \* the method of each
    RefundIds,       \* refunds: primary keys
    Sums,            \* the amounts that are paid and refunded
    CorrectionSums,  \* the corrections: an adjustment above zero, a credit note below
    Repeats,         \* bound: amendments, and corrections
    EntryBound       \* bound: folio entries

\* The validators of VATRateChange.
RateRange == 0 .. 100

ASSUME FolioAssumption ==
    /\ Nights \subseteq Nat \ {0}
    /\ NightRate \in Nat \ {0} /\ ItemPrice \in Nat \ {0}
    /\ 0 \in VatRates /\ VatRates \subseteq RateRange /\ FeePercents \subseteq 0 .. 100
    /\ Promos \subseteq Nat /\ Extras \subseteq Nat
    /\ DiscountSums \subseteq Nat \ {0} /\ Sums \subseteq Nat \ {0}
    /\ CorrectionSums \subseteq Int \ {0}
    /\ {ItemBound, Repeats, EntryBound} \subseteq Nat
    /\ MethodOf \in [PaymentIds -> {"cash", "bank_transfer", "pos", "online"}]
    /\ RefundIds \subseteq Nat
    /\ None \notin Stays \cup Orders \cup PaymentIds

VARIABLES
    vat,        \* the current VAT rate (the newest VATRateChange)
    stay,       \* reservations with their price snapshot
    invoice,    \* invoices: total and amount_paid
    folios,     \* the stays that have a folio
    opened,     \* auxiliary: the prices of the snapshot each folio was opened with
    entries,    \* the folio entries
    order,      \* service orders
    discount,   \* discount requests
    payment_of, \* the invoice (by its stay) and the amount of each payment
    refund_of,  \* the payment and the amount of each refund
    amended,    \* the amendment history: the stay of each, by primary key
    corrected   \* how many corrections there are: the primary key of the last

folioVars == <<vat, stay, invoice, folios, opened, entries, journal, order, discount,
               payment_of, refund_of, amended, corrected>>

-----------------------------------------------------------------------------
(* Rows *)

StayStates == {"none", "pending", "confirmed", "checked_in", "checked_out", "cancelled",
               "no_show"}
ActiveStay == {"pending", "confirmed", "checked_in"}

\* `plan`: booked through a quote on a rate plan.  `taxes` is the VAT line, the other
\* TaxFee rows behave like it.
StayRow == [status : StayStates, plan : BOOLEAN, nights : Nat, subtotal : Int, extra : Nat,
            taxes : Int, total : Int, fee : Int]
PriceRow == [subtotal : Int, extra : Nat, taxes : Int, total : Int]
InvoiceRow == [raised : BOOLEAN, total : Int, paid : Int]
EntryTypes == {"accommodation", "tax", "service", "payment", "refund", "adjustment",
               "credit_note"}
\* A folio entry: a debit is above zero, a credit below.  `key` is the external key or,
\* without one, the primary key.
IsEntry(e) == /\ DOMAIN e = {"stay", "key", "type", "amount"}
              /\ e.stay \in Stays /\ e.type \in EntryTypes /\ e.amount \in Int \ {0}
OrderStates == {"none", "pending", "confirmed", "in_progress", "completed", "cancelled"}
OrderRow == [status : OrderStates, stay : Stays \cup {None}, items : Nat]
DiscountRow == [status : {"none", "pending", "approved", "rejected"},
                stay : Stays \cup {None}, amount : Nat, by : Staff \cup {None}]

\* ReservationAmendmentHistory: immutable rows in the order of their primary keys.
IsAmendmentHistory(h) == h \in Seq(Stays) /\ Len(h) <= Repeats

NoStay == [status |-> "none", plan |-> FALSE, nights |-> 0, subtotal |-> 0, extra |-> 0,
           taxes |-> 0, total |-> 0, fee |-> 0]
PricesOf(row) == [subtotal |-> row.subtotal, extra |-> row.extra, taxes |-> row.taxes,
                  total |-> row.total]

FolioTypeOK ==
    /\ vat \in VatRates
    /\ stay \in [Stays -> StayRow]
    /\ invoice \in [Stays -> InvoiceRow]
    /\ folios \subseteq Stays /\ opened \in [Stays -> PriceRow]
    /\ \A e \in entries : IsEntry(e)
    /\ \A j \in journal : IsJournalEntry(j)
    /\ order \in [Orders -> OrderRow]
    /\ discount \in [Discounts -> DiscountRow]
    /\ payment_of \in [PaymentIds -> [stay : Stays \cup {None}, amount : Nat]]
    /\ refund_of \in [RefundIds -> [payment : PaymentIds \cup {None}, amount : Nat]]
    /\ IsAmendmentHistory(amended) /\ corrected \in 0 .. Repeats

FolioInit ==
    /\ vat = 0
    /\ stay = [s \in Stays |-> NoStay]
    /\ invoice = [s \in Stays |-> [raised |-> FALSE, total |-> 0, paid |-> 0]]
    /\ opened = [s \in Stays |-> PricesOf(NoStay)]
    /\ folios = {} /\ entries = {} /\ journal = {}
    /\ order = [o \in Orders |-> [status |-> "none", stay |-> None, items |-> 0]]
    /\ discount = [d \in Discounts |-> [status |-> "none", stay |-> None, amount |-> 0,
                                        by |-> None]]
    /\ payment_of = [p \in PaymentIds |-> [stay |-> None, amount |-> 0]]
    /\ refund_of = [f \in RefundIds |-> [payment |-> None, amount |-> 0]]
    /\ amended = <<>> /\ corrected = 0

-----------------------------------------------------------------------------
(* Prices *)

Percent(x, p) == (x * p) \div 100

Snapshot(plan, n, subtotal, extra) ==
    LET taxes == Percent(subtotal + extra, vat)
    IN  [status |-> "pending", plan |-> plan, nights |-> n, subtotal |-> subtotal,
         extra |-> extra, taxes |-> taxes, total |-> subtotal + extra + taxes, fee |-> 0]

\* calculate_quote: the promotion takes off no more than the nights cost, the VAT is
\* on the nights and the extras.
Quoted(n, promo, extra) ==
    LET nights == n * NightRate
    IN  Snapshot(TRUE, n, nights - (IF promo < nights THEN promo ELSE nights), extra)

\* The snapshot that create_reservation makes when it is given none.
Walkin(n) == Snapshot(FALSE, n, n * NightRate, 0)

\* amend_reservation_stay: a plan is quoted anew, without promotion and extras; the
\* total without a plan has no VAT, and keeps the old tax and extra lines beside it.
Repriced(s, n) ==
    IF stay[s].plan
    THEN [Quoted(n, 0, 0) EXCEPT !.status = stay[s].status]
    ELSE [stay[s] EXCEPT !.nights = n, !.subtotal = n * NightRate, !.total = n * NightRate]

-----------------------------------------------------------------------------
(* Posting *)

Entry(s, kind, id, type, amount) ==
    [stay |-> s, key |-> <<kind, id>>, type |-> type, amount |-> amount]

Keyed(key) == \E e \in entries : e.key = key

\* ensure_folio_for_reservation: the entries of the snapshot, each created once under
\* its key, whatever the snapshot says later.
PriceLines(s) ==
    {e \in {Entry(s, "accommodation", s, "accommodation", stay[s].subtotal),
            Entry(s, "tax", s, "tax", stay[s].taxes),
            Entry(s, "extra", s, "service", stay[s].extra)} : e.amount > 0}
Charges(s) == {e \in PriceLines(s) : ~Keyed(e.key)}

\* post_folio_journal
RevenueAccount(type) ==
    CASE type = "accommodation" -> "4000"
      [] type = "service" -> "4100"
      [] type = "tax" -> "2100"
      [] OTHER -> "4200"

\* post_payment_journal: to the cash, or to the clearing account.
Till(p) == IF MethodOf[p] = "cash" THEN "1010" ELSE "1020"

\* Mutant: the event key of a refund is its amount.
Mut_JournalKey(e) ==
    CASE e.type = "payment" -> <<"receipt", e.key[2], -e.amount>>
      [] e.type = "refund" -> <<"refund", refund_of[e.key[2]].payment, e.amount>>
      [] OTHER -> <<"folio-journal", e.key>>
\* The external key of the journal entry that stands for a folio entry.
JournalKey(e) ==
    CASE e.type = "payment" -> <<"receipt", e.key[2], -e.amount>>
      [] e.type = "refund" -> <<"refund", refund_of[e.key[2]].payment, e.key[2]>>
      [] OTHER -> <<"folio-journal", e.key>>

\* The account the guest receivables are balanced with.
Contra(e) ==
    CASE e.type = "payment" -> Till(e.key[2])
      [] e.type = "refund" -> Till(refund_of[e.key[2]].payment)
      [] OTHER -> RevenueAccount(e.type)

\* post_folio_journal, or post_payment_journal beside the entry of a payment or refund.
JournalOf(e) == [key |-> JournalKey(e), lines |-> Moves("1100", Contra(e), e.amount)]

\* _ensure_folio_entry and post_folio_entry: entries with their journal entries.  An
\* amount of zero, or a key that is taken, fails the transaction.
Post(new) ==
    /\ \A e \in new : e.amount # 0 /\ ~Keyed(e.key)
    /\ Cardinality(entries \cup new) <= EntryBound
    /\ entries' = entries \cup new
    /\ journal' = journal \cup {j \in {JournalOf(e)' : e \in new} : ~Posted(j.key)}

\* ensure_folio_for_reservation finds the folio or makes it.
Opens(s) ==
    /\ folios' = folios \cup {s}
    /\ opened' = IF s \in folios THEN opened ELSE [opened EXCEPT ![s] = PricesOf(stay[s])]
\* Posting to that folio.
PostToFolio(s, new) == Opens(s) /\ Post(Charges(s) \cup new)

NoPosting == UNCHANGED <<folios, opened, entries, journal>>

-----------------------------------------------------------------------------
(* Reservations and invoices *)

\* set_vat_rate
SetVat(rate) ==
    /\ vat' = rate
    /\ NoPosting
    /\ UNCHANGED <<stay, invoice, order, discount, payment_of, refund_of, amended, corrected>>

StayStep ==
    UNCHANGED <<vat, order, discount, payment_of, refund_of, corrected>>

\* create_reservation, with the snapshot of a converted quote or its own.
Book(s, snapshot) ==
    /\ stay[s].status = "none"
    /\ stay' = [stay EXCEPT ![s] = snapshot]
    /\ NoPosting /\ StayStep /\ UNCHANGED <<invoice, amended>>

\* transition_reservation
Enters(s, from, status) ==
    /\ stay[s].status \in from
    /\ stay' = [stay EXCEPT ![s].status = status]
    /\ StayStep /\ UNCHANGED amended

\* Confirming raises the invoice (ensure_invoice_for_reservation: items of the
\* snapshot and its VAT) and the folio.
Confirm(s) ==
    /\ Enters(s, {"pending"}, "confirmed")
    /\ invoice' = [invoice EXCEPT ![s] =
          IF @.raised THEN @
          ELSE [raised |-> TRUE, paid |-> 0,
                total |-> stay[s].subtotal + stay[s].extra + stay[s].taxes]]
    /\ PostToFolio(s, {})

\* Half of the invoice has to be paid by then.
CheckIn(s) ==
    /\ Enters(s, {"confirmed"}, "checked_in")
    /\ invoice[s].raised /\ invoice[s].total > 0
    /\ 2 * invoice[s].paid >= invoice[s].total
    /\ NoPosting /\ UNCHANGED invoice

Leave(s) ==
    /\ \/ Enters(s, {"checked_in"}, "checked_out")
       \/ Enters(s, {"confirmed"}, "no_show")
    /\ NoPosting /\ UNCHANGED invoice

\* Mutant: the folio is not brought up to date first.
Mut_Cancel(s, percent) ==
    LET fee == Percent(stay[s].total, percent) IN
    /\ stay[s].status \in {"pending", "confirmed"}
    /\ stay' = [stay EXCEPT ![s].status = "cancelled", ![s].fee = fee]
    /\ StayStep /\ UNCHANGED <<amended, invoice>>
    /\ Opens(s)
    /\ Post({Entry(s, "cancellation-reversal", s, "credit_note", -stay[s].total)}
            \cup (IF fee > 0 THEN {Entry(s, "cancellation-fee", s, "adjustment", fee)} ELSE {}))
\* The whole total is reversed, then the fee is charged.
Cancel(s, percent) ==
    LET fee == Percent(stay[s].total, percent) IN
    /\ stay[s].status \in {"pending", "confirmed"}
    /\ stay' = [stay EXCEPT ![s].status = "cancelled", ![s].fee = fee]
    /\ StayStep /\ UNCHANGED <<amended, invoice>>
    /\ IF stay[s].total > 0
       THEN PostToFolio(s, {Entry(s, "cancellation-reversal", s, "credit_note", -stay[s].total)}
                           \cup (IF fee > 0
                                 THEN {Entry(s, "cancellation-fee", s, "adjustment", fee)}
                                 ELSE {}))
       ELSE NoPosting

\* amend_reservation_stay: the difference is posted if there is a folio; the invoice
\* stays as it was raised.
Amend(s, n) ==
    LET new == Repriced(s, n)
        difference == new.total - stay[s].total
        id == Len(amended) + 1
    IN  /\ stay[s].status \in ActiveStay
        /\ Len(amended) < Repeats
        /\ amended' = Append(amended, s)
        /\ stay' = [stay EXCEPT ![s] = new]
        /\ UNCHANGED invoice /\ StayStep
        /\ UNCHANGED <<folios, opened>>
        /\ Post(IF difference # 0 /\ s \in folios
                THEN {Entry(s, "reservation-amendment", id,
                            IF difference > 0 THEN "adjustment" ELSE "credit_note", difference)}
                ELSE {})

-----------------------------------------------------------------------------
(* Discounts and corrections *)

DiscountStep ==
    UNCHANGED <<vat, stay, invoice, order, payment_of, refund_of, amended, corrected>>

\* request_reservation_discount
RequestDiscount(u, d, s, amount) ==
    /\ HasRole(u, StaffRoles)
    /\ discount[d].status = "none"
    /\ stay[s].status \in ActiveStay
    /\ amount <= stay[s].total
    /\ discount' = [discount EXCEPT ![d] = [status |-> "pending", stay |-> s,
                                            amount |-> amount, by |-> u]]
    /\ NoPosting /\ DiscountStep

\* The limits of discount-approval-limits as they are seeded.
Limit(u) == CASE RoleOf[u] = "admin" -> 100 [] RoleOf[u] = "manager" -> 20 [] OTHER -> 0

\* review_reservation_discount.  Nothing reads who asked for a request that is decided.
ReviewDiscount(u, d, approve) ==
    LET row == discount[d] IN
    /\ HasRole(u, Management)
    /\ row.status = "pending"
    /\ u # row.by \/ HasRole(u, {"admin"})
    /\ discount' = [discount EXCEPT ![d].status = IF approve THEN "approved" ELSE "rejected",
                                    ![d].by = None]
    /\ DiscountStep
    /\ IF approve
       THEN /\ row.amount * 100 <= Limit(u) * stay[row.stay].total
            /\ PostToFolio(row.stay, {Entry(row.stay, "reservation-discount", d, "credit_note",
                                            -row.amount)})
       ELSE NoPosting

CorrectionType(amount) == IF amount > 0 THEN "adjustment" ELSE "credit_note"

\* post_financial_correction.  That the folio is open is left out: no command closes one.
Correct(s, amount) ==
    /\ s \in folios
    /\ corrected < Repeats
    /\ corrected' = corrected + 1
    /\ Post({Entry(s, "correction", corrected + 1, CorrectionType(amount), amount)})
    /\ UNCHANGED <<vat, stay, invoice, folios, opened, order, discount, payment_of, refund_of,
                   amended>>

-----------------------------------------------------------------------------
(* Service orders *)

OrderStep ==
    UNCHANGED <<vat, stay, invoice, discount, payment_of, refund_of, amended, corrected>>

\* A new order, for a stay or without one, with n items.
CreateOrder(o, s, n) ==
    /\ order[o].status = "none"
    /\ s # None => stay[s].status # "none"
    /\ order' = [order EXCEPT ![o] = [status |-> "pending", stay |-> s, items |-> n]]
    /\ NoPosting /\ OrderStep

\* Mutant: items are added whatever the status of the order.
Mut_ChangeItems(o, n) ==
    /\ order[o].status # "none"
    /\ order[o].items + n \in 0 .. ItemBound
    /\ order' = [order EXCEPT ![o].items = @ + n]
    /\ NoPosting /\ OrderStep
\* add_service_order_item and remove_service_order_item
ChangeItems(o, n) ==
    /\ order[o].status = "pending"
    /\ order[o].items + n \in 0 .. ItemBound
    /\ order' = [order EXCEPT ![o].items = @ + n]
    /\ NoPosting /\ OrderStep

OrderTotal(o) == order[o].items * ItemPrice

\* transition_service_order
OrderEnters(o, from, status) ==
    /\ order[o].status \in from
    /\ order' = [order EXCEPT ![o].status = status]
    /\ OrderStep

CompleteOrder(o) ==
    /\ OrderEnters(o, {"in_progress"}, "completed")
    /\ order[o].items > 0
    /\ IF order[o].stay = None THEN NoPosting
       ELSE PostToFolio(order[o].stay, {Entry(order[o].stay, "service-order", o, "service",
                                              OrderTotal(o))})

-----------------------------------------------------------------------------
(* Payments and refunds *)

MoneyStep == UNCHANGED <<vat, stay, order, discount, amended, corrected>>

RefundedOf(p) ==
    SumFunctionOnSet([f \in RefundIds |-> refund_of[f].amount],
                     {f \in RefundIds : refund_of[f].payment = p})

\* record_payment
Pay(u, p, s, amount) ==
    /\ HasRole(u, FrontOffice)
    /\ payment_of[p].stay = None
    /\ invoice[s].raised
    /\ amount <= invoice[s].total - invoice[s].paid
    /\ payment_of' = [payment_of EXCEPT ![p] = [stay |-> s, amount |-> amount]]
    /\ UNCHANGED refund_of
    /\ MoneyStep
    /\ PostToFolio(s, {Entry(s, "payment", p, "payment", -amount)})
    /\ invoice' = [invoice EXCEPT ![s].paid = @ + amount]

\* refund_payment
Refund(u, f, p, amount) ==
    LET s == payment_of[p].stay IN
    /\ HasRole(u, Management)
    /\ s # None /\ refund_of[f].payment = None
    /\ \A o \in RefundIds : o < f => refund_of[o].payment # None
    /\ amount <= payment_of[p].amount - RefundedOf(p)
    /\ refund_of' = [refund_of EXCEPT ![f] = [payment |-> p, amount |-> amount]]
    /\ UNCHANGED <<payment_of, folios, opened>>
    /\ MoneyStep
    /\ Post({Entry(s, "refund", f, "refund", amount)})
    /\ invoice' = [invoice EXCEPT ![s].paid = @ - amount]

-----------------------------------------------------------------------------

(* The portal and the API.  Where both take a command from the same users it is one    *)
(* action, and so it is in the API for a subset of them.                               *)

\* portal_reservations, and ReservationViewSet.create, which admits guests.
PortalReservations(u, s) ==
    /\ HasRole(u, StaffRoles \cup {"guest"})
    /\ \E n \in Nights : Book(s, Walkin(n))

\* BookingQuoteViewSet.convert, as public_quote_confirm and portal_verify_booking.
BookingQuoteViewSet(u, s) ==
    /\ HasRole(u, FrontOffice \cup {"guest"})
    /\ \E n \in Nights, promo \in Promos, extra \in Extras : Book(s, Quoted(n, promo, extra))

\* portal_reservation_action, and ReservationViewSet but for no_show
PortalReservationAction(u, s) ==
    \/ HasRole(u, FrontOffice) /\ (Confirm(s) \/ CheckIn(s) \/ Leave(s))
    \/ /\ HasRole(u, FrontOffice \cup {"guest"})
       /\ \E percent \in FeePercents : Cancel(s, percent)

\* portal_reservation_manage: companions, consents and room moves are left out.
PortalReservationManage(u, s) ==
    HasRole(u, StaffRoles) /\ \E n \in Nights : Amend(s, n)

\* portal_commercial: corporate accounts and groups are left out.
PortalCommercial(u) ==
    /\ HasRole(u, StaffRoles)
    /\ \E d \in Discounts :
          \/ \E s \in Stays, amount \in DiscountSums : RequestDiscount(u, d, s, amount)
          \/ \E approve \in BOOLEAN : ReviewDiscount(u, d, approve)

\* portal_billing, and the corrections of FolioViewSet
PortalBilling(u, s) ==
    HasRole(u, Management) /\ \E amount \in CorrectionSums : Correct(s, amount)

\* portal_vat
PortalVat(u) == HasRole(u, {"admin"}) /\ \E rate \in VatRates : SetVat(rate)

\* portal_services: its form makes an order with an item and without a stay.
PortalServices(u, o) == HasRole(u, FrontOffice \cup {"guest"}) /\ CreateOrder(o, None, 1)

\* ServiceOrderViewSet: orders without items, which are added later.
ServiceOrderViewSet(u, o) ==
    /\ HasRole(u, FrontOffice \cup {"guest"})
    /\ (\E s \in Stays \cup {None} : CreateOrder(o, s, 0)) \/ ChangeItems(o, 1) \/ ChangeItems(o, -1)

\* portal_service_action and ServiceOrderViewSet.transition
PortalServiceAction(u, o) ==
    /\ HasRole(u, FrontOffice)
    /\ \/ OrderEnters(o, {"pending"}, "confirmed") /\ NoPosting
       \/ OrderEnters(o, {"confirmed"}, "in_progress") /\ NoPosting
       \/ OrderEnters(o, {"pending", "confirmed"}, "cancelled") /\ NoPosting
       \/ CompleteOrder(o)

FolioNext ==
    \E u \in Staff :
       \/ PortalVat(u) \/ PortalCommercial(u)
       \/ \E s \in Stays :
             \/ PortalReservations(u, s) \/ BookingQuoteViewSet(u, s)
             \/ PortalReservationAction(u, s) \/ PortalReservationManage(u, s)
             \/ PortalBilling(u, s)
             \/ \E p \in PaymentIds, amount \in Sums : Pay(u, p, s, amount)
       \/ \E f \in RefundIds, p \in PaymentIds, amount \in Sums : Refund(u, f, p, amount)
       \/ \E o \in Orders :
             \/ PortalServices(u, o) \/ ServiceOrderViewSet(u, o) \/ PortalServiceAction(u, o)

FolioSpec == FolioInit /\ [][FolioNext]_folioVars

-----------------------------------------------------------------------------
(* Properties *)

\* The journal has the folios over again, beside the expenditures: every folio entry,
\* whichever command posted it, has a journal entry of its own that puts its amount on
\* the guest receivables, and there is no other that stands for a folio entry.
EachEntryJournaled ==
    /\ {j \in journal : j.key[1] \in {"receipt", "refund", "folio-journal"}}
       = {JournalOf(e) : e \in entries}
    /\ \A e, f \in entries : JournalKey(e) = JournalKey(f) => e = f

SumOf(es) == SumFunctionOnSet([e \in es |-> e.amount], es)

\* Every posting has its cause and every cause its posting: a service order is on the
\* folio of its stay with its total exactly when it is completed, a discount exactly
\* when it is approved, the reversal exactly when a stay with a price was cancelled; and
\* what an invoice says is paid is what the payments and refunds on the folio come to.
FolioExplained ==
    /\ \A o \in Orders : {e \in entries : e.key = <<"service-order", o>>}
          = IF order[o].status = "completed" /\ order[o].stay # None
            THEN {Entry(order[o].stay, "service-order", o, "service", OrderTotal(o))} ELSE {}
    /\ \A d \in Discounts : {e \in entries : e.key = <<"reservation-discount", d>>}
          = IF discount[d].status = "approved"
            THEN {Entry(discount[d].stay, "reservation-discount", d, "credit_note",
                        -discount[d].amount)} ELSE {}
    /\ \A s \in Stays :
          /\ (stay[s].status = "cancelled" /\ stay[s].total > 0)
             <=> Keyed(<<"cancellation-reversal", s>>)
          /\ invoice[s].paid = -SumOf({e \in entries : e.stay = s
                                                      /\ e.type \in {"payment", "refund"}})

\* What a folio has for the price of its stay, beside the payments, refunds, service
\* orders, corrections and discounts.
PriceBalance(s) ==
    SumOf({e \in entries : /\ e.stay = s /\ e.type \notin {"payment", "refund"}
                           /\ e.key[1] \notin {"service-order", "correction",
                                               "reservation-discount"}})

\* The lines of the price on the folio that neither the total nor an amendment covers:
\* one that was zero when the folio was opened, and was charged after an amendment had
\* posted the difference; and the VAT of a stay without a plan that was amended before it
\* had a folio, whose new total has none.
LateLines(s) ==
    {e \in entries :
        /\ e.stay = s
        /\ \/ e.key[1] = "accommodation" /\ opened[s].subtotal = 0
           \/ e.key[1] = "tax" /\ opened[s].taxes = 0
           \/ e.key[1] = "extra" /\ opened[s].extra = 0
           \/ e.key[1] = "tax" /\ ~stay[s].plan /\ opened[s].total = opened[s].subtotal}

\* What cancelling leaves on a folio, whatever was posted in which order: the price comes
\* to the fee (as reservations/tests_commercial.py:68 has it of a stay that was not
\* amended); if the stay was amended, to the fee and those lines that are named above, and
\* to no other.
CancellationLeavesFee ==
    \A s \in Stays : stay[s].status = "cancelled" =>
        /\ (\A n \in DOMAIN amended : amended[n] # s) => LateLines(s) = {}
        /\ PriceBalance(s) = stay[s].fee + SumOf(LateLines(s))
=============================================================================
