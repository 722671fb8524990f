------------------------ MODULE ReconciliationProofs ------------------------
(***************************************************************************)
(* The reports agree with the books: BooksReconciled, whatever the table   *)
(* of reservations and whatever cashiers, folios, cases and stores do.     *)
(*                                                                         *)
(* First what one pass over the sorted table finds; then the invariant the *)
(* reports rest on, beside those of the components: journal entries that   *)
(* no folio stands behind are those of the expenditures, payments and      *)
(* refunds are on their folios, and no payment is refunded beyond its      *)
(* amount.  The journal is then the folio entries and the paid             *)
(* expenditures over again, so the sum of an account is a sum over those,  *)
(* which is split and renamed (SumTheorems) into the sum of the report.    *)
(***************************************************************************)
EXTENDS BackOfficeProofs

-----------------------------------------------------------------------------
(* The scan for double bookings *)

ScanStart == [previous |-> 0, found |-> {}]

\* Rows in the order of their arrival, and what they are compared with.
RowsSorted(rows, N) ==
    /\ \A n \in 1 .. N : rows[n].in \in Nat /\ rows[n].out \in Nat /\ rows[n].in < rows[n].out
    /\ \A n \in 2 .. N : rows[n - 1].in <= rows[n].in

ScanRound(rows, N, g) ==
    [n \in 0 .. N |-> IF n = 0 THEN ScanStart ELSE Compared(rows, g[n - 1], n)]

\* The recursion has a solution for any number of rows.
LEMMA ScanSolved == ASSUME NEW rows, NEW N \in Nat PROVE \E g : g = ScanRound(rows, N, g)
<1> DEFINE G == {n \in Nat : \E g : g = ScanRound(rows, n, g)}
<1>1. 0 \in G
  <2> DEFINE g == [n \in 0 .. 0 |-> ScanStart]
  <2>1. g = ScanRound(rows, 0, g)
    BY DEF ScanRound
  <2> QED BY <2>1
<1>2. ASSUME NEW n \in Nat, n \in G PROVE n + 1 \in G
  <2>1. PICK g : g = ScanRound(rows, n, g)
    BY <1>2
  <2> DEFINE h == [k \in 0 .. n + 1 |-> IF k = n + 1 THEN Compared(rows, g[n], n + 1) ELSE g[k]]
  <2>2. \A k \in 0 .. n : h[k] = g[k]
    OBVIOUS
  <2>3. ASSUME NEW k \in 0 .. n + 1
        PROVE  h[k] = IF k = 0 THEN ScanStart ELSE Compared(rows, h[k - 1], k)
    <3>1. CASE k = n + 1
      BY <2>2, <3>1
    <3>2. CASE k \in 0 .. n
      <4>1. g[k] = IF k = 0 THEN ScanStart ELSE Compared(rows, g[k - 1], k)
        BY <2>1, <3>2 DEF ScanRound
      <4>2. k # 0 => k - 1 \in 0 .. n
        BY <3>2
      <4> QED BY <2>2, <3>2, <4>1, <4>2
    <3> QED BY <3>1, <3>2
  <2>4. h = ScanRound(rows, n + 1, h)
    BY <2>3 DEF ScanRound
  <2> QED BY <2>4
<1>3. \A n \in Nat : n \in G
  <2> HIDE DEF G
  <2> QED BY <1>1, <1>2, NumberInduction
<1> QED BY <1>3

LEMMA ScanIsRound ==
    ASSUME NEW rows, NEW N \in Nat, N = Len(rows)
    PROVE  ConflictScan(rows) = ScanRound(rows, N, ConflictScan(rows))
<1>1. ConflictScan(rows) = CHOOSE g : g = ScanRound(rows, Len(rows), g)
  BY DEF ConflictScan, ScanRound, ScanStart
<1>2. \E g : g = ScanRound(rows, Len(rows), g)
  BY ScanSolved
<1> QED BY <1>1, <1>2

\* After n rows: what it compares with ends last, and it has found what there is.
Scanned(rows, n, acc) ==
    /\ IF n = 0 THEN acc = ScanStart
       ELSE /\ acc.previous \in 1 .. n
            /\ \A k \in 1 .. n : rows[k].out <= rows[acc.previous].out
    /\ \A k \in 1 .. n : rows[k].in <= rows[n].in
    /\ \A pair \in acc.found :
          /\ pair[1] \in 1 .. n /\ pair[2] \in 1 .. n
          /\ Overlaps(rows[pair[1]], rows[pair[2]])
    /\ \A m \in 1 .. n : (\E k \in 1 .. m - 1 : Overlaps(rows[k], rows[m]))
                         => \E pair \in acc.found : pair[2] = m
    /\ DOMAIN acc = {"previous", "found"} /\ acc = [previous |-> acc.previous, found |-> acc.found]

LEMMA ScanStep ==
    ASSUME NEW rows, NEW N \in Nat, RowsSorted(rows, N), NEW n \in Nat, n + 1 <= N,
           NEW acc, Scanned(rows, n, acc)
    PROVE  Scanned(rows, n + 1, Compared(rows, acc, n + 1))
<1>1. /\ \A k \in 1 .. n + 1 : /\ rows[k].in \in Nat /\ rows[k].out \in Nat
                               /\ rows[k].in < rows[k].out
      /\ n # 0 => rows[n].in <= rows[n + 1].in
  BY DEF RowsSorted
<1>2. \A k \in 1 .. n + 1 : rows[k].in <= rows[n + 1].in
  BY <1>1 DEF Scanned
<1>3. acc = [previous |-> acc.previous, found |-> acc.found]
  BY DEF Scanned
<1>4. \A m \in 1 .. n : (\E k \in 1 .. m - 1 : Overlaps(rows[k], rows[m]))
                        => \E pair \in acc.found : pair[2] = m
  BY DEF Scanned
<1>5. CASE acc.previous # 0 /\ rows[acc.previous].out > rows[n + 1].in
  <2> DEFINE new == [previous |-> Later(rows, acc.previous, n + 1),
                     found |-> acc.found \cup {<<acc.previous, n + 1>>}]
  <2>1. Compared(rows, acc, n + 1) = new
    BY <1>5 DEF Compared
  <2>2. n # 0 /\ acc.previous \in 1 .. n
    BY <1>5 DEF Scanned, ScanStart
  <2>3. \A k \in 1 .. n : rows[k].out <= rows[acc.previous].out
    BY <2>2 DEF Scanned
  <2>4. new.previous \in 1 .. n + 1 /\ \A k \in 1 .. n + 1 : rows[k].out <= rows[new.previous].out
    BY <1>1, <2>2, <2>3 DEF Later
  <2>5. Overlaps(rows[acc.previous], rows[n + 1])
    <3>1. rows[acc.previous].in <= rows[n + 1].in
      BY <1>2, <2>2
    <3>2. n + 1 \in 1 .. n + 1 /\ acc.previous \in 1 .. n + 1
      BY <2>2
    <3> QED BY <1>1, <1>5, <3>1, <3>2 DEF Overlaps
  <2>6. \A pair \in new.found :
          /\ pair[1] \in 1 .. n + 1 /\ pair[2] \in 1 .. n + 1
          /\ Overlaps(rows[pair[1]], rows[pair[2]])
    <3>1. \A pair \in acc.found : /\ pair[1] \in 1 .. n /\ pair[2] \in 1 .. n
                                  /\ Overlaps(rows[pair[1]], rows[pair[2]])
      BY DEF Scanned
    <3> QED BY <2>2, <2>5, <3>1
  <2>7. \A m \in 1 .. n + 1 : (\E k \in 1 .. m - 1 : Overlaps(rows[k], rows[m]))
                              => \E pair \in new.found : pair[2] = m
    <3>1. <<acc.previous, n + 1>> \in new.found /\ <<acc.previous, n + 1>>[2] = n + 1
      OBVIOUS
    <3>2. acc.found \subseteq new.found
      OBVIOUS
    <3>3. \A m \in 1 .. n + 1 : m \in 1 .. n \/ m = n + 1
      OBVIOUS
    <3> HIDE DEF new
    <3> QED BY <1>4, <3>1, <3>2, <3>3
  <2>8. DOMAIN new = {"previous", "found"} /\ new = [previous |-> new.previous, found |-> new.found]
    OBVIOUS
  <2> HIDE DEF new
  <2> QED BY <1>2, <2>1, <2>4, <2>6, <2>7, <2>8 DEF Scanned
<1>6. CASE ~(acc.previous # 0 /\ rows[acc.previous].out > rows[n + 1].in)
  <2> DEFINE new == [previous |-> n + 1, found |-> acc.found]
  <2>1. Compared(rows, acc, n + 1) = new
    BY <1>3, <1>6 DEF Compared
  <2>2. \A k \in 1 .. n : rows[k].out <= rows[n + 1].in
    <3> SUFFICES ASSUME NEW k \in 1 .. n PROVE rows[k].out <= rows[n + 1].in
      OBVIOUS
    <3>1. acc.previous \in 1 .. n /\ rows[k].out <= rows[acc.previous].out
      BY DEF Scanned
    <3>2. rows[acc.previous].out \in Nat /\ rows[k].out \in Nat /\ rows[n + 1].in \in Nat
      BY <1>1, <3>1
    <3> QED BY <1>6, <3>1, <3>2
  <2>3. \A k \in 1 .. n + 1 : rows[k].out <= rows[n + 1].out
    BY <1>1, <2>2
  <2>4. \A pair \in acc.found :
          /\ pair[1] \in 1 .. n + 1 /\ pair[2] \in 1 .. n + 1
          /\ Overlaps(rows[pair[1]], rows[pair[2]])
    BY DEF Scanned
  <2>5. \A k \in 1 .. n : ~Overlaps(rows[k], rows[n + 1])
    <3>1. \A k \in 1 .. n : rows[k].out \in Nat /\ rows[n + 1].in \in Nat
      BY <1>1
    <3> QED BY <2>2, <3>1 DEF Overlaps
  <2>6. \A m \in 1 .. n + 1 : (\E k \in 1 .. m - 1 : Overlaps(rows[k], rows[m]))
                              => \E pair \in acc.found : pair[2] = m
    <3> SUFFICES ASSUME NEW m \in 1 .. n + 1, NEW k \in 1 .. m - 1, Overlaps(rows[k], rows[m])
                 PROVE  \E pair \in acc.found : pair[2] = m
      OBVIOUS
    <3>1. m # n + 1
      BY <2>5
    <3> QED BY <1>4, <3>1
  <2>7. DOMAIN new = {"previous", "found"} /\ new = [previous |-> new.previous, found |-> new.found]
        /\ new.previous = n + 1 /\ new.found = acc.found
    OBVIOUS
  <2> HIDE DEF new
  <2> QED BY <1>2, <2>1, <2>3, <2>4, <2>6, <2>7 DEF Scanned
<1> QED BY <1>5, <1>6

\* The scan of sorted rows is right.
LEMMA ScanRight ==
    ASSUME NEW rows, NEW N \in Nat, N = Len(rows), RowsSorted(rows, N)
    PROVE  Scanned(rows, N, ConflictScan(rows)[N])
<1> DEFINE G == {n \in Nat : n <= N => Scanned(rows, n, ConflictScan(rows)[n])}
<1>1. \A n \in 0 .. N : ConflictScan(rows)[n]
        = IF n = 0 THEN ScanStart ELSE Compared(rows, ConflictScan(rows)[n - 1], n)
  <2>1. ConflictScan(rows) = ScanRound(rows, N, ConflictScan(rows))
    BY ScanIsRound
  <2>2. PICK g : g = ConflictScan(rows)
    OBVIOUS
  <2>3. g = ScanRound(rows, N, g)
    BY <2>1, <2>2
  <2>4. \A n \in 0 .. N : g[n] = IF n = 0 THEN ScanStart ELSE Compared(rows, g[n - 1], n)
    BY <2>3 DEF ScanRound
  <2> QED BY <2>2, <2>4
<1>2. 0 \in G
  <2>1. ConflictScan(rows)[0] = ScanStart
    BY <1>1
  <2> QED BY <2>1 DEF Scanned, ScanStart
<1>3. ASSUME NEW n \in Nat, n \in G PROVE n + 1 \in G
  <2> SUFFICES ASSUME n + 1 <= N PROVE Scanned(rows, n + 1, ConflictScan(rows)[n + 1])
    OBVIOUS
  <2>1. Scanned(rows, n, ConflictScan(rows)[n])
    BY <1>3
  <2>2. ConflictScan(rows)[n + 1] = Compared(rows, ConflictScan(rows)[n], n + 1)
    BY <1>1
  <2> QED BY <2>1, <2>2, ScanStep
<1>4. \A n \in Nat : n \in G
  <2> HIDE DEF G
  <2> QED BY <1>2, <1>3, NumberInduction
<1> QED BY <1>4

LEMMA TableSorted ==
    ASSUME table \in Tables
    PROVE  Len(table) \in Nat /\ DOMAIN table = 1 .. Len(table) /\ RowsSorted(table, Len(table))
<1>1. PICK n \in 0 .. TableRows :
         /\ table \in [1 .. n -> TableRow]
         /\ \A k \in 2 .. n : table[k - 1].in <= table[k].in
  BY DEF Tables
<1>2. n \in Nat
  BY ReconciliationAssumption
<1>3. table \in Seq(TableRow) /\ Len(table) = n
  BY <1>1, <1>2
<1>4. \A r \in TableRow : r.in \in Nat /\ r.out \in Nat /\ r.in < r.out
  BY ReconciliationAssumption DEF TableRow
<1>5. \A k \in 1 .. n : table[k] \in TableRow
  BY <1>1
<1> QED BY <1>1, <1>2, <1>3, <1>4, <1>5 DEF RowsSorted

LEMMA ScanFinds == ASSUME table \in Tables PROVE ScanFindsAll
<1>1. Len(table) \in Nat /\ DOMAIN table = 1 .. Len(table)
      /\ Scanned(table, Len(table), ConflictScan(table)[Len(table)])
  BY TableSorted, ScanRight
<1> QED BY <1>1 DEF ScanFindsAll, ReservationConflicts, Scanned

-----------------------------------------------------------------------------
(* What the reports rest on, beside SharedInv *)

ExpenseRow(c) == [key |-> ExpenseKey(c), lines |-> ExpenseLines]

\* The journal entries that no folio stands behind.
OtherRows == journal \ FolioRows
ExpensesOnly ==
    /\ IsFiniteSet(OtherRows)
    /\ \A j \in OtherRows : \E c \in Cases : j = ExpenseRow(c) /\ case[c].kind = "expenditure"

PaymentEntry(p) == Entry(payment_of[p].stay, "payment", p, "payment", -payment_of[p].amount)
RefundEntry(f) ==
    Entry(payment_of[refund_of[f].payment].stay, "refund", f, "refund", refund_of[f].amount)

\* Payments and refunds are on their folios, and no payment is refunded beyond its amount.
MoneyPosted ==
    /\ \A p \in PaymentIds : payment_of[p].stay # None => PaymentEntry(p) \in entries
    /\ \A f \in RefundIds : refund_of[f].payment # None =>
          payment_of[refund_of[f].payment].stay # None /\ RefundEntry(f) \in entries
    /\ \A p \in PaymentIds : RefundedOf(p) <= payment_of[p].amount

ReportInv == table \in Tables /\ ExpensesOnly /\ MoneyPosted

\* The payments that were taken.
Received == {p \in PaymentIds : payment_of[p].stay # None}

LEMMA MoneyRows ==
    ASSUME FolioTypeOK
    PROVE  /\ \A p \in PaymentIds : payment_of[p].amount \in Nat
           /\ \A f \in RefundIds :
                 /\ refund_of[f].amount \in Nat
                 /\ refund_of[f].payment # None => refund_of[f].payment \in PaymentIds
           /\ None \notin PaymentIds
  BY FolioConstants DEF FolioTypeOK

LEMMA MoneyFinite ==
    ASSUME FolioInv, MoneyPosted
    PROVE  /\ IsFiniteSet(Received) /\ IsFiniteSet(RefundRows)
           /\ \A p \in PaymentIds : IsFiniteSet({f \in RefundIds : refund_of[f].payment = p})
<1> DEFINE id == [e \in entries |-> e.key[2]]
           ids == {id[e] : e \in entries}
<1>1. IsFiniteSet(ids)
  <2>1. IsFiniteSet(entries)
    BY DEF FolioInv, EntriesOK
  <2> HIDE DEF id
  <2> QED BY <2>1, ImageFinite
<1>2. ASSUME NEW p \in Received PROVE p \in ids
  <2>1. PaymentEntry(p) \in entries /\ PaymentEntry(p).key[2] = p
    BY DEF Received, MoneyPosted, PaymentEntry, Entry
  <2>2. id[PaymentEntry(p)] = p
    BY <2>1
  <2> QED BY <2>1, <2>2
<1>3. ASSUME NEW f \in RefundRows PROVE f \in ids
  <2>1. RefundEntry(f) \in entries /\ RefundEntry(f).key[2] = f
    BY DEF RefundRows, MoneyPosted, RefundEntry, Entry
  <2>2. id[RefundEntry(f)] = f
    BY <2>1
  <2> QED BY <2>1, <2>2
<1>4. Received \subseteq ids /\ RefundRows \subseteq ids
  BY <1>2, <1>3
<1>5. \A p \in PaymentIds : {f \in RefundIds : refund_of[f].payment = p} \subseteq RefundRows
  BY FolioConstants DEF RefundRows
<1> HIDE DEF ids
<1>6. IsFiniteSet(Received) /\ IsFiniteSet(RefundRows)
  BY <1>1, <1>4, FS_Subset
<1> QED BY <1>5, <1>6, FS_Subset

\* What a step of the folios does to money and entries.
FolioMoves ==
    /\ entries \subseteq entries'
    /\ \/ payment_of' = payment_of /\ refund_of' = refund_of
       \/ \E u \in Staff, p \in PaymentIds, s \in Stays, amount \in Sums : Pay(u, p, s, amount)
       \/ \E u \in Staff, f \in RefundIds, p \in PaymentIds, amount \in Sums :
             Refund(u, f, p, amount)

LEMMA FolioMove == ASSUME FolioNext PROVE FolioMoves
<1>1. ASSUME NoPosting PROVE entries \subseteq entries'
  BY <1>1 DEF NoPosting
<1>2. ASSUME NEW new, Post(new) PROVE entries \subseteq entries'
  BY <1>2 DEF Post
<1>3. ASSUME NEW s, NEW new, PostToFolio(s, new) PROVE entries \subseteq entries'
  <2>1. PICK all : all = Charges(s) \cup new
    OBVIOUS
  <2> QED BY <1>2, <1>3, <2>1 DEF PostToFolio
<1>4. ASSUME NEW u \in Staff, PortalVat(u) \/ PortalCommercial(u) PROVE FolioMoves
  BY <1>1, <1>3, <1>4 DEF PortalVat, SetVat, PortalCommercial, RequestDiscount, ReviewDiscount,
                          DiscountStep, FolioMoves
<1>5. ASSUME NEW s \in Stays, NEW u \in Staff,
             PortalReservations(u, s) \/ BookingQuoteViewSet(u, s)
      PROVE  FolioMoves
  BY <1>1, <1>5 DEF PortalReservations, BookingQuoteViewSet, Book, StayStep, FolioMoves
<1>6. ASSUME NEW s \in Stays, NEW u \in Staff, PortalReservationAction(u, s) PROVE FolioMoves
  BY <1>1, <1>3, <1>6 DEF PortalReservationAction, Confirm, CheckIn, Leave, Cancel, Enters,
                          StayStep, FolioMoves
<1>7. ASSUME NEW s \in Stays, NEW u \in Staff, PortalReservationManage(u, s) PROVE FolioMoves
  <2>1. (\E new : Post(new)) /\ StayStep
    BY <1>7 DEF PortalReservationManage, Amend
  <2> QED BY <1>2, <2>1 DEF StayStep, FolioMoves
<1>8. ASSUME NEW s \in Stays, NEW u \in Staff, PortalBilling(u, s) PROVE FolioMoves
  BY <1>2, <1>8 DEF PortalBilling, Correct, FolioMoves
<1>9. ASSUME NEW o \in Orders, NEW u \in Staff,
             PortalServices(u, o) \/ ServiceOrderViewSet(u, o) \/ PortalServiceAction(u, o)
      PROVE  FolioMoves
  BY <1>1, <1>3, <1>9 DEF PortalServices, ServiceOrderViewSet, PortalServiceAction, CreateOrder,
                          ChangeItems, OrderEnters, CompleteOrder, OrderStep, FolioMoves
<1>10. ASSUME NEW u \in Staff, NEW s \in Stays, NEW p \in PaymentIds, NEW amount \in Sums,
              Pay(u, p, s, amount)
       PROVE  FolioMoves
  BY <1>3, <1>10 DEF Pay, FolioMoves
<1>11. ASSUME NEW u \in Staff, NEW f \in RefundIds, NEW p \in PaymentIds, NEW amount \in Sums,
              Refund(u, f, p, amount)
       PROVE  FolioMoves
  BY <1>2, <1>11 DEF Refund, FolioMoves
<1> QED BY <1>4, <1>5, <1>6, <1>7, <1>8, <1>9, <1>10, <1>11 DEF FolioNext

LEMMA PayMoney ==
    ASSUME FolioInv, MoneyPosted, entries \subseteq entries', NEW u \in Staff,
           NEW p \in PaymentIds, NEW s \in Stays, NEW amount \in Sums, Pay(u, p, s, amount)
    PROVE  MoneyPosted'
<1>1. /\ refund_of' = refund_of /\ payment_of[p].stay = None /\ s # None
      /\ payment_of'[p] = [stay |-> s, amount |-> amount]
      /\ \A x \in PaymentIds \ {p} : payment_of'[x] = payment_of[x]
  BY FolioConstants DEF Pay, FolioInv, FolioTypeOK
<1>2. amount \in Nat
  BY FolioConstants
<1>3. PaymentEntry(p)' \in entries'
  <2>1. PICK e : e = Entry(s, "payment", p, "payment", -amount)
    OBVIOUS
  <2>2. PostToFolio(s, {e})
    BY <2>1 DEF Pay
  <2>3. e \in entries'
    BY <2>2 DEF PostToFolio, Post
  <2> QED BY <1>1, <2>1, <2>3 DEF PaymentEntry
<1>4. \A x \in PaymentIds : payment_of'[x].stay # None => PaymentEntry(x)' \in entries'
  <2> SUFFICES ASSUME NEW x \in PaymentIds \ {p}, payment_of'[x].stay # None
               PROVE  PaymentEntry(x)' \in entries'
    BY <1>3
  <2>1. PaymentEntry(x)' = PaymentEntry(x)
    BY <1>1 DEF PaymentEntry
  <2> QED BY <1>1, <2>1 DEF MoneyPosted
<1>5. \A f \in RefundIds : refund_of[f].payment # None =>
         refund_of[f].payment \in PaymentIds \ {p}
  BY <1>1, MoneyRows DEF FolioInv, MoneyPosted
<1>6. \A f \in RefundIds : refund_of'[f].payment # None =>
         payment_of'[refund_of'[f].payment].stay # None /\ RefundEntry(f)' \in entries'
  <2> SUFFICES ASSUME NEW f \in RefundIds, refund_of[f].payment # None
               PROVE  /\ payment_of'[refund_of[f].payment].stay # None
                      /\ RefundEntry(f)' \in entries'
    BY <1>1
  <2>1. payment_of'[refund_of[f].payment] = payment_of[refund_of[f].payment]
    BY <1>1, <1>5
  <2>2. RefundEntry(f)' = RefundEntry(f)
    BY <1>1, <2>1 DEF RefundEntry
  <2> QED BY <2>1, <2>2 DEF MoneyPosted
<1>7. \A x \in PaymentIds : RefundedOf(x)' = RefundedOf(x)
  BY <1>1 DEF RefundedOf
<1>8. RefundedOf(p) = 0
  <2>1. {f \in RefundIds : refund_of[f].payment = p} = {}
    BY <1>5, FolioConstants
  <2> QED BY <2>1, SumNothing DEF RefundedOf
<1>9. \A x \in PaymentIds : RefundedOf(x)' <= payment_of'[x].amount
  BY <1>1, <1>2, <1>7, <1>8 DEF MoneyPosted
<1> QED BY <1>4, <1>6, <1>9 DEF MoneyPosted

LEMMA RefundMoney ==
    ASSUME FolioInv, MoneyPosted, entries \subseteq entries', NEW u \in Staff,
           NEW f \in RefundIds, NEW p \in PaymentIds, NEW amount \in Sums,
           Refund(u, f, p, amount)
    PROVE  MoneyPosted'
<1>1. /\ payment_of' = payment_of /\ payment_of[p].stay # None /\ refund_of[f].payment = None
      /\ refund_of'[f] = [payment |-> p, amount |-> amount]
      /\ \A x \in RefundIds \ {f} : refund_of'[x] = refund_of[x]
      /\ amount <= payment_of[p].amount - RefundedOf(p)
  BY DEF Refund, FolioInv, FolioTypeOK
<1>2. amount \in Nat /\ None \notin PaymentIds
  BY FolioConstants
<1>3. \A x \in PaymentIds : payment_of'[x].stay # None => PaymentEntry(x)' \in entries'
  BY <1>1 DEF MoneyPosted, PaymentEntry
<1>4. RefundEntry(f)' \in entries'
  <2>1. PICK e : e = Entry(payment_of[p].stay, "refund", f, "refund", amount)
    OBVIOUS
  <2>2. Post({e})
    BY <2>1 DEF Refund
  <2>3. e \in entries'
    BY <2>2 DEF Post
  <2> QED BY <1>1, <2>1, <2>3 DEF RefundEntry
<1>5. \A x \in RefundIds : refund_of'[x].payment # None =>
         payment_of'[refund_of'[x].payment].stay # None /\ RefundEntry(x)' \in entries'
  <2> SUFFICES ASSUME NEW x \in RefundIds \ {f}, refund_of[x].payment # None
               PROVE  /\ payment_of[refund_of[x].payment].stay # None
                      /\ RefundEntry(x)' \in entries'
    BY <1>1, <1>4
  <2>1. RefundEntry(x)' = RefundEntry(x)
    BY <1>1 DEF RefundEntry
  <2> QED BY <2>1 DEF MoneyPosted
<1> DEFINE w == [x \in RefundIds |-> refund_of[x].amount]
           v == [x \in RefundIds |-> refund_of'[x].amount]
           Of(x) == {g \in RefundIds : refund_of[g].payment = x}
<1>6. \A x \in PaymentIds : IsFiniteSet(Of(x)) /\ f \notin Of(x)
  BY <1>1, <1>2, MoneyFinite
<1>7. \A x \in PaymentIds : \A g \in Of(x) : w[g] \in Int /\ v[g] = w[g]
  BY <1>1, <1>2, MoneyRows DEF FolioInv
<1>8. v[f] = amount
  BY <1>1
<1>9. \A x \in PaymentIds :
         /\ RefundedOf(x) = SumFunctionOnSet(w, Of(x))
         /\ RefundedOf(x)' = SumFunctionOnSet(v, IF x = p THEN Of(x) \cup {f} ELSE Of(x))
  <2> SUFFICES ASSUME NEW x \in PaymentIds
               PROVE  /\ RefundedOf(x) = SumFunctionOnSet(w, Of(x))
                      /\ RefundedOf(x)' = SumFunctionOnSet(v, IF x = p THEN Of(x) \cup {f}
                                                                       ELSE Of(x))
    OBVIOUS
  <2>1. {g \in RefundIds : refund_of'[g].payment = x} = IF x = p THEN Of(x) \cup {f} ELSE Of(x)
    BY <1>1, <1>2
  <2> QED BY <2>1 DEF RefundedOf
<1> HIDE DEF w, v, Of
<1>10. RefundedOf(p)' = RefundedOf(p) + amount /\ RefundedOf(p) \in Int
  <2>1. RefundedOf(p) \in Int
    BY <1>6, <1>7, <1>9, SumInt
  <2>2. SumFunctionOnSet(v, Of(p) \cup {f}) = SumFunctionOnSet(w, Of(p)) + v[f]
    BY <1>2, <1>6, <1>7, <1>8, SumAdded
  <2> QED BY <1>8, <1>9, <2>1, <2>2
<1>11. \A x \in PaymentIds \ {p} : RefundedOf(x)' = RefundedOf(x)
  <2> SUFFICES ASSUME NEW x \in PaymentIds \ {p} PROVE RefundedOf(x)' = RefundedOf(x)
    OBVIOUS
  <2>1. SumFunctionOnSet(v, Of(x)) = SumFunctionOnSet(w, Of(x))
    BY <1>6, <1>7, SumSame
  <2> QED BY <1>9, <2>1
<1>12. \A x \in PaymentIds : RefundedOf(x)' <= payment_of'[x].amount
  <2>1. RefundedOf(p)' <= payment_of'[p].amount
    BY <1>1, <1>2, <1>10, MoneyRows DEF FolioInv
  <2> QED BY <1>1, <1>11, <2>1 DEF MoneyPosted
<1> QED BY <1>3, <1>5, <1>12 DEF MoneyPosted

LEMMA MoneyKept ==
    ASSUME MoneyPosted, entries \subseteq entries', payment_of' = payment_of,
           refund_of' = refund_of
    PROVE  MoneyPosted'
<1>1. /\ \A p \in PaymentIds : PaymentEntry(p)' = PaymentEntry(p) /\ RefundedOf(p)' = RefundedOf(p)
      /\ \A f \in RefundIds : RefundEntry(f)' = RefundEntry(f)
  BY DEF PaymentEntry, RefundEntry, RefundedOf
<1> QED BY <1>1 DEF MoneyPosted

\* What a step of the cases does to the journal, and to the kind of an expenditure.
CaseMoves ==
    /\ \A c \in Cases : case[c].kind = "expenditure" => case'[c].kind = "expenditure"
    /\ \/ journal' = journal
       \/ \E c \in Cases : /\ case[c].kind = "expenditure"
                           /\ journal \subseteq journal'
                           /\ journal' \subseteq journal \cup {ExpenseRow(c)}

LEMMA PaidIsExpenditure ==
    ASSUME NEW kind \in Kinds, "paid" \in StatesOf[kind]
    PROVE  kind = "expenditure"
  BY KindsListed DEF StatesOf, IncidentStates, LostFoundStates, InquiryStates, QueryStates,
     AlertStates, PrivacyStates, ExpenditureStates, AuditStates

LEMMA CaseMove == ASSUME CaseInv, CaseNext PROVE CaseMoves
<1>1. ASSUME case' = case, journal' = journal PROVE CaseMoves
  BY <1>1 DEF CaseMoves
<1>2. ASSUME NEW c \in Cases, NEW kind, NEW status, NEW u, OpenCase(c, kind, status, u)
      PROVE  CaseMoves
  <2>1. /\ case[c].kind = "none" /\ journal' = journal
        /\ \A o \in Cases \ {c} : case'[o] = case[o]
    BY <1>2 DEF OpenCase, NoCase, CaseInv, CaseRowsOK
  <2> QED BY <2>1 DEF CaseMoves
<1>3. ASSUME NEW d, NEW u, NEW c, NEW kind, Decide(d, u, c, kind) PROVE CaseMoves
  BY <1>1, <1>3 DEF Decide, BeginCase
<1>4. ASSUME NEW d, NEW c, EvaluateAlert(d, c) PROVE CaseMoves
  BY <1>1, <1>4 DEF EvaluateAlert, BeginCase
<1>5. ASSUME NEW d \in Desks, CommitCase(d) PROVE CaseMoves
  <2>1. PICK c \in Cases : c = desk[d].case /\ c # None
    BY <1>5, CommitRow DEF CommitCase
  <2>2. \A o \in Cases : case'[o].kind = case[o].kind
    BY <1>5, <2>1, CommitRow
  <2>3. CASE journal' = journal
    BY <2>2, <2>3 DEF CaseMoves
  <2>4. CASE desk[d].event.to = "paid" /\ PostJournal({ExpenseRow(c)})
    <3>1. CasePending(d)
      BY <2>1 DEF CaseInv
    <3>2. case[c].kind \in Kinds /\ "paid" \in StatesOf[case[c].kind]
      BY <2>1, <2>4, <3>1 DEF CasePending, CaseInv
    <3>3. case[c].kind = "expenditure"
      BY <3>2, PaidIsExpenditure
    <3>4. journal \subseteq journal' /\ journal' \subseteq journal \cup {ExpenseRow(c)}
      BY <2>4 DEF PostJournal
    <3> QED BY <2>2, <3>3, <3>4 DEF CaseMoves
  <2>5. \/ desk[d].event.to = "paid" /\ PostJournal({ExpenseRow(c)})
        \/ journal' = journal
    BY <1>5, <2>1 DEF CommitCase, ExpenseRow, ExpenseKey
  <2> QED BY <2>3, <2>4, <2>5
<1>6. ASSUME NEW d \in Desks, AbortCase(d) PROVE CaseMoves
  BY <1>1, <1>6 DEF AbortCase
<1>7. ASSUME NEW c \in Cases, CreateInquiry(c) \/ DetectAlert(c) PROVE CaseMoves
  BY <1>2, <1>7 DEF CreateInquiry, DetectAlert
<1>8. ASSUME NEW c \in Cases, NEW u \in Staff, FileRequest(u, c) \/ PortalOperations(u, c)
      PROVE  CaseMoves
  BY <1>2, <1>8 DEF FileRequest, PortalOperations
<1>9. ASSUME NEW c \in Cases, NEW u \in Staff, NEW d \in Desks,
             \/ PortalIncidentAction(d, u, c) \/ PortalLostFoundAction(d, u, c)
             \/ PortalInquiryDetail(d, u, c) \/ PortalManagement(d, u, c)
             \/ PortalManagementQuery(d, u, c) \/ PrivacyDesk(d, u, c)
             \/ PortalExpenditures(d, u, c) \/ PortalFinancialAudit(d, u, c)
      PROVE  CaseMoves
  <2>1. CASE ReplyInquiry(u, c)
    <3>1. \A o \in Cases : case'[o].kind = case[o].kind
      BY <2>1 DEF ReplyInquiry, CaseInv, CaseRowsOK, CaseRow
    <3> QED BY <2>1, <3>1 DEF ReplyInquiry, CaseMoves
  <2> QED BY <1>2, <1>3, <1>9, <2>1
          DEF PortalIncidentAction, PortalLostFoundAction, PortalInquiryDetail, PortalManagement,
              PortalManagementQuery, PrivacyDesk, PortalExpenditures, PortalFinancialAudit
<1> QED BY <1>4, <1>5, <1>6, <1>7, <1>8, <1>9 DEF CaseNext

LEMMA ExpenseKinds == \A c : ExpenseRow(c).key[1] \notin FolioKinds
  BY DEF ExpenseRow, ExpenseKey, FolioKinds

LEMMA ExpensesAfterFolio ==
    ASSUME ExpensesOnly, OnlyFolioRows, case' = case
    PROVE  ExpensesOnly'
<1>1. OtherRows' = OtherRows
  BY DEF OtherRows, FolioRows, OnlyFolioRows
<1> QED BY <1>1 DEF ExpensesOnly

LEMMA ExpensesAfterCase ==
    ASSUME ExpensesOnly, CaseMoves
    PROVE  ExpensesOnly'
<1>1. \A j \in OtherRows : \E c \in Cases : j = ExpenseRow(c) /\ case'[c].kind = "expenditure"
  BY DEF ExpensesOnly, CaseMoves
<1>2. CASE journal' = journal
  <2>1. OtherRows' = OtherRows
    BY <1>2 DEF OtherRows, FolioRows
  <2> QED BY <1>1, <2>1 DEF ExpensesOnly
<1>3. CASE journal' # journal
  <2>1. PICK c \in Cases : /\ case[c].kind = "expenditure"
                           /\ journal \subseteq journal'
                           /\ journal' \subseteq journal \cup {ExpenseRow(c)}
    BY <1>3 DEF CaseMoves
  <2>2. OtherRows' \subseteq OtherRows \cup {ExpenseRow(c)}
    BY <2>1 DEF OtherRows, FolioRows
  <2>3. IsFiniteSet(OtherRows')
    <3>1. IsFiniteSet(OtherRows \cup {ExpenseRow(c)})
      BY FS_AddElement DEF ExpensesOnly
    <3> QED BY <2>2, <3>1, FS_Subset
  <2>4. case'[c].kind = "expenditure"
    BY <2>1 DEF CaseMoves
  <2> QED BY <1>1, <2>2, <2>3, <2>4 DEF ExpensesOnly
<1> QED BY <1>2, <1>3

\* The invariant of the reports is kept by folios and cases, and nobody else writes what it
\* is about.
LEMMA ReportStep == SharedInv /\ ReportInv /\ [BackNext]_BackVars => ReportInv'
<1> SUFFICES ASSUME SharedInv, ReportInv, [BackNext]_BackVars PROVE ReportInv'
  OBVIOUS
<1>1. CASE UNCHANGED <<table, folioVars, caseVars>>
  <2>1. table' = table /\ OtherRows' = OtherRows /\ case' = case
    BY <1>1 DEF folioVars, caseVars, OtherRows, FolioRows
  <2>2. entries' = entries /\ payment_of' = payment_of /\ refund_of' = refund_of
    BY <1>1 DEF folioVars
  <2> QED BY <2>1, <2>2, MoneyKept DEF ReportInv, ExpensesOnly
<1>2. CASE Still("folio") /\ FolioNext
  <2>1. table' = table /\ case' = case
    BY <1>2 DEF Still
  <2>2. ExpensesOnly'
    BY <1>2, <2>1, FolioAdds, ExpensesAfterFolio DEF ReportInv
  <2>3. MoneyPosted'
    BY <1>2, FolioMove, MoneyKept, PayMoney, RefundMoney DEF FolioMoves, ReportInv, SharedInv
  <2> QED BY <2>1, <2>2, <2>3 DEF ReportInv
<1>3. CASE Still("casework") /\ CaseNext
  <2>1. table' = table /\ entries' = entries /\ payment_of' = payment_of /\ refund_of' = refund_of
    BY <1>3 DEF Still
  <2>2. ExpensesOnly'
    BY <1>3, CaseMove, ExpensesAfterCase DEF ReportInv, SharedInv
  <2> QED BY <2>1, <2>2, MoneyKept DEF ReportInv
<1>4. ASSUME NEW component \in Components \ {"folio", "casework"}, Still(component)
      PROVE  UNCHANGED <<table, folioVars, caseVars>>
  BY <1>4 DEF Still, folioVars, caseVars
<1>5. {"cashier", "stock", "contacts", "access", "audit", "guests", "books"}
      \subseteq Components \ {"folio", "casework"}
  BY DEF Components, Accounting
<1>6. UNCHANGED BackVars => UNCHANGED <<table, folioVars, caseVars>>
  BY DEF BackVars
<1> QED BY <1>1, <1>2, <1>3, <1>4, <1>5, <1>6 DEF BackNext

LEMMA ReportStarts == BackInit => ReportInv
<1> SUFFICES ASSUME BackInit PROVE ReportInv
  OBVIOUS
<1>1. table \in Tables
  <2>1. <<>> \in [1 .. 0 -> TableRow] /\ 0 \in 0 .. TableRows
    BY ReconciliationAssumption
  <2>2. \A k \in 2 .. 0 : FALSE
    OBVIOUS
  <2>3. <<>> \in Tables
    BY <2>1, <2>2 DEF Tables
  <2> QED BY <2>3 DEF BackInit
<1>2. ExpensesOnly
  <2>1. journal = {}
    BY DEF BackInit, FolioInit
  <2>2. OtherRows = {}
    BY <2>1 DEF OtherRows
  <2> QED BY <2>2, FS_EmptySet DEF ExpensesOnly
<1>3. MoneyPosted
  <2>1. /\ \A p \in PaymentIds : payment_of[p].stay = None /\ payment_of[p].amount = 0
        /\ \A f \in RefundIds : refund_of[f].payment = None
    BY DEF BackInit, FolioInit
  <2>2. \A p \in PaymentIds : RefundedOf(p) = 0
    <3>1. \A p \in PaymentIds : {f \in RefundIds : refund_of[f].payment = p} = {}
      BY <2>1, FolioConstants
    <3> QED BY <3>1, SumNothing DEF RefundedOf
  <2> QED BY <2>1, <2>2 DEF MoneyPosted
<1> QED BY <1>1, <1>2, <1>3 DEF ReportInv

\* In every state of the back office the rows the reports read fit each other.
THEOREM ReportInvariance == BackSpec => [](SharedInv /\ ReportInv)
<1>1. BackInit => SharedInv /\ ReportInv
  BY FolioStarts, CaseStarts, ReportStarts DEF BackInit, SharedInv
<1>2. SharedInv /\ ReportInv /\ [BackNext]_BackVars => (SharedInv /\ ReportInv)'
  BY SharedStep, ReportStep
<1> QED BY <1>1, <1>2, PTL DEF BackSpec

-----------------------------------------------------------------------------
(* What the reconciliation finds *)

Refunding == {e \in entries : e.type = "refund"}
Paying == {e \in entries : e.type = "payment"}

LEMMA EntryCause ==
    ASSUME FolioInv, NEW e \in entries
    PROVE  /\ IsEntry(e) /\ e.amount \in Int /\ e.amount # 0 /\ e.stay \in folios
           /\ e.type = "payment" => e.key[2] \in Received /\ e = PaymentEntry(e.key[2])
           /\ e.type = "refund" => e.key[2] \in RefundRows /\ e = RefundEntry(e.key[2])
           /\ e.type \in {"accommodation", "service", "tax"} => e.amount > 0
<1>1. Caused(e) /\ IsEntry(e) /\ e.amount \in Int /\ e.amount # 0 /\ e.stay \in folios
  BY DEF FolioInv, EntriesOK, Caused, IsEntry
<1>2. CASE PricePosted(e)
  BY <1>1, <1>2 DEF PricePosted, Entry
<1>3. CASE CancelPosted(e) \/ AmendmentPosted(e) \/ CorrectionPosted(e) \/ DiscountPosted(e)
  <2>1. e.type \in {"credit_note", "adjustment"}
    BY <1>3 DEF CancelPosted, AmendmentPosted, CorrectionPosted, DiscountPosted, DiscountEntry,
                Entry, CorrectionType
  <2> QED BY <1>1, <2>1
<1>4. CASE OrderPosted(e)
  <2>1. PICK o \in Orders : e = OrderEntry(o)
    BY <1>4 DEF OrderPosted
  <2>2. order[o].items \in Nat /\ ItemPrice \in Nat
    BY FolioConstants DEF FolioInv, FolioTypeOK, OrderRow
  <2>3. e.type = "service" /\ e.amount = order[o].items * ItemPrice
    BY <2>1 DEF OrderEntry, Entry, OrderTotal
  <2>4. order[o].items * ItemPrice \in Nat
    BY <2>2
  <2> QED BY <1>1, <2>3, <2>4
<1>5. CASE PaymentPosted(e)
  <2>1. PICK p \in Received : e = PaymentEntry(p)
    BY <1>5 DEF PaymentPosted, Received, PaymentEntry
  <2>2. e.type = "payment" /\ e.key[2] = p
    BY <2>1 DEF PaymentEntry, Entry
  <2> QED BY <1>1, <2>1, <2>2
<1>6. CASE RefundPosted(e)
  <2>1. PICK f \in RefundRows : e = RefundEntry(f)
    BY <1>6 DEF RefundPosted, RefundRows, RefundEntry
  <2>2. e.type = "refund" /\ e.key[2] = f
    BY <2>1 DEF RefundEntry, Entry
  <2> QED BY <1>1, <2>1, <2>2
<1> QED BY <1>1, <1>2, <1>3, <1>4, <1>5, <1>6 DEF Caused

LEMMA Journaled ==
    ASSUME FolioInv, NEW e \in entries
    PROVE  JournalOf(e) \in journal /\ Posted(JournalKey(e))
<1>1. JournalOf(e) \in journal /\ JournalOf(e).key = JournalKey(e)
  BY DEF FolioInv, EntriesOK, FolioRows, JournalOf
<1> QED BY <1>1 DEF Posted

LEMMA AccountsFinite == IsFiniteSet(Accounts)
<1> DEFINE s1 == {"1010"}
           s2 == s1 \cup {"1020"}
           s3 == s2 \cup {"1100"}
           s4 == s3 \cup {"1150"}
           s5 == s4 \cup {"2100"}
           s6 == s5 \cup {"4000"}
           s7 == s6 \cup {"4100"}
           s8 == s7 \cup {"4200"}
           s9 == s8 \cup {"5100"}
<1>1. Accounts = s9
  BY DEF Accounts
<1>2. IsFiniteSet(s1)
  BY FS_Singleton
<1>3. IsFiniteSet(s5)
  BY <1>2, FS_AddElement
<1>4. IsFiniteSet(s9)
  <2> HIDE DEF s5
  <2> QED BY <1>3, FS_AddElement
<1> QED BY <1>1, <1>4

\* A journal entry moves an amount from one account to another.
LEMMA ContraAccount ==
    ASSUME FolioInv, NEW e \in entries
    PROVE  /\ Contra(e) \in Accounts \ {"1100"}
           /\ Contra(e) \in {"1010", "1020"} <=> e.type \in {"payment", "refund"}
           /\ Contra(e) = "4000" <=> e.type = "accommodation"
           /\ Contra(e) = "4100" <=> e.type = "service"
           /\ Contra(e) = "2100" <=> e.type = "tax"
           /\ Contra(e) # "1150"
<1>1. e.type \in EntryTypes
  BY EntryCause DEF IsEntry
<1>2. CASE e.type \in {"payment", "refund"}
  <2>1. Contra(e) \in {"1010", "1020"}
    BY <1>2 DEF Contra, Till
  <2> QED BY <1>2, <2>1 DEF Accounts
<1>3. CASE e.type \in EntryTypes \ {"payment", "refund"}
  <2>1. Contra(e) = IF e.type = "accommodation" THEN "4000"
                    ELSE IF e.type = "service" THEN "4100"
                    ELSE IF e.type = "tax" THEN "2100" ELSE "4200"
    BY <1>3 DEF Contra, RevenueAccount
  <2> QED BY <1>3, <2>1 DEF Accounts
<1> QED BY <1>1, <1>2, <1>3

LEMMA LinesOfEntry ==
    ASSUME FolioInv, NEW e \in entries
    PROVE  \A a \in Accounts : JournalOf(e).lines[a]
              = IF a = "1100" THEN e.amount ELSE IF a = Contra(e) THEN -e.amount ELSE 0
  BY DEF JournalOf, Moves

LEMMA LinesOfExpense ==
    /\ ExpenseLines["5100"] = NetSum /\ ExpenseLines["1150"] = TaxSum
    /\ \A a \in {"1100", "2100", "4000", "4100", "4200"} : ExpenseLines[a] = 0
    /\ ExpenseLines["1010"] + ExpenseLines["1020"] = -(NetSum + TaxSum)
    /\ \E a \in {"1010", "1020"} : /\ ExpenseLines[a] = -(NetSum + TaxSum)
                                   /\ \A b \in {"1010", "1020"} \ {a} : ExpenseLines[b] = 0
    /\ NetSum \in Nat /\ NetSum > 0 /\ TaxSum \in Nat
<1>1. NetSum \in Nat /\ NetSum > 0 /\ TaxSum \in Nat
  BY CaseworkAssumption
<1>2. \A a \in Accounts : ExpenseLines[a] =
         IF a = "5100" THEN NetSum
         ELSE IF a = "1150" THEN TaxSum
         ELSE IF a = (IF PaidWith = "cash" THEN "1010" ELSE "1020") THEN -(NetSum + TaxSum)
         ELSE 0
  BY DEF ExpenseLines
<1>3. /\ ExpenseLines["5100"] = NetSum /\ ExpenseLines["1150"] = TaxSum
      /\ \A a \in {"1100", "2100", "4000", "4100", "4200"} : ExpenseLines[a] = 0
  BY <1>2 DEF Accounts
<1>4. CASE PaidWith = "cash"
  <2>1. ExpenseLines["1010"] = -(NetSum + TaxSum) /\ ExpenseLines["1020"] = 0
    BY <1>2, <1>4 DEF Accounts
  <2> QED BY <1>1, <1>3, <2>1
<1>5. CASE PaidWith # "cash"
  <2>1. ExpenseLines["1020"] = -(NetSum + TaxSum) /\ ExpenseLines["1010"] = 0
    BY <1>2, <1>5 DEF Accounts
  <2> QED BY <1>1, <1>3, <2>1
<1> QED BY <1>4, <1>5

\* The journal: the rows of the folios and those of the paid expenditures.
LEMMA JournalParts ==
    ASSUME FolioInv, CaseInv, ExpensesOnly
    PROVE  /\ FolioRows = {JournalOf(e) : e \in entries}
           /\ OtherRows = {ExpenseRow(c) : c \in PaidExpenses}
           /\ journal = FolioRows \cup OtherRows /\ FolioRows \cap OtherRows = {}
           /\ IsFiniteSet(FolioRows) /\ IsFiniteSet(OtherRows) /\ IsFiniteSet(PaidExpenses)
<1>1. FolioRows = {JournalOf(e) : e \in entries} /\ IsFiniteSet(entries)
  BY DEF FolioInv, EntriesOK
<1>2. journal = FolioRows \cup OtherRows /\ FolioRows \cap OtherRows = {}
  BY DEF OtherRows, FolioRows
<1>3. \A c, d : ExpenseRow(c).key = ExpenseRow(d).key => c = d
  BY DEF ExpenseRow, ExpenseKey
<1>4. ASSUME NEW c \in Cases, case[c].kind = "expenditure"
      PROVE  Posted(ExpenseKey(c)) <=> c \in PaidExpenses
  <2>1. case[c] # NoCase
    BY <1>4 DEF NoCase
  <2> QED BY <1>4, <2>1 DEF CaseInv, CaseExplained, PaidExpenses, Expenditures
<1>5. ASSUME NEW j \in OtherRows PROVE \E c \in PaidExpenses : j = ExpenseRow(c)
  <2>1. PICK c \in Cases : j = ExpenseRow(c) /\ case[c].kind = "expenditure"
    BY DEF ExpensesOnly
  <2>2. Posted(ExpenseKey(c))
    BY <2>1 DEF OtherRows, Posted, ExpenseRow
  <2> QED BY <1>4, <2>1, <2>2
<1>6. ASSUME NEW c \in PaidExpenses PROVE ExpenseRow(c) \in OtherRows
  <2>1. c \in Cases /\ case[c].kind = "expenditure"
    BY DEF PaidExpenses, Expenditures
  <2>2. PICK j \in journal : j.key = ExpenseRow(c).key
    BY <1>4, <2>1 DEF Posted, ExpenseRow
  <2>3. j \in OtherRows
    BY <2>2, ExpenseKinds DEF OtherRows, FolioRows
  <2>4. PICK d \in Cases : j = ExpenseRow(d)
    BY <2>3 DEF ExpensesOnly
  <2> QED BY <1>3, <2>2, <2>3, <2>4
<1>7. OtherRows = {ExpenseRow(c) : c \in PaidExpenses}
  BY <1>5, <1>6
<1>8. IsFiniteSet(FolioRows)
  <2> DEFINE h == [e \in entries |-> JournalOf(e)]
  <2>1. {h[e] : e \in entries} = FolioRows
    BY <1>1
  <2> HIDE DEF h
  <2> QED BY <1>1, <2>1, ImageFinite
<1>9. IsFiniteSet(PaidExpenses)
  <2> DEFINE h == [j \in OtherRows |-> j.key[2]]
             ids == {h[j] : j \in OtherRows}
  <2>1. ASSUME NEW c \in PaidExpenses PROVE c \in ids
    <3>1. h[ExpenseRow(c)] = c
      BY <1>6 DEF ExpenseRow, ExpenseKey
    <3> QED BY <1>6, <3>1
  <2>2. IsFiniteSet(OtherRows)
    BY DEF ExpensesOnly
  <2>3. IsFiniteSet(ids)
    <3> HIDE DEF h
    <3> QED BY <2>2, ImageFinite
  <2>4. PaidExpenses \subseteq ids
    BY <2>1
  <2> HIDE DEF ids
  <2> QED BY <2>3, <2>4, FS_Subset
<1>10. IsFiniteSet(OtherRows)
  BY DEF ExpensesOnly
<1> QED BY <1>1, <1>2, <1>7, <1>8, <1>9, <1>10

LEMMA NoUnjournaled ==
    ASSUME SharedInv, ReportInv
    PROVE  UnjournaledPayments = {} /\ UnjournaledCharges = {} /\ UnjournaledExpenses = {}
<1>1. ASSUME NEW p \in Received PROVE Posted(<<"receipt", p, payment_of[p].amount>>)
  <2>1. payment_of[p].amount \in Nat
    BY MoneyRows DEF SharedInv, FolioInv, Received
  <2>2. PaymentEntry(p) \in entries
    BY DEF ReportInv, MoneyPosted, Received
  <2>3. JournalKey(PaymentEntry(p)) = <<"receipt", p, payment_of[p].amount>>
    BY <2>1 DEF JournalKey, PaymentEntry, Entry
  <2> QED BY <2>2, <2>3, Journaled DEF SharedInv
<1>2. ASSUME NEW e \in ChargeEntries PROVE Posted(<<"folio-journal", e.key>>)
  <2>1. JournalKey(e) = <<"folio-journal", e.key>> /\ e \in entries
    BY DEF JournalKey, ChargeEntries
  <2> QED BY <2>1, Journaled DEF SharedInv
<1>3. ASSUME NEW c \in PaidExpenses PROVE Posted(<<"expenditure-journal", c>>)
  <2>1. c \in Cases /\ case[c] # NoCase /\ case[c].kind = "expenditure" /\ case[c].status = "paid"
    BY DEF PaidExpenses, Expenditures, NoCase
  <2> QED BY <2>1 DEF SharedInv, CaseInv, CaseExplained, ExpenseKey
<1>4. CompletedPayments \subseteq Received
  BY DEF CompletedPayments, Received
<1> QED BY <1>1, <1>2, <1>3, <1>4
        DEF UnjournaledPayments, UnjournaledCharges, UnjournaledExpenses

LEMMA EntryBalanced ==
    ASSUME FolioInv, NEW e \in entries
    PROVE  Debits(JournalOf(e)) > 0 /\ Debits(JournalOf(e)) = Credits(JournalOf(e))
<1> DEFINE lines == JournalOf(e).lines
           other == Contra(e)
           n == e.amount
<1>1. /\ n \in Int /\ n # 0 /\ other \in Accounts /\ other # "1100" /\ "1100" \in Accounts
      /\ \A a \in Accounts : lines[a] = IF a = "1100" THEN n ELSE IF a = other THEN -n ELSE 0
  BY EntryCause, ContraAccount, LinesOfEntry DEF Accounts
<1>2. /\ Debits(JournalOf(e)) = SumFunctionOnSet(lines, {a \in Accounts : lines[a] > 0})
      /\ Credits(JournalOf(e)) = -SumFunctionOnSet(lines, {a \in Accounts : lines[a] < 0})
  BY DEF Debits, Credits
<1> HIDE DEF lines, other, n
<1>3. lines["1100"] = n /\ lines[other] = -n /\ \A a \in Accounts \ {"1100", other} : lines[a] = 0
  BY <1>1
<1>4. SumFunctionOnSet(lines, {"1100"}) = n /\ SumFunctionOnSet(lines, {other}) = -n
  BY <1>1, <1>3, SumSingle
<1>5. CASE n > 0
  <2>1. /\ {a \in Accounts : lines[a] > 0} = {"1100"}
        /\ {a \in Accounts : lines[a] < 0} = {other}
    BY <1>1, <1>3, <1>5
  <2> QED BY <1>1, <1>2, <1>4, <1>5, <2>1
<1>6. CASE n < 0
  <2>1. /\ {a \in Accounts : lines[a] < 0} = {"1100"}
        /\ {a \in Accounts : lines[a] > 0} = {other}
    BY <1>1, <1>3, <1>6
  <2> QED BY <1>1, <1>2, <1>4, <1>6, <2>1
<1> QED BY <1>1, <1>5, <1>6

LEMMA ExpenseBalanced ==
    ASSUME NEW c
    PROVE  Debits(ExpenseRow(c)) > 0 /\ Debits(ExpenseRow(c)) = Credits(ExpenseRow(c))
<1> DEFINE lines == ExpenseLines
           all == NetSum + TaxSum
<1>1. /\ Debits(ExpenseRow(c)) = SumFunctionOnSet(lines, {a \in Accounts : lines[a] > 0})
      /\ Credits(ExpenseRow(c)) = -SumFunctionOnSet(lines, {a \in Accounts : lines[a] < 0})
  BY DEF Debits, Credits, ExpenseRow
<1>2. NetSum \in Nat /\ NetSum > 0 /\ TaxSum \in Nat /\ all \in Nat /\ all > 0
  BY LinesOfExpense
<1>3. PICK till \in {"1010", "1020"} :
         /\ lines[till] = -all /\ \A b \in {"1010", "1020"} \ {till} : lines[b] = 0
  BY LinesOfExpense
<1>4. /\ lines["5100"] = NetSum /\ lines["1150"] = TaxSum
      /\ \A a \in Accounts \ {"5100", "1150", till} : lines[a] = 0
      /\ {"5100", "1150", till} \subseteq Accounts
  BY <1>3, LinesOfExpense DEF Accounts
<1>5. all = NetSum + TaxSum
  OBVIOUS
<1> HIDE DEF lines, all
<1>6. SumFunctionOnSet(lines, {till}) = -all
  BY <1>2, <1>3, SumSingle
<1>7. {a \in Accounts : lines[a] < 0} = {till}
  BY <1>2, <1>3, <1>4
<1>8. SumFunctionOnSet(lines, {a \in Accounts : lines[a] > 0}) = all
  <2>1. SumFunctionOnSet(lines, {"5100"}) = NetSum /\ SumFunctionOnSet(lines, {"1150"}) = TaxSum
    BY <1>2, <1>4, SumSingle
  <2>2. CASE TaxSum = 0
    <3>1. {a \in Accounts : lines[a] > 0} = {"5100"}
      BY <1>2, <1>3, <1>4, <2>2
    <3> QED BY <1>2, <1>5, <2>1, <2>2, <3>1
  <2>3. CASE TaxSum # 0
    <3>1. {a \in Accounts : lines[a] > 0} = {"5100"} \cup {"1150"}
      BY <1>2, <1>3, <1>4, <2>3
    <3>2. IsFiniteSet({"5100"}) /\ IsFiniteSet({"1150"}) /\ {"5100"} \cap {"1150"} = {}
      BY FS_Singleton
    <3>3. \A a \in {"5100"} \cup {"1150"} : lines[a] \in Int
      BY <1>2, <1>4
    <3>4. SumFunctionOnSet(lines, {"5100"} \cup {"1150"}) = NetSum + TaxSum
      BY <2>1, <3>2, <3>3, SumUnion
    <3> QED BY <1>5, <3>1, <3>4
  <2> QED BY <2>2, <2>3
<1> QED BY <1>1, <1>2, <1>6, <1>7, <1>8

LEMMA NoUnbalanced == ASSUME SharedInv, ReportInv PROVE Unbalanced = {}
<1>1. ASSUME NEW j \in journal PROVE Debits(j) > 0 /\ Debits(j) = Credits(j)
  <2>1. (\E e \in entries : j = JournalOf(e)) \/ \E c \in PaidExpenses : j = ExpenseRow(c)
    BY JournalParts DEF SharedInv, ReportInv
  <2> QED BY <2>1, EntryBalanced, ExpenseBalanced DEF SharedInv
<1>2. \A j \in journal : Debits(j) \in Int
  <2> SUFFICES ASSUME NEW j \in journal PROVE Debits(j) \in Int
    OBVIOUS
  <2>1. IsJournalEntry(j)
    BY DEF SharedInv, FolioInv, FolioTypeOK
  <2>2. \A a \in Accounts : j.lines[a] \in Int
    BY <2>1 DEF IsJournalEntry, Lines
  <2>3. IsFiniteSet({a \in Accounts : j.lines[a] > 0})
    <3>1. IsFiniteSet(Accounts)
      BY AccountsFinite
    <3> QED BY <3>1, FS_Subset
  <2>4. \A a \in {b \in Accounts : j.lines[b] > 0} : j.lines[a] \in Int
    BY <2>2
  <2> QED BY <2>3, <2>4, SumInt DEF Debits
<1> QED BY <1>1, <1>2 DEF Unbalanced

\* The other reports of missing or wrong rows.
LEMMA NothingMissing ==
    ASSUME SharedInv, ReportInv
    PROVE  /\ \A p \in CompletedPayments : /\ payment_of[p].stay \in folios
                                           /\ Keyed(<<"payment", p>>)
           /\ \A f \in RefundRows : Posted(<<"refund", refund_of[f].payment, f>>)
           /\ \A p \in PaymentIds : ~(RefundedOf(p) > payment_of[p].amount)
           /\ \A c \in Expenditures : history[c] # <<>>
<1>1. ASSUME NEW p \in CompletedPayments
      PROVE  payment_of[p].stay \in folios /\ Keyed(<<"payment", p>>)
  <2>1. PaymentEntry(p) \in entries
    BY DEF ReportInv, MoneyPosted, CompletedPayments
  <2>2. PaymentEntry(p).stay = payment_of[p].stay /\ PaymentEntry(p).key = <<"payment", p>>
    BY DEF PaymentEntry, Entry
  <2>3. PaymentEntry(p).stay \in folios
    BY <2>1, EntryCause DEF SharedInv
  <2> QED BY <2>1, <2>2, <2>3 DEF Keyed
<1>2. ASSUME NEW f \in RefundRows PROVE Posted(<<"refund", refund_of[f].payment, f>>)
  <2>1. RefundEntry(f) \in entries
    BY DEF ReportInv, MoneyPosted, RefundRows
  <2>2. JournalKey(RefundEntry(f)) = <<"refund", refund_of[f].payment, f>>
    BY DEF JournalKey, RefundEntry, Entry
  <2> QED BY <2>1, <2>2, Journaled DEF SharedInv
<1>3. \A p \in PaymentIds : ~(RefundedOf(p) > payment_of[p].amount)
  <2> SUFFICES ASSUME NEW p \in PaymentIds PROVE ~(RefundedOf(p) > payment_of[p].amount)
    OBVIOUS
  <2> DEFINE w == [f \in RefundIds |-> refund_of[f].amount]
             S == {f \in RefundIds : refund_of[f].payment = p}
  <2>1. IsFiniteSet(S) /\ \A f \in S : w[f] \in Int
    BY MoneyFinite, MoneyRows DEF SharedInv, ReportInv, FolioInv
  <2>2. RefundedOf(p) = SumFunctionOnSet(w, S)
    BY DEF RefundedOf
  <2> HIDE DEF w, S
  <2>3. RefundedOf(p) \in Int
    BY <2>1, <2>2, SumInt
  <2>4. payment_of[p].amount \in Nat /\ RefundedOf(p) <= payment_of[p].amount
    BY MoneyRows DEF SharedInv, FolioInv, ReportInv, MoneyPosted
  <2> QED BY <2>3, <2>4
<1>4. ASSUME NEW c \in Expenditures PROVE history[c] # <<>>
  <2>1. c \in Cases /\ case[c] # NoCase
    BY DEF Expenditures, NoCase
  <2> QED BY <2>1 DEF SharedInv, CaseInv
<1> QED BY <1>1, <1>2, <1>3, <1>4

\* The payments of the cashier, also those that were not taken.
LEMMA NoOverage == ASSUME IInv PROVE \A p \in Payments : ~(Refunded(p) > payment[p].amount)
<1> SUFFICES ASSUME NEW p \in Payments PROVE ~(Refunded(p) > payment[p].amount)
  OBVIOUS
<1>1. payment[p].amount \in Nat /\ Refunded(p) \in Nat
  BY SumTypes DEF IInv, DrawerInv, TypeOK, PaymentRow
<1>2. CASE payment[p].status = "none"
  <2>1. {f \in Refunds : refund[f].payment = p} = {}
    BY <1>2, NoneAssumption DEF IInv, DrawerInv, RowsExist
  <2>2. Refunded(p) = 0
    BY <2>1, SumNothing DEF Refunded
  <2> QED BY <1>1, <2>2
<1>3. CASE payment[p].status # "none"
  BY <1>1, <1>3 DEF IInv, PaymentsTrue
<1> QED BY <1>2, <1>3

LEMMA IssuesEmpty ==
    ASSUME SharedInv, ReportInv, IInv, StockInv
    PROVE  \A issue \in DOMAIN Issues \ {"reservation_conflicts"} : Issues[issue] = {}
<1> DEFINE fields == {"payments_missing_folio", "payments_missing_ledger_entry",
               "payments_missing_journal", "refunds_missing_journal",
               "charges_missing_journal", "refund_overages", "unbalanced_journals",
               "paid_expenditures_missing_journal", "expenditures_missing_status_event",
               "negative_stock"}
<1>1. DOMAIN Issues \ {"reservation_conflicts"} = fields
  BY DEF Issues
<1>2. /\ Issues.payments_missing_folio = {} /\ Issues.payments_missing_ledger_entry = {}
      /\ Issues.refunds_missing_journal = {} /\ Issues.expenditures_missing_status_event = {}
  BY NothingMissing DEF Issues, PaymentsOffFolio
<1>3. /\ Issues.payments_missing_journal = {} /\ Issues.charges_missing_journal = {}
      /\ Issues.paid_expenditures_missing_journal = {}
  BY NoUnjournaled DEF Issues
<1>4. Issues.refund_overages = {}
  BY NothingMissing, NoOverage DEF Issues
<1>5. Issues.unbalanced_journals = {}
  BY NoUnbalanced DEF Issues
<1>6. Issues.negative_stock = {}
  <2>1. \A il \in Items \X Locations : balance[il] \in Nat
    BY DEF StockInv
  <2>2. \A n \in Nat : ~(n < 0)
    OBVIOUS
  <2> QED BY <2>1, <2>2 DEF Issues
<1> HIDE DEF fields
<1> QED BY <1>1, <1>2, <1>3, <1>4, <1>5, <1>6 DEF fields

-----------------------------------------------------------------------------
(* The figures *)

\* What the rows of the folios put on an account.
EntrySum(a) == SumFunctionOnSet([e \in entries |-> JournalOf(e).lines[a]], entries)

LEMMA EntryWeights ==
    ASSUME FolioInv, NEW a \in Accounts
    PROVE  \A e \in entries : JournalOf(e).lines[a] \in Int
<1> SUFFICES ASSUME NEW e \in entries PROVE JournalOf(e).lines[a] \in Int
  OBVIOUS
<1>1. e.amount \in Int
  BY EntryCause
<1> QED BY <1>1, LinesOfEntry

LEMMA ExpenseWeights == \A a \in Accounts : ExpenseLines[a] \in Int
<1>1. NetSum \in Nat /\ TaxSum \in Nat
  BY CaseworkAssumption
<1> QED BY <1>1 DEF ExpenseLines

\* An account is what the folios and the paid expenditures put on it.
LEMMA AccountSplit ==
    ASSUME SharedInv, ReportInv, NEW a \in Accounts
    PROVE  /\ AccountSum(a) = EntrySum(a) + Cardinality(PaidExpenses) * ExpenseLines[a]
           /\ EntrySum(a) \in Int /\ Cardinality(PaidExpenses) \in Nat /\ ExpenseLines[a] \in Int
<1> DEFINE w == [j \in journal |-> j.lines[a]]
           v == [e \in entries |-> JournalOf(e).lines[a]]
           h == [e \in entries |-> JournalOf(e)]
           u == [c \in PaidExpenses |-> ExpenseLines[a]]
           k == [c \in PaidExpenses |-> ExpenseRow(c)]
<1>1. /\ FolioRows = {JournalOf(e) : e \in entries}
      /\ OtherRows = {ExpenseRow(c) : c \in PaidExpenses}
      /\ journal = FolioRows \cup OtherRows /\ FolioRows \cap OtherRows = {}
      /\ IsFiniteSet(FolioRows) /\ IsFiniteSet(OtherRows) /\ IsFiniteSet(PaidExpenses)
      /\ IsFiniteSet(entries)
  BY JournalParts DEF SharedInv, ReportInv, FolioInv, EntriesOK
<1>2. \A e \in entries : JournalOf(e).lines[a] \in Int
  BY EntryWeights DEF SharedInv
<1>3. ExpenseLines[a] \in Int
  BY ExpenseWeights
<1>4. FolioRows = {h[e] : e \in entries} /\ OtherRows = {k[c] : c \in PaidExpenses}
  BY <1>1
<1>5. \A e, f \in entries : h[e] = h[f] => e = f
  BY FoliosJournaled DEF SharedInv, EachEntryJournaled, JournalOf
<1>6. \A c, d \in PaidExpenses : k[c] = k[d] => c = d
  BY DEF ExpenseRow, ExpenseKey
<1>7. \A e \in entries : v[e] = w[h[e]] /\ v[e] \in Int
  BY <1>1, <1>2
<1>8. \A c \in PaidExpenses : u[c] = w[k[c]] /\ u[c] \in Int /\ u[c] = ExpenseLines[a]
  BY <1>1, <1>3 DEF ExpenseRow
<1>9. AccountSum(a) = SumFunctionOnSet(w, journal) /\ EntrySum(a) = SumFunctionOnSet(v, entries)
  BY DEF AccountSum, EntrySum
<1> HIDE DEF w, v, h, u, k
<1>10. SumFunctionOnSet(w, FolioRows) = SumFunctionOnSet(v, entries)
  <2>1. IsFiniteSet(entries)
    BY <1>1
  <2>2. SumFunctionOnSet(w, {h[e] : e \in entries}) = SumFunctionOnSet(v, entries)
    BY <1>5, <1>7, <2>1, SumImage
  <2> QED BY <1>4, <2>2
<1>11. SumFunctionOnSet(w, OtherRows) = SumFunctionOnSet(u, PaidExpenses)
  <2>1. IsFiniteSet(PaidExpenses)
    BY <1>1
  <2>2. SumFunctionOnSet(w, {k[c] : c \in PaidExpenses}) = SumFunctionOnSet(u, PaidExpenses)
    BY <1>6, <1>8, <2>1, SumImage
  <2> QED BY <1>4, <2>2
<1>12. SumFunctionOnSet(u, PaidExpenses) = Cardinality(PaidExpenses) * ExpenseLines[a]
  BY <1>1, <1>3, <1>8, SumConstant
<1>13. \A j \in FolioRows \cup OtherRows : w[j] \in Int
  BY <1>4, <1>7, <1>8
<1>14. SumFunctionOnSet(w, FolioRows \cup OtherRows)
       = SumFunctionOnSet(w, FolioRows) + SumFunctionOnSet(w, OtherRows)
  BY <1>1, <1>13, SumUnion
<1>15. SumFunctionOnSet(v, entries) \in Int
  BY <1>1, <1>7, SumInt
<1>16. Cardinality(PaidExpenses) \in Nat
  BY <1>1, FS_CardinalityType
<1> QED BY <1>1, <1>3, <1>9, <1>10, <1>11, <1>12, <1>14, <1>15, <1>16

\* A revenue or tax account is credited what the folios charge under its type.
LEMMA ChargesCredited ==
    ASSUME FolioInv, NEW type \in {"accommodation", "service", "tax"}, NEW a \in Accounts \ {"1100"},
           \A e \in entries : Contra(e) = a <=> e.type = type
    PROVE  EntrySum(a) = -Charged(type) /\ Charged(type) \in Int
<1> DEFINE T == {e \in entries : e.type = type /\ e.amount > 0}
           v == [e \in entries |-> JournalOf(e).lines[a]]
           u == [e \in T |-> e.amount]
<1>1. IsFiniteSet(entries) /\ T \in SUBSET entries /\ IsFiniteSet(T)
  BY FS_Subset DEF FolioInv, EntriesOK
<1>2. \A e \in entries : e.amount \in Int /\ (e.type = type => e.amount > 0)
  BY EntryCause
<1>3. \A e \in entries : v[e] = IF e.type = type THEN -e.amount ELSE 0
  BY LinesOfEntry
<1>4. /\ \A e \in T : u[e] \in Int /\ v[e] = -u[e] /\ v[e] \in Int
      /\ \A e \in entries \ T : v[e] = 0
  BY <1>2, <1>3
<1>5. EntrySum(a) = SumFunctionOnSet(v, entries) /\ Charged(type) = SumFunctionOnSet(u, T)
  BY DEF EntrySum, Charged, SumOf
<1> HIDE DEF T, u, v
<1>6. SumFunctionOnSet(v, entries) = SumFunctionOnSet(v, T)
  BY <1>1, <1>4, SumSubset
<1>7. SumFunctionOnSet(v, T) = -SumFunctionOnSet(u, T) /\ SumFunctionOnSet(u, T) \in Int
  BY <1>1, <1>4, SumNegated
<1> QED BY <1>5, <1>6, <1>7

\* The receivables are what the folios come to, and no folio has recoverable tax.
LEMMA FolioBalances ==
    ASSUME FolioInv
    PROVE  EntrySum("1100") = SumOf(entries) /\ EntrySum("1150") = 0
<1>1. IsFiniteSet(entries) /\ "1100" \in Accounts /\ "1150" \in Accounts
  BY DEF FolioInv, EntriesOK, Accounts
<1>2. EntrySum("1100") = SumOf(entries)
  <2> DEFINE v == [e \in entries |-> JournalOf(e).lines["1100"]]
             u == [e \in entries |-> e.amount]
  <2>1. \A e \in entries : v[e] = u[e]
    BY <1>1, LinesOfEntry
  <2> HIDE DEF v, u
  <2>2. SumFunctionOnSet(v, entries) = SumFunctionOnSet(u, entries)
    BY <1>1, <2>1, SumSame
  <2> QED BY <2>2 DEF EntrySum, SumOf, v, u
<1>3. EntrySum("1150") = 0
  <2> DEFINE v == [e \in entries |-> JournalOf(e).lines["1150"]]
  <2>1. \A e \in entries : v[e] = 0
    BY <1>1, LinesOfEntry, ContraAccount
  <2> HIDE DEF v
  <2>2. SumFunctionOnSet(v, entries) = 0
    BY <1>1, <2>1, SumZeros
  <2> QED BY <2>2 DEF EntrySum, v
<1> QED BY <1>2, <1>3

\* The tills are debited what was paid, and credited what was refunded.
LEMMA TillsCollect ==
    ASSUME FolioInv, MoneyPosted
    PROVE  /\ EntrySum("1010") + EntrySum("1020") = AmountOf(Received) - RefundSum
           /\ AmountOf(Received) \in Int /\ RefundSum \in Int
           /\ EntrySum("1010") \in Int /\ EntrySum("1020") \in Int
<1> DEFINE u == [e \in entries |-> JournalOf(e).lines["1010"]]
           v == [e \in entries |-> JournalOf(e).lines["1020"]]
           w == [e \in entries |-> u[e] + v[e]]
           amount == [p \in PaymentIds |-> payment_of[p].amount]
           back == [f \in RefundIds |-> refund_of[f].amount]
           minus == [f \in RefundIds |-> -back[f]]
           h == [p \in Received |-> PaymentEntry(p)]
           k == [f \in RefundRows |-> RefundEntry(f)]
<1>1. /\ IsFiniteSet(entries) /\ Paying \in SUBSET entries /\ Refunding \in SUBSET entries
      /\ IsFiniteSet(Paying) /\ IsFiniteSet(Refunding) /\ Paying \cap Refunding = {}
      /\ IsFiniteSet(Received) /\ IsFiniteSet(RefundRows)
      /\ "1010" \in Accounts /\ "1020" \in Accounts
  BY FS_Subset, MoneyFinite DEF FolioInv, EntriesOK, Paying, Refunding, Accounts
<1>2. \A e \in entries : e.amount \in Int
  BY EntryCause
<1>3. \A e \in entries : u[e] \in Int /\ v[e] \in Int /\ w[e] = u[e] + v[e] /\ w[e] \in Int
  BY <1>1, EntryWeights
<1>4. \A e \in entries :
         w[e] = IF e \in Paying \cup Refunding THEN -e.amount ELSE 0
  <2> SUFFICES ASSUME NEW e \in entries
               PROVE  w[e] = IF e \in Paying \cup Refunding THEN -e.amount ELSE 0
    OBVIOUS
  <2>1. /\ u[e] = IF Contra(e) = "1010" THEN -e.amount ELSE 0
        /\ v[e] = IF Contra(e) = "1020" THEN -e.amount ELSE 0
    BY <1>1, LinesOfEntry
  <2>2. e \in Paying \cup Refunding <=> Contra(e) \in {"1010", "1020"}
    BY ContraAccount DEF Paying, Refunding
  <2> QED BY <1>2, <2>1, <2>2
<1>5. Paying = {h[p] : p \in Received} /\ \A p \in Received : h[p] \in entries /\ h[p].key[2] = p
  <2>1. \A p \in Received : h[p] \in entries /\ h[p].type = "payment" /\ h[p].key[2] = p
    BY DEF MoneyPosted, Received, PaymentEntry, Entry
  <2>2. \A e \in Paying : e.key[2] \in Received /\ e = h[e.key[2]]
    BY EntryCause DEF Paying
  <2> HIDE DEF h
  <2> QED BY <2>1, <2>2 DEF Paying
<1>6. /\ Refunding = {k[f] : f \in RefundRows}
      /\ \A f \in RefundRows : k[f] \in entries /\ k[f].key[2] = f
  <2>1. \A f \in RefundRows : k[f] \in entries /\ k[f].type = "refund" /\ k[f].key[2] = f
    BY DEF MoneyPosted, RefundRows, RefundEntry, Entry
  <2>2. \A e \in Refunding : e.key[2] \in RefundRows /\ e = k[e.key[2]]
    BY EntryCause DEF Refunding
  <2> HIDE DEF k
  <2> QED BY <2>1, <2>2 DEF Refunding
<1>7. \A p \in Received : amount[p] = w[h[p]] /\ amount[p] \in Int
  <2> SUFFICES ASSUME NEW p \in Received PROVE amount[p] = w[h[p]] /\ amount[p] \in Int
    OBVIOUS
  <2>1. payment_of[p].amount \in Nat
    BY MoneyRows DEF FolioInv, Received
  <2>2. h[p].amount = -payment_of[p].amount
    BY DEF PaymentEntry, Entry
  <2>3. h[p] \in Paying
    BY <1>5
  <2>4. amount[p] = payment_of[p].amount
    BY DEF Received
  <2> HIDE DEF h, w, amount
  <2> QED BY <1>1, <1>4, <2>1, <2>2, <2>3, <2>4
<1>8. \A f \in RefundRows : /\ minus[f] = w[k[f]] /\ minus[f] \in Int
                            /\ minus[f] = -back[f] /\ back[f] \in Int
  <2> SUFFICES ASSUME NEW f \in RefundRows
               PROVE  /\ minus[f] = w[k[f]] /\ minus[f] \in Int
                      /\ minus[f] = -back[f] /\ back[f] \in Int
    OBVIOUS
  <2>1. refund_of[f].amount \in Nat
    BY MoneyRows DEF FolioInv, RefundRows
  <2>2. k[f].amount = refund_of[f].amount
    BY DEF RefundEntry, Entry
  <2>3. k[f] \in Refunding
    BY <1>6
  <2>4. minus[f] = -back[f] /\ back[f] = refund_of[f].amount
    BY DEF RefundRows
  <2> HIDE DEF k, w, minus, back
  <2> QED BY <1>1, <1>4, <2>1, <2>2, <2>3, <2>4
<1>9. /\ EntrySum("1010") = SumFunctionOnSet(u, entries)
      /\ EntrySum("1020") = SumFunctionOnSet(v, entries)
      /\ AmountOf(Received) = SumFunctionOnSet(amount, Received)
      /\ RefundSum = SumFunctionOnSet(back, RefundRows)
  BY DEF EntrySum, AmountOf, RefundSum
<1> HIDE DEF u, v, w, amount, back, minus, h, k
<1>10. SumFunctionOnSet(w, entries) = SumFunctionOnSet(u, entries) + SumFunctionOnSet(v, entries)
  BY <1>1, <1>3, SumPlus
<1>11. SumFunctionOnSet(w, entries) = SumFunctionOnSet(w, Paying \cup Refunding)
  <2>1. Paying \cup Refunding \in SUBSET entries
    BY <1>1
  <2>2. /\ \A e \in Paying \cup Refunding : w[e] \in Int
        /\ \A e \in entries \ (Paying \cup Refunding) : w[e] = 0
    BY <1>3, <1>4, <2>1
  <2>3. IsFiniteSet(entries)
    BY <1>1
  <2> QED BY <2>1, <2>2, <2>3, SumSubset
<1>12. SumFunctionOnSet(w, Paying \cup Refunding)
       = SumFunctionOnSet(w, Paying) + SumFunctionOnSet(w, Refunding)
  <2>1. \A e \in Paying \cup Refunding : w[e] \in Int
    BY <1>1, <1>3
  <2>2. IsFiniteSet(Paying) /\ IsFiniteSet(Refunding) /\ Paying \cap Refunding = {}
    BY <1>1
  <2> QED BY <2>1, <2>2, SumUnion
<1>13. SumFunctionOnSet(w, Paying) = SumFunctionOnSet(amount, Received)
  <2>1. \A p, q \in Received : h[p] = h[q] => p = q
    BY <1>5
  <2>2. IsFiniteSet(Received)
    BY <1>1
  <2>3. SumFunctionOnSet(w, {h[p] : p \in Received}) = SumFunctionOnSet(amount, Received)
    BY <1>7, <2>1, <2>2, SumImage
  <2> QED BY <1>5, <2>3
<1>14. SumFunctionOnSet(w, Refunding) = SumFunctionOnSet(minus, RefundRows)
  <2>1. \A f, g \in RefundRows : k[f] = k[g] => f = g
    BY <1>6
  <2>2. IsFiniteSet(RefundRows)
    BY <1>1
  <2>3. SumFunctionOnSet(w, {k[f] : f \in RefundRows}) = SumFunctionOnSet(minus, RefundRows)
    BY <1>8, <2>1, <2>2, SumImage
  <2> QED BY <1>6, <2>3
<1>15. /\ SumFunctionOnSet(minus, RefundRows) = -SumFunctionOnSet(back, RefundRows)
       /\ SumFunctionOnSet(back, RefundRows) \in Int
  BY <1>1, <1>8, SumNegated
<1>16. SumFunctionOnSet(amount, Received) \in Int
  BY <1>1, <1>7, SumInt
<1>17. SumFunctionOnSet(u, entries) \in Int /\ SumFunctionOnSet(v, entries) \in Int
  BY <1>1, <1>3, SumInt
<1>18. SumFunctionOnSet(u, entries) + SumFunctionOnSet(v, entries)
       = SumFunctionOnSet(amount, Received) + SumFunctionOnSet(minus, RefundRows)
  BY <1>10, <1>11, <1>12, <1>13, <1>14
<1> QED BY <1>9, <1>15, <1>16, <1>17, <1>18

\* The report leaves out the payments that were refunded in full.
LEMMA ReceivedParts ==
    ASSUME FolioInv, MoneyPosted
    PROVE  /\ AmountOf(Received) = AmountOf(CompletedPayments) + AmountOf(Received \ CompletedPayments)
           /\ AmountOf(CompletedPayments) \in Int /\ AmountOf(Received \ CompletedPayments) \in Int
<1> DEFINE amount == [p \in PaymentIds |-> payment_of[p].amount]
<1>1. CompletedPayments \subseteq Received
  BY DEF CompletedPayments, Received
<1>2. \A p \in Received : amount[p] \in Int
  BY MoneyRows DEF FolioInv, Received
<1>3. \A ps : AmountOf(ps) = SumFunctionOnSet(amount, ps)
  BY DEF AmountOf
<1> HIDE DEF amount
<1> DEFINE S == CompletedPayments
           T == Received \ CompletedPayments
<1>4. IsFiniteSet(S) /\ IsFiniteSet(T)
  BY <1>1, MoneyFinite, FS_Subset
<1>5. S \cap T = {} /\ Received = S \cup T /\ (\A p \in S \cup T : amount[p] \in Int)
  BY <1>1, <1>2
<1>6. SumFunctionOnSet(amount, S) \in Int /\ SumFunctionOnSet(amount, T) \in Int
  BY <1>4, <1>5, SumInt
<1> HIDE DEF S, T
<1>7. SumFunctionOnSet(amount, S \cup T)
      = SumFunctionOnSet(amount, S) + SumFunctionOnSet(amount, T)
  BY <1>4, <1>5, SumUnion
<1> QED BY <1>3, <1>5, <1>6, <1>7 DEF S, T

\* The figures of the controls and the report, and the accounts they are about.
LEMMA FiguresAgree ==
    ASSUME SharedInv, ReportInv
    PROVE  /\ -AccountSum("4000") = Charged("accommodation")
           /\ -AccountSum("4100") = Charged("service")
           /\ -AccountSum("2100") = Charged("tax")
           /\ AccountSum("1100") = SumOf(entries)
           /\ AccountSum("1150") = Cardinality(PaidExpenses) * TaxSum
           /\ AccountSum("1010") + AccountSum("1020") + Cardinality(PaidExpenses) * (NetSum + TaxSum)
              = AmountOf(CompletedPayments) - RefundSum + AmountOf(Received \ CompletedPayments)
<1> DEFINE n == Cardinality(PaidExpenses)
           all == NetSum + TaxSum
<1>1. /\ FolioInv /\ MoneyPosted
      /\ {"1010", "1020", "1100", "1150", "2100", "4000", "4100"} \subseteq Accounts
  BY DEF SharedInv, ReportInv, Accounts
<1>2. n \in Nat /\ TaxSum \in Nat /\ all \in Nat /\ n * 0 = 0
  BY <1>1, AccountSplit, LinesOfExpense
<1>3. \A a \in Accounts : AccountSum(a) = EntrySum(a) + n * ExpenseLines[a] /\ EntrySum(a) \in Int
  BY AccountSplit
<1>4. all = NetSum + TaxSum /\ n = Cardinality(PaidExpenses)
  OBVIOUS
<1> HIDE DEF n, all
<1>5. \A a \in {"1100", "2100", "4000", "4100"} : AccountSum(a) = EntrySum(a) /\ EntrySum(a) \in Int
  <2> SUFFICES ASSUME NEW a \in {"1100", "2100", "4000", "4100"}
               PROVE  AccountSum(a) = EntrySum(a) /\ EntrySum(a) \in Int
    OBVIOUS
  <2>1. ExpenseLines[a] = 0 /\ a \in Accounts
    BY <1>1, LinesOfExpense
  <2>2. AccountSum(a) = EntrySum(a) + n * 0 /\ EntrySum(a) \in Int
    BY <1>3, <2>1
  <2> QED BY <1>2, <2>2
<1>6. /\ EntrySum("4000") = -Charged("accommodation") /\ Charged("accommodation") \in Int
      /\ EntrySum("4100") = -Charged("service") /\ Charged("service") \in Int
      /\ EntrySum("2100") = -Charged("tax") /\ Charged("tax") \in Int
  <2>1. /\ \A e \in entries : Contra(e) = "4000" <=> e.type = "accommodation"
        /\ \A e \in entries : Contra(e) = "4100" <=> e.type = "service"
        /\ \A e \in entries : Contra(e) = "2100" <=> e.type = "tax"
    BY <1>1, ContraAccount
  <2> QED BY <1>1, <2>1, ChargesCredited
<1>7. /\ -AccountSum("4000") = Charged("accommodation")
      /\ -AccountSum("4100") = Charged("service")
      /\ -AccountSum("2100") = Charged("tax")
      /\ AccountSum("1100") = SumOf(entries)
  BY <1>1, <1>5, <1>6, FolioBalances
<1>8. AccountSum("1150") = n * TaxSum
  <2>1. AccountSum("1150") = 0 + n * TaxSum
    BY <1>1, <1>3, FolioBalances, LinesOfExpense
  <2>2. n * TaxSum \in Int
    BY <1>2
  <2> QED BY <2>1, <2>2
<1>9. AccountSum("1010") + AccountSum("1020") + n * all
      = EntrySum("1010") + EntrySum("1020")
  <2>1. PICK a \in {"1010", "1020"} : /\ ExpenseLines[a] = -all
                                      /\ \A b \in {"1010", "1020"} \ {a} : ExpenseLines[b] = 0
    BY <1>4, LinesOfExpense
  <2>2. n * (-all) = -(n * all) /\ n * all \in Int
    BY <1>2
  <2>3. /\ AccountSum("1010") = EntrySum("1010") + n * ExpenseLines["1010"]
        /\ AccountSum("1020") = EntrySum("1020") + n * ExpenseLines["1020"]
        /\ EntrySum("1010") \in Int /\ EntrySum("1020") \in Int
    BY <1>1, <1>3
  <2>4. CASE a = "1010"
    <3>1. ExpenseLines["1010"] = -all /\ ExpenseLines["1020"] = 0
      BY <2>1, <2>4
    <3>2. /\ AccountSum("1010") = EntrySum("1010") + -(n * all)
          /\ AccountSum("1020") = EntrySum("1020") + 0
      BY <1>2, <2>2, <2>3, <3>1
    <3> QED BY <2>2, <2>3, <3>2
  <2>5. CASE a = "1020"
    <3>1. ExpenseLines["1020"] = -all /\ ExpenseLines["1010"] = 0
      BY <2>1, <2>5
    <3>2. /\ AccountSum("1020") = EntrySum("1020") + -(n * all)
          /\ AccountSum("1010") = EntrySum("1010") + 0
      BY <1>2, <2>2, <2>3, <3>1
    <3> QED BY <2>2, <2>3, <3>2
  <2> QED BY <2>1, <2>4, <2>5
<1>10. AccountSum("1010") + AccountSum("1020") + n * all
       = AmountOf(CompletedPayments) - RefundSum + AmountOf(Received \ CompletedPayments)
  BY <1>1, <1>9, TillsCollect, ReceivedParts
<1> QED BY <1>4, <1>7, <1>8, <1>10

LEMMA BooksInOrder ==
    ASSUME SharedInv, ReportInv, IInv, StockInv
    PROVE  Reconciled
<1>1. ScanFindsAll
  BY ScanFinds DEF ReportInv
<1>2. \A issue \in DOMAIN Issues \ {"reservation_conflicts"} : Issues[issue] = {}
  BY IssuesEmpty
<1>3. Exceptions \subseteq {"open_shift", "expenses_awaiting_review"}
  <2>1. PaymentsOffFolio = {}
    BY NothingMissing DEF SharedInv, PaymentsOffFolio
  <2> QED BY <2>1, NoUnjournaled, NoUnbalanced DEF Exceptions
<1>4. /\ Metrics.tax_payable = -AccountSum("2100")
      /\ Metrics.input_tax_recoverable = AccountSum("1150")
      /\ Metrics.folio_balance = SumOf(entries)
      /\ Metrics.expense_cash_outflow = Cardinality(PaidExpenses) * (NetSum + TaxSum)
      /\ Metrics.net_collections = AmountOf(CompletedPayments) - RefundSum
  BY DEF Metrics
<1>5. /\ Report.tax_collected = Charged("tax")
      /\ Report.input_tax_paid = Cardinality(PaidExpenses) * TaxSum
      /\ Report.room_revenue = Charged("accommodation")
      /\ Report.service_revenue = Charged("service")
  BY DEF Report
<1> DEFINE fully == {p \in PaymentIds : payment_of[p].stay # None} \ CompletedPayments
<1>6. fully = Received \ CompletedPayments
  BY DEF Received
<1> HIDE DEF fully
<1>7. /\ Metrics.tax_payable = Report.tax_collected
      /\ Metrics.input_tax_recoverable = Report.input_tax_paid
      /\ -AccountSum("4000") = Report.room_revenue
      /\ -AccountSum("4100") = Report.service_revenue
      /\ Metrics.folio_balance = AccountSum("1100")
      /\ AccountSum("1010") + AccountSum("1020") + Metrics.expense_cash_outflow
         = Metrics.net_collections + AmountOf(fully)
  BY <1>4, <1>5, <1>6, FiguresAgree
<1> QED BY <1>1, <1>2, <1>3, <1>7 DEF Reconciled, fully

\* The reports look at all of the books, and whatever folios, cashiers, cases and stores do,
\* in whatever order, they agree: reconcile_system finds nothing but double bookings it was
\* given, and the figures are those of the journal.
THEOREM BooksAgree == BackSpec => []BooksReconciled
<1>1. SharedInv /\ ReportInv /\ IInv /\ StockInv => BooksReconciled
  BY BooksInOrder DEF BooksReconciled
<1> QED BY <1>1, ReportInvariance, ComponentsStayTrue, Invariance, StockInvariance, PTL
=============================================================================
