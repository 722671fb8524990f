\* One cashier, who opens shifts at two terminals.
SPECIFICATION Spec
CONSTANTS
    Terminals = {d1, d2}
    Cashiers <- MCStaff
    Shifts = {1, 2}
    Invoices = {i1}
    Total <- MCTotal
    Payments = {}
    Refunds = {}
    Amounts = {1, 2}
    Floats = {1}
    Txns = {t1, t2}
    CashBound = 1
    None = None
    Staff <- MCStaff
    RoleOf <- MCRoles
CHECK_DEADLOCK FALSE
INVARIANT OneShiftPerCashier
