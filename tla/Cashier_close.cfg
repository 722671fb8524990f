\* One cashier, one shift, one payment, while the shift is being closed.
SPECIFICATION Spec
CONSTANTS
    Terminals = {d1}
    Cashiers <- MCStaff
    Shifts = {1}
    Invoices = {i1}
    Total <- MCTotal
    Payments = {1}
    Refunds = {}
    Amounts = {1, 2}
    Floats = {1}
    Txns = {t1, t2}
    CashBound = 1
    None = None
    Staff <- MCStaff
    RoleOf <- MCRoles
CHECK_DEADLOCK FALSE
PROPERTY ShiftLocksAfterClose
