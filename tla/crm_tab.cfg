\* Two agents, one tab and two requests at a time.
SPECIFICATION Spec
CONSTANTS
    a1 = a1
    a2 = a2
    r1 = r1
    r2 = r2
    r3 = r3
    c1 = c1
    c2 = c2
    None = None
    Agent <- Agents2
    Request <- Requests2
    Customer <- Customers1
SYMMETRY Symmetry2
INVARIANTS
    ClientInv
    AgentMatchesToken
    NobodyElsesTasks
    OneCustomerPerForm
    ConfirmedIsShown
    BusyFormsWait
CHECK_DEADLOCK FALSE
