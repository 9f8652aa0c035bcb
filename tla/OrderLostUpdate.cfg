SPECIFICATION Spec
CONSTANTS
    chat1 = chat1  chat2 = chat2  exec1 = exec1  exec2 = exec2
    ani = ani  budi = budi
    NoRequest = NoRequest
    Rest = Rest
    Products = {1, 2}
    Customers = {ani, budi}
    OrderIds = {1, 2, 3, 4}
    SeedStock <- MCStock
    SeedOrders <- MCOrders
    SeedCustomers <- MCCustomers
    Sales <- MCDisjointSales
    Corrections = {}
    Amounts = {8}
    ChatSessions = {chat1}
    ExecutorSessions = {exec1}
    StoreFaults = FALSE
    MaxTransactions = 2
CHECK_DEADLOCK FALSE
INVARIANTS
    AggregatesExact
