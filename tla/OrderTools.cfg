SPECIFICATION Spec
CONSTANTS
    chat1 = chat1  chat2 = chat2  exec1 = exec1  exec2 = exec2
    ani = ani  budi = budi
    NoRequest = NoRequest
    Rest = Rest
    Products = {1, 2}
    Customers = {ani, budi}
    OrderIds = {1, 2, 3, 4, 5}
    SeedStock <- MCStock
    SeedOrders <- MCOrders
    SeedCustomers <- MCUncountedCustomers
    Sales <- MCSales
    Corrections <- MCCorrections
    Amounts = {1, 8, 11}
    ChatSessions = {chat1, chat2}
    ExecutorSessions = {exec1}
    StoreFaults = TRUE
    MaxTransactions = 4
CHECK_DEADLOCK FALSE
INVARIANTS
    TypeOK
    StockConserved
    RefundsBounded
PROPERTIES
    ImplementsShop
