---------------------------- MODULE MCSalesReport ----------------------------
EXTENDS MCOrderTransactions, SalesReport

\* The seeded order is three days old.
MCAges == [o \in OrderIds |-> 3]
================================================================================
