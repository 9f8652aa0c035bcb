-------------------------- MODULE MCOrderTransactions --------------------------
EXTENDS OrderTransactions, TLC

CONSTANTS chat1, chat2, exec1, exec2, ani, budi

\* Two products, 1 scarce and 2 scarcer; 3 names nothing in the catalogue.
MCStock == 1 :> 2 @@ 2 :> 1

Qty(a, b) == 1 :> a @@ 2 :> b

Sale(c, names, demand, total) ==
    [op |-> "create_order", customer |-> c, names |-> names, demand |-> demand, total |-> total]
Correction(names, low, net) ==
    [op |-> "stock_update", names |-> names, low |-> low, net |-> net]

\* Both products against the order of ids, disjoint sales to one walk-in, and a name
\* that is not in the catalogue.
MCSales ==
    { Sale(ani, <<2, 1>>, Qty(1, 1), 5), Sale(budi, <<1>>, Qty(2, 0), 4),
      Sale(budi, <<2>>, Qty(0, 1), 3), Sale(budi, <<1, 3>>, Qty(1, 0), 2) }
MCCorrections ==
    { Correction(<<1>>, Qty(-1, 0), Qty(-1, 0)),
      Correction(<<1, 2>>, Qty(0, -1), Qty(1, 0)) }

\* The same two products in both orders.
MCOpposedSales == { Sale(ani, <<1, 2>>, Qty(1, 1), 5), Sale(budi, <<2, 1>>, Qty(1, 1), 5) }

\* Disjoint products: no lock is ever waited for.
MCDisjointSales == { Sale(ani, <<1>>, Qty(1, 0), 2), Sale(budi, <<2>>, Qty(0, 1), 3) }

NoRow == [status |-> "absent", customer |-> ani, items |-> Qty(0, 0), total |-> 0,
          refunded |-> 0]

\* One seeded order of both products.
MCOrders ==
    [o \in OrderIds |-> IF o = 1 THEN [NoRow EXCEPT !.status = "completed",
                                                    !.items = Qty(1, 1), !.total = 5]
                                 ELSE NoRow]

\* A registered customer, whose aggregates include the seeded order or predate it, and
\* a walk-in.
MCCustomers == ani :> [exists |-> TRUE, orders |-> 1, spent |-> 5] @@ budi :> NoCustomer
MCUncountedCustomers ==
    ani :> [exists |-> TRUE, orders |-> 0, spent |-> 1] @@ budi :> NoCustomer
================================================================================
