---------------------------------- MODULE Shop ----------------------------------
(***************************************************************************)
(* What the business tools promise of stock and orders, seen from outside  *)
(* their transactions: each operation happens at once or not at all.  An   *)
(* order is sold whole from the stock there is, under the next free        *)
(* number; a stock correction never goes below zero; an order is undone at *)
(* most once, and never more money is recorded as given back than was      *)
(* paid.                                                                   *)
(***************************************************************************)
EXTENDS Integers, FiniteSets

CONSTANTS
    Products,    \* the catalogue
    OrderIds,    \* the numbers of ORD-0001, ORD-0002, ...
    SeedStock,   \* stock after seeding
    SeedOrders   \* the orders the seed inserts

VARIABLES
    stock,   \* committed stock_quantity of every product
    orders   \* committed orders, by number

shopVars == <<stock, orders>>

Existing == {o \in OrderIds : orders[o].status # "absent"}

ShopInit == stock = SeedStock /\ orders = SeedOrders

\* Only order o changes, to a row that keeps what was sold to whom for how much.
Amend(o) ==
    /\ orders[o].status = "completed"
    /\ orders' = [orders EXCEPT ![o].status = orders'[o].status,
                                ![o].refunded = orders'[o].refunded]

\* A sale takes every line from the stock, or does not happen.
Sell(o) ==
    /\ orders[o].status = "absent"
    /\ \A n \in OrderIds : n \in Existing <=> n < o
    /\ orders' = [orders EXCEPT ![o] = orders'[o]]
    /\ orders'[o].status = "completed"
    /\ orders'[o].refunded = 0
    /\ \A p \in Products : orders'[o].items[p] <= stock[p]
    /\ stock' = [p \in Products |-> stock[p] - orders'[o].items[p]]

Correct ==
    /\ \A p \in Products : stock'[p] >= 0
    /\ UNCHANGED orders

\* Money only, which may be recorded as nothing: the goods are kept and the sale stands,
\* also when nothing is left to give.
RefundPart(o) ==
    /\ Amend(o)
    /\ orders'[o].status = "completed"
    /\ orders[o].refunded <= orders'[o].refunded
    /\ orders'[o].refunded <= orders[o].total
    /\ UNCHANGED stock

Restocked(o) == stock' = [p \in Products |-> stock[p] + orders[o].items[p]]

RefundRest(o) ==
    /\ Amend(o)
    /\ orders'[o].status = "refunded"
    /\ orders'[o].refunded = orders[o].total
    /\ Restocked(o)

Cancel(o) ==
    /\ Amend(o)
    /\ orders'[o].status = "cancelled"
    /\ orders'[o].refunded = orders[o].refunded
    /\ Restocked(o)

ShopNext ==
    \/ Correct
    \/ \E o \in OrderIds : Sell(o) \/ RefundPart(o) \/ RefundRest(o) \/ Cancel(o)

ShopSpec == ShopInit /\ [][ShopNext]_shopVars
================================================================================
