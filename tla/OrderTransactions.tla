--------------------------- MODULE OrderTransactions ---------------------------
(***************************************************************************)
(* The business transactions on products, customers and orders             *)
(* (app/tools/business_tools.py, app/tools/sensitive_actions.py,           *)
(* app/db/repository.py), over PostgreSQL at READ COMMITTED.               *)
(*                                                                         *)
(* A session runs one tool call at a time, statement by statement.  Rows   *)
(* read FOR UPDATE stay locked until the transaction ends; customers are   *)
(* read without a lock; an INSERT waits for another uncommitted INSERT of  *)
(* the same key.  Nothing is written before the transaction commits, so    *)
(* the flush and the COMMIT that follows it are one step.  Create_order    *)
(* and update_stock run in the chat, the approved actions in the           *)
(* executor's threads.                                                     *)
(***************************************************************************)
EXTENDS Integers, Sequences, FiniteSets, FiniteSetsExt

CONSTANTS
    Products,          \* primary keys of the catalogue; names stand for their rows
    Customers,         \* customer names, registered or not
    OrderIds,          \* the numbers of ORD-0001, ORD-0002, ...
    SeedStock,         \* products' stock when the system starts
    SeedOrders,        \* the orders table when the system starts
    SeedCustomers,     \* the customers table when the system starts
    Sales,             \* arguments of create_order
    Corrections,       \* arguments of update_stock (one name) and bulk_stock_update
    Amounts,           \* refund amounts a human may approve, in quarters of a cent
    Rest,              \* refund_order without an amount
    ChatSessions,      \* connections of the agent's regular tools
    ExecutorSessions,  \* connections of the approval executor
    NoRequest,
    StoreFaults,       \* may a statement or a COMMIT fail?
    MaxTransactions    \* bound: tool calls in a behaviour

Sessions == ChatSessions \cup ExecutorSessions

VARIABLES
    stock,      \* committed products.stock_quantity
    orders,     \* committed orders, with their items
    customers,  \* committed customers
    tx,         \* tx[s]: the transaction session s has open
    adjusted,   \* history: net committed stock corrections, by product
    begun       \* bound: tool calls so far

vars == <<stock, orders, customers, tx, adjusted, begun>>
tables == <<stock, orders, customers>>

NoOrder == 0

\* The tables hold whole cents, NUMERIC(12, 2); a tool computes with whatever amount was
\* approved.  All that comparing it with whole cents and rounding it tell apart is whether
\* its fraction of a cent is none, less than half, half or more: quarters stand for that.
Cent == 4

\* A NUMERIC(12, 2) column rounds what it is given, halves up.
ToCents(quarters) == (quarters + 2) \div Cent

OrderRow ==
    [status : {"absent", "completed", "refunded", "cancelled"}, customer : Customers,
     items : [Products -> Nat], total : Nat, refunded : Nat]

CustomerRow == [exists : BOOLEAN, orders : Nat, spent : Nat]

NoCustomer == [exists |-> FALSE, orders |-> 0, spent |-> 0]

\* A sale lists product names in the order of its items, a correction in the order of
\* its updates; both carry per product what their lines add up to.  The lowest prefix
\* of a correction decides whether it is refused, the net is what is written.
OrderActions ==
    [op : {"refund_order"}, order : OrderIds, amount : Amounts \cup {Rest}]
        \cup [op : {"cancel_order"}, order : OrderIds, amount : {Rest}]

Requests(s) ==
    (IF s \in ChatSessions THEN Sales \cup {r \in Corrections : Len(r.names) = 1} ELSE {})
        \cup (IF s \in ExecutorSessions THEN Corrections \cup OrderActions ELSE {})

Names == UNION {{r.names[i] : i \in DOMAIN r.names} : r \in Sales \cup Corrections}

Points == {"idle", "lock_order", "lock", "customer", "register", "number", "insert",
           "commit", "answer"}

Answers == {"none", "success", "refused", "database_error"}

Tx == [pc : Points, req : Sales \cup Corrections \cup OrderActions \cup {NoRequest},
       todo : SUBSET (Names \cup Products), held : SUBSET Products,
       owns : OrderIds \cup {NoOrder}, fresh : BOOLEAN, snap : CustomerRow,
       id : Nat, answer : Answers]

\* Ids are numbers; the tables hold finitely many rows.
ASSUME TablesAssumption ==
    /\ Products \subseteq Nat /\ IsFiniteSet(Products)
    /\ OrderIds \subseteq Nat \ {0} /\ IsFiniteSet(OrderIds)
    /\ StoreFaults \in BOOLEAN
    /\ MaxTransactions \in Nat

\* The seed inserts completed orders, numbered from one on, of products that cost something.
ASSUME SeedAssumption ==
    /\ SeedStock \in [Products -> Nat]
    /\ SeedOrders \in [OrderIds -> OrderRow]
    /\ SeedCustomers \in [Customers -> CustomerRow]
    /\ \A o \in OrderIds :
          LET row == SeedOrders[o]
          IN  /\ row.status \in {"absent", "completed"}
              /\ row.status = "completed" =>
                    /\ row.refunded = 0 /\ row.total > 0
                    /\ \A n \in OrderIds : n < o => SeedOrders[n].status = "completed"

\* What the tools' validation lets through: a sale or a correction touches products it
\* names only, a correction falls lowest at one of its prefixes, a refund is positive.
ASSUME RequestsAssumption ==
    /\ Sales \subseteq [op : {"create_order"}, customer : Customers, names : Seq(Nat),
                        demand : [Products -> Nat], total : Nat \ {0}]
    /\ Corrections \subseteq [op : {"stock_update"}, names : Seq(Nat),
                              low : [Products -> Int], net : [Products -> Int]]
    /\ \A r \in Sales, p \in Products : r.demand[p] > 0 => \E i \in DOMAIN r.names : r.names[i] = p
    /\ \A r \in Corrections, p \in Products :
          /\ r.low[p] <= r.net[p]
          /\ r.low[p] # 0 \/ r.net[p] # 0 => \E i \in DOMAIN r.names : r.names[i] = p
    /\ Amounts \subseteq Nat \ {0} /\ Rest \notin Amounts
    /\ NoRequest \notin Sales \cup Corrections \cup OrderActions

NoTx == [pc |-> "idle", req |-> NoRequest, todo |-> {}, held |-> {}, owns |-> NoOrder,
         fresh |-> FALSE, snap |-> NoCustomer, id |-> NoOrder, answer |-> "none"]

Init ==
    /\ stock = SeedStock
    /\ orders = SeedOrders
    /\ customers = SeedCustomers
    /\ tx = [s \in Sessions |-> NoTx]
    /\ adjusted = [p \in Products |-> 0]
    /\ begun = 0
--------------------------------------------------------------------------------
\* Mutant: a refusal leaves the transaction open, with its locks.
EndedHoldingLocks(s, answer) ==
    tx' = [tx EXCEPT ![s].pc = "answer", ![s].answer = answer]

\* session_scope: whatever the outcome, the session is closed and its locks are gone.
Ended(s, answer) ==
    tx' = [tx EXCEPT ![s] = [NoTx EXCEPT !.pc = "answer", !.answer = answer]]

Goto(s, point) == tx' = [tx EXCEPT ![s].pc = point]

Begin(s, r) ==
    /\ tx[s].pc = "idle"
    /\ begun < MaxTransactions
    /\ begun' = begun + 1
    /\ tx' = [tx EXCEPT ![s] =
                IF r.op \in {"create_order", "stock_update"}
                THEN [NoTx EXCEPT !.pc = "lock", !.req = r,
                                  !.todo = {r.names[i] : i \in DOMAIN r.names}]
                ELSE [NoTx EXCEPT !.pc = "lock_order", !.req = r]]
    /\ UNCHANGED <<tables, adjusted>>

Remaining(o) == orders[o].total - orders[o].refunded

RefundAmount(r) == IF r.amount = Rest THEN Cent * Remaining(r.order) ELSE r.amount

\* All that remains is given back, as in every cancellation: stock and aggregates are
\* undone too.  The approved amount is compared as it is, before it is rounded.
IsFull(r) == RefundAmount(r) = Cent * Remaining(r.order)

\* Mutants: a terminal order is undone again; the cap ignores earlier refunds.
UndoableWhenever(r) ==
    /\ orders[r.order].status # "absent"
    /\ r.op = "refund_order" => RefundAmount(r) <= Cent * Remaining(r.order)
UndoableUpToTotal(r) ==
    /\ orders[r.order].status = "completed"
    /\ r.op = "refund_order" => RefundAmount(r) <= Cent * orders[r.order].total

\* Neither absent nor terminal, and the amount fits into what remains.
Undoable(r) ==
    /\ orders[r.order].status = "completed"
    /\ r.op = "refund_order" =>
          Remaining(r.order) > 0 /\ RefundAmount(r) <= Cent * Remaining(r.order)

\* SELECT ... FOR UPDATE on the order, then the checks on the locked row.  A full undo
\* goes on to lock the products of its items, a partial refund to the customer.
LockOrder(s) ==
    LET r == tx[s].req
        items == {p \in Products : orders[r.order].items[p] > 0}
    IN  /\ tx[s].pc = "lock_order"
        /\ \A u \in Sessions : tx[u].owns = r.order => orders[r.order].status = "absent"
        /\ \/ ~Undoable(r) /\ Ended(s, "refused")
           \/ /\ Undoable(r)
              /\ tx' = [tx EXCEPT ![s].owns = r.order,
                                  ![s].pc = IF IsFull(r) THEN "lock" ELSE "customer",
                                  ![s].todo = IF IsFull(r) THEN items ELSE {}]
        /\ UNCHANGED <<tables, adjusted, begun>>

\* Mutant: the products of an order are locked from the highest id down.
DescendingPrecedes(r, n, m) ==
    IF r.op \in {"create_order", "stock_update"}
    THEN \E i, j \in DOMAIN r.names : i <= j /\ r.names[i] = n /\ r.names[j] = m
    ELSE n >= m

\* Lists are locked in the order the request names them, the products of an order by id.
Precedes(r, n, m) ==
    IF r.op \in {"create_order", "stock_update"}
    THEN \E i, j \in DOMAIN r.names : i <= j /\ r.names[i] = n /\ r.names[j] = m
    ELSE n <= m

\* The product the transaction asks for next.
Asks(s, n) ==
    /\ tx[s].pc = "lock"
    /\ n \in tx[s].todo
    /\ \A m \in tx[s].todo : Precedes(tx[s].req, n, m)

\* Mutant: products are read without FOR UPDATE.
NeverLocked(s, p) == FALSE

LockedByOther(s, p) == \E u \in Sessions \ {s} : p \in tx[u].held

\* One SELECT ... FOR UPDATE per name; a name no product has ends the tool.
LockProduct(s) ==
    \E n \in tx[s].todo :
        /\ Asks(s, n)
        /\ \/ n \notin Products /\ Ended(s, "refused")
           \/ /\ n \in Products /\ ~LockedByOther(s, n)
              /\ tx' = [tx EXCEPT ![s].todo = @ \ {n}, ![s].held = @ \cup {n}]
        /\ UNCHANGED <<tables, adjusted, begun>>

\* The checks made once every product is locked.
Affordable(r) ==
    CASE r.op = "create_order" -> \A p \in Products : r.demand[p] <= stock[p]
      [] r.op = "stock_update" -> \A p \in Products : stock[p] + r.low[p] >= 0
      [] OTHER -> TRUE

Validate(s) ==
    LET r == tx[s].req
    IN  /\ tx[s].pc = "lock"
        /\ tx[s].todo = {}
        /\ \/ ~Affordable(r) /\ Ended(s, "refused")
           \/ Affordable(r) /\ Goto(s, IF r.op = "stock_update" THEN "commit" ELSE "customer")
        /\ UNCHANGED <<tables, adjusted, begun>>

CustomerOf(r) == IF r.op = "create_order" THEN r.customer ELSE orders[r.order].customer

\* The customer is read without a lock and kept until the flush.
ReadCustomer(s) ==
    LET r == tx[s].req
        c == CustomerOf(r)
    IN  /\ tx[s].pc = "customer"
        /\ \/ r.op = "create_order" /\ ~customers[c].exists /\ Goto(s, "register")
           \/ /\ r.op # "create_order" \/ customers[c].exists
              /\ tx' = [tx EXCEPT ![s].snap = customers[c],
                                  ![s].pc = IF r.op = "create_order" THEN "number" ELSE "commit"]
        /\ UNCHANGED <<tables, adjusted, begun>>

\* The flushed INSERT of a walk-in customer, which the unique index on lower(name)
\* makes wait for an uncommitted one and refuses after a committed one.
Register(s) ==
    LET c == CustomerOf(tx[s].req)
    IN  /\ tx[s].pc = "register"
        /\ \A u \in Sessions \ {s} : ~(tx[u].fresh /\ CustomerOf(tx[u].req) = c)
        /\ \/ customers[c].exists /\ Ended(s, "database_error")
           \/ /\ ~customers[c].exists
              /\ tx' = [tx EXCEPT ![s].fresh = TRUE, ![s].pc = "number"]
        /\ UNCHANGED <<tables, adjusted, begun>>

Existing == {o \in OrderIds : orders[o].status # "absent"}

\* next_order_id: one above the highest committed number.
ReadNumber(s) ==
    /\ tx[s].pc = "number"
    /\ tx' = [tx EXCEPT ![s].id = 1 + Max(Existing \cup {0}), ![s].pc = "insert"]
    /\ UNCHANGED <<tables, adjusted, begun>>

\* Mutant: the order's key is not unique.
NeverTaken(o) == FALSE

Taken(o) == o \in Existing

\* The flushed INSERT of the order waits for an uncommitted one with the same number.
InsertOrder(s) ==
    LET o == tx[s].id
    IN  /\ tx[s].pc = "insert"
        /\ o \in OrderIds
        /\ \A u \in Sessions \ {s} : tx[u].owns = o => Taken(o)
        /\ \/ Taken(o) /\ Ended(s, "database_error")
           \/ ~Taken(o) /\ tx' = [tx EXCEPT ![s].owns = o, ![s].pc = "commit"]
        /\ UNCHANGED <<tables, adjusted, begun>>
--------------------------------------------------------------------------------
\* The ORM writes the columns whose value the tool changed, computed from the customer
\* as it was read, onto whatever row is committed by now.  What the customer spent is in
\* quarters in the new value, and rounded as it is written.
Written(c, snap, new) ==
    [exists |-> TRUE,
     orders |-> IF new.orders = snap.orders THEN customers[c].orders ELSE new.orders,
     spent |-> IF new.spent = Cent * snap.spent THEN customers[c].spent
                                                ELSE ToCents(new.spent)]

SoldTo(snap, total) == [snap EXCEPT !.orders = @ + 1, !.spent = Cent * (@ + total)]

RefundedTo(snap, quarters) == [snap EXCEPT !.spent = Max({0, Cent * @ - quarters})]

\* _undo_order_effects on the customer.
UndoneFor(snap, cents) == [RefundedTo(snap, Cent * cents) EXCEPT !.orders = Max({0, @ - 1})]

\* The COMMIT took effect; its answer may be lost.
Committed(s) == Ended(s, "success") \/ (StoreFaults /\ Ended(s, "database_error"))

CommitSale(s) ==
    LET t == tx[s]
        r == t.req
    IN  /\ t.pc = "commit" /\ r.op = "create_order"
        /\ stock' = [p \in Products |-> stock[p] - r.demand[p]]
        /\ orders' = [orders EXCEPT ![t.owns] =
                        [status |-> "completed", customer |-> r.customer,
                         items |-> r.demand, total |-> r.total, refunded |-> 0]]
        /\ customers' = [customers EXCEPT ![r.customer] =
                            Written(r.customer, t.snap, SoldTo(t.snap, r.total))]
        /\ Committed(s)
        /\ UNCHANGED <<adjusted, begun>>

CommitCorrection(s) ==
    LET r == tx[s].req
    IN  /\ tx[s].pc = "commit" /\ r.op = "stock_update"
        /\ stock' = [p \in Products |-> stock[p] + r.net[p]]
        /\ adjusted' = [p \in Products |-> adjusted[p] + r.net[p]]
        /\ Committed(s)
        /\ UNCHANGED <<orders, customers, begun>>

\* Full refund and cancellation: the goods return, the order becomes terminal.
CommitUndo(s) ==
    LET t == tx[s]
        o == t.req.order
        c == CustomerOf(t.req)
        amount == IF t.req.op = "cancel_order" THEN orders[o].total ELSE Remaining(o)
    IN  /\ t.pc = "commit" /\ t.req.op \in {"refund_order", "cancel_order"} /\ IsFull(t.req)
        /\ stock' = [p \in Products |-> stock[p] + orders[o].items[p]]
        /\ orders' = [orders EXCEPT
                        ![o].status = IF t.req.op = "cancel_order" THEN "cancelled" ELSE "refunded",
                        ![o].refunded = IF t.req.op = "cancel_order" THEN @ ELSE orders[o].total]
        /\ customers' = [customers EXCEPT ![c] = Written(c, t.snap, UndoneFor(t.snap, amount))]
        /\ Committed(s)
        /\ UNCHANGED <<adjusted, begun>>

\* Partial refund: only money moves.  Rounded, it may come to nothing, or to all that
\* remained: then the order stays completed with nothing left to refund.
CommitPartialRefund(s) ==
    LET t == tx[s]
        o == t.req.order
        c == CustomerOf(t.req)
        amount == RefundAmount(t.req)
    IN  /\ t.pc = "commit" /\ t.req.op = "refund_order" /\ ~IsFull(t.req)
        /\ orders' = [orders EXCEPT ![o].refunded = ToCents(Cent * @ + amount)]
        /\ customers' = [customers EXCEPT ![c] = Written(c, t.snap, RefundedTo(t.snap, amount))]
        /\ Committed(s)
        /\ UNCHANGED <<stock, adjusted, begun>>

Open(s) == tx[s].pc \notin {"idle", "answer"}

\* A statement fails or the process dies: the transaction rolls back.
StoreFails(s) ==
    /\ StoreFaults
    /\ Open(s)
    /\ Ended(s, "database_error")
    /\ UNCHANGED <<tables, adjusted, begun>>

\* u cannot go on before v ends.
Waits(u, v) ==
    /\ u # v
    /\ \/ \E p \in Products : Asks(u, p) /\ p \in tx[v].held
       \/ /\ tx[u].pc = "lock_order" /\ tx[v].owns = tx[u].req.order
          /\ orders[tx[u].req.order].status # "absent"
       \/ /\ tx[u].pc = "register" /\ tx[v].fresh
          /\ CustomerOf(tx[u].req) = CustomerOf(tx[v].req)
       \/ tx[u].pc = "insert" /\ tx[v].owns = tx[u].id /\ ~Taken(tx[u].id)

\* A session waits for one other at most: a set closed under waiting is a cycle.
Cycle(S) ==
    \A u \in S : (\E v \in S : Waits(u, v)) /\ (\E v \in S : Waits(v, u))

\* PostgreSQL ends a wait cycle by aborting one of its members.
DeadlockVictim(s) ==
    /\ \E S \in SUBSET Sessions : s \in S /\ Cycle(S)
    /\ Ended(s, "database_error")
    /\ UNCHANGED <<tables, adjusted, begun>>

\* The tool returns; the session is free for the next call.
Return(s) ==
    /\ tx[s].pc = "answer"
    /\ tx' = [tx EXCEPT ![s].pc = "idle", ![s].answer = "none"]
    /\ UNCHANGED <<tables, adjusted, begun>>
--------------------------------------------------------------------------------
Step(s) ==
    \/ LockOrder(s) \/ LockProduct(s) \/ Validate(s)
    \/ ReadCustomer(s) \/ Register(s) \/ ReadNumber(s) \/ InsertOrder(s)
    \/ CommitSale(s) \/ CommitCorrection(s) \/ CommitUndo(s) \/ CommitPartialRefund(s)
    \/ StoreFails(s) \/ DeadlockVictim(s) \/ Return(s)

Next ==
    \E s \in Sessions :
        \/ \E r \in Requests(s) : Begin(s, r)
        \/ Step(s)

Spec == Init /\ [][Next]_vars

\* The server keeps executing the tools it started.
FairSpec == Spec /\ \A s \in Sessions : WF_vars(Step(s))
--------------------------------------------------------------------------------
\* Types; stock and aggregates are never negative: sales and corrections that wait for
\* each other do not sell what is no longer there.
TypeOK ==
    /\ stock \in [Products -> Nat]
    /\ orders \in [OrderIds -> OrderRow]
    /\ customers \in [Customers -> CustomerRow]
    /\ tx \in [Sessions -> Tx]
    /\ adjusted \in [Products -> Int]
    /\ begun \in 0..MaxTransactions

\* Every unit is accounted for: what was there, plus the corrections, minus what
\* completed orders hold.  Nothing is deducted without an order, restored twice, or
\* restored by a partial refund.
StockConserved ==
    \A p \in Products :
        LET sold(table) == MapThenSumSet(
                LAMBDA o : IF table[o].status = "completed" THEN table[o].items[p] ELSE 0,
                OrderIds)
        IN  stock[p] + sold(orders) = SeedStock[p] + sold(SeedOrders) + adjusted[p]

\* However many refunds are approved for an order, of whatever fractions of a cent, what
\* is recorded as given back never exceeds its total, and is all of it when the order is
\* marked refunded.  The converse does not hold: a partial refund that is rounded up to the
\* rest leaves the order completed.
RefundsBounded ==
    \A o \in Existing :
        /\ orders[o].refunded <= orders[o].total
        /\ orders[o].status = "refunded" => orders[o].refunded = orders[o].total

\* The tools' interleaved statements implement whole operations on stock and orders.
Abstract == INSTANCE Shop
ImplementsShop == Abstract!ShopSpec

\* Orders of customer c which the aggregates are known to treat wrongly: cancelled
\* after a partial refund.
DoublyCredited(c) ==
    \E o \in Existing :
        /\ orders[o].customer = c
        /\ orders[o].status = "cancelled" /\ orders[o].refunded > 0

\* What a customer's aggregates ought to be: the seeded ones, plus the orders placed
\* since, minus what was undone.
AggregatesExact ==
    \A c \in Customers :
        LET mine == {o \in Existing : orders[o].customer = c}
            new == {o \in mine : SeedOrders[o].status = "absent"}
            given == {o \in mine : orders[o].status # "completed"}
            back(o) == IF orders[o].status = "cancelled" THEN orders[o].total
                                                         ELSE orders[o].refunded
        IN  customers[c].exists /\ ~DoublyCredited(c) =>
              /\ customers[c].orders
                    = SeedCustomers[c].orders + Cardinality(new) - Cardinality(given)
              /\ customers[c].spent
                    = SeedCustomers[c].spent + MapThenSumSet(LAMBDA o : orders[o].total, new)
                                             - MapThenSumSet(back, mine)

\* Product rows are to be "ordered by id to avoid deadlocks" (business_tools.py:135), and
\* sorted lists would do: every circle has a request in it that names its products
\* against the order of ids, for only lists are locked as given.
DeadlocksNeedUnsortedList ==
    \A S \in (SUBSET Sessions) \ {{}} : Cycle(S) =>
        \E s \in S : tx[s].req.op \in {"create_order", "stock_update"} /\
            LET names == tx[s].req.names
            IN  \E i, j \in DOMAIN names : i < j /\ names[i] > names[j]

\* Every tool call comes to an answer, whatever it has to wait for.
CallsEnd == \A s \in Sessions : Open(s) ~> ~Open(s)
================================================================================
