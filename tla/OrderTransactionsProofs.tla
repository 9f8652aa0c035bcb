------------------------ MODULE OrderTransactionsProofs ------------------------
(***************************************************************************)
(* Proofs about OrderTransactions, for any catalogue, seed and requests,   *)
(* and any number of sessions, with any combination of store faults,       *)
(* deadlock victims and lost answers; and, at the end, about the report    *)
(* that SalesReport makes while they run.                                  *)
(***************************************************************************)
EXTENDS SalesReport, InductionLemmas

\* What a session may be doing, whatever the tables say.  Once its name is locked a
\* product stays locked to the end, and products are locked in the request's order.
Sound(t) ==
    /\ t.pc \notin {"idle", "answer"} => t.req \in Sales \cup Corrections \cup OrderActions
    /\ t.pc \in {"register", "number", "insert"} => t.req \in Sales
    /\ t.pc = "customer" => t.req \in Sales \cup OrderActions
    /\ t.pc = "lock_order" => t.req \in OrderActions
    /\ t.pc \in {"idle", "answer", "lock_order"} => t.held = {}
    /\ t.pc # "lock" => t.todo = {}
    /\ t.pc = "insert" => t.id # NoOrder
    /\ t.fresh => t.pc \in {"number", "insert", "commit"} /\ t.req \in Sales
    /\ t.owns # NoOrder => t.pc \in {"lock", "customer", "commit"}
    /\ t.pc = "commit" /\ t.req \in Sales => t.owns # NoOrder
    /\ t.pc \in {"lock", "customer"} /\ t.owns # NoOrder => t.req \in OrderActions
    /\ t.pc \in {"lock", "customer", "commit"} /\ t.req \in OrderActions => t.owns = t.req.order
    /\ t.pc = "commit" /\ t.req \in Corrections => t.owns = NoOrder
    /\ t.todo \cap t.held = {}
    /\ \A n \in t.held, m \in t.todo : Precedes(t.req, n, m)

\* The products a request changes, and how far it can bring them down.
Touches(r, p) == IF r \in Sales THEN r.demand[p] > 0 ELSE r.low[p] # 0 \/ r.net[p] # 0

Checked == {"customer", "register", "number", "insert", "commit"}

\* What a session counts on: the products it sells or corrects are locked, there was
\* enough of them when it looked, and there still is.
Covered(t) ==
    t.req \in Sales \cup Corrections =>
        /\ t.pc \in {"lock"} \cup Checked =>
              \A p \in Products : Touches(t.req, p) => p \in t.held \cup t.todo
        /\ t.pc \in Checked => Affordable(t.req)

\* The order it undoes can still be undone; the goods are locked when all of it is.
Undoing(t) ==
    t.pc \in {"lock", "customer", "commit"} /\ t.req \in OrderActions =>
        Undoable(t.req) /\ (t.pc = "lock" => IsFull(t.req))

\* The number it read, and the order it inserted, come next or are taken.
Numbered(t) ==
    /\ t.pc = "insert" => \A n \in OrderIds : n < t.id => n \in Existing
    /\ t.pc = "commit" /\ t.req \in Sales =>
          t.owns \in OrderIds /\ \A n \in OrderIds : n \in Existing <=> n < t.owns

Good(t) == Sound(t) /\ Covered(t) /\ Undoing(t) /\ Numbered(t)

Working == \A s \in Sessions : Good(tx[s])

\* Locks: a product is held, and an order's row or key is owned, by one transaction.
Exclusive ==
    \A s, u \in Sessions : s # u =>
        /\ tx[s].held \cap tx[u].held = {}
        /\ tx[s].owns = tx[u].owns => tx[s].owns = NoOrder

\* Orders are numbered without gaps.
Contiguous == \A o \in Existing, n \in OrderIds : n < o => n \in Existing

IInv == TypeOK /\ Working /\ Exclusive /\ Contiguous /\ RefundsBounded

--------------------------------------------------------------------------------
\* Requests.

\* The tools' validation, request by request.
LEMMA SaleType ==
  ASSUME NEW r \in Sales
  PROVE  /\ r.op = "create_order" /\ r.customer \in Customers /\ r.names \in Seq(Nat)
         /\ r.demand \in [Products -> Nat] /\ r.total \in Nat /\ r.total > 0
         /\ \A p \in Products : r.demand[p] > 0 => \E i \in DOMAIN r.names : r.names[i] = p
  BY RequestsAssumption

LEMMA CorrectionType ==
  ASSUME NEW r \in Corrections
  PROVE  /\ r.op = "stock_update" /\ r.names \in Seq(Nat)
         /\ r.low \in [Products -> Int] /\ r.net \in [Products -> Int]
         /\ \A p \in Products :
               /\ r.low[p] <= r.net[p]
               /\ r.low[p] # 0 \/ r.net[p] # 0 => \E i \in DOMAIN r.names : r.names[i] = p
  BY RequestsAssumption

LEMMA OrderActionType ==
  ASSUME NEW r \in OrderActions
  PROVE  /\ r.op \in {"refund_order", "cancel_order"} /\ r.order \in OrderIds
         /\ r.amount \in Amounts \cup {Rest}
         /\ r.op = "cancel_order" => r.amount = Rest
  BY DEF OrderActions

\* The three kinds of request are told apart by their operation.
LEMMA Kinds ==
  ASSUME NEW r \in Sales \cup Corrections \cup OrderActions
  PROVE  /\ r.op = "create_order" <=> r \in Sales
         /\ r.op = "stock_update" <=> r \in Corrections
         /\ r.op \in {"refund_order", "cancel_order"} <=> r \in OrderActions
         /\ r # NoRequest
<1>1. r \in Sales => r.op = "create_order"
  BY SaleType
<1>2. r \in Corrections => r.op = "stock_update"
  BY CorrectionType
<1>3. r \in OrderActions => r.op \in {"refund_order", "cancel_order"}
  BY OrderActionType
<1>. QED
  BY <1>1, <1>2, <1>3, RequestsAssumption

\* The names of a request are among all names.
LEMMA NamesOf ==
  ASSUME NEW r \in Sales \cup Corrections
  PROVE  {r.names[i] : i \in DOMAIN r.names} \subseteq Names
  BY DEF Names

--------------------------------------------------------------------------------
\* Steps that commit nothing.

\* A transaction t of s interferes with no other one.
Alone(s, t) == \A u \in Sessions \ {s} :
    t.held \cap tx[u].held = {} /\ (t.owns = tx[u].owns => t.owns = NoOrder)

\* What a session counts on depends on the tables only.
LEMMA TablesKept ==
  ASSUME UNCHANGED tables, NEW j
  PROVE  Good(j)' <=> Good(j)
<1>1. Existing' = Existing
  BY DEF tables, Existing
<1>. QED
  BY <1>1 DEF tables, Good, Sound, Covered, Undoing, Numbered, Affordable, Undoable, IsFull,
              RefundAmount, Remaining

\* A step of one session that leaves the tables alone keeps the invariant if what the
\* session does next is sound.
LEMMA Quiet ==
  ASSUME IInv, NEW s \in Sessions, NEW t \in Tx, tx' = [tx EXCEPT ![s] = t],
         UNCHANGED <<tables, adjusted>>, begun' \in 0 .. MaxTransactions,
         Good(t), Alone(s, t)
  PROVE  IInv'
<1>1. TypeOK'
  BY DEF IInv, TypeOK, tables
<1>2. \A u \in Sessions : tx'[u] = IF u = s THEN t ELSE tx[u]
  BY DEF IInv, TypeOK
<1>3. Existing' = Existing
  BY DEF tables, Existing
<1>4. ASSUME NEW u \in Sessions PROVE Good(tx[u])'
  <2>1. PICK j : j = tx'[u]
    OBVIOUS
  <2>2. Good(j)
    BY <1>2, <2>1 DEF IInv, Working
  <2>3. Good(j)'
    BY <2>2, TablesKept
  <2>. QED
    BY <2>1, <2>3
<1>5. Exclusive'
  BY <1>2 DEF IInv, Exclusive, Alone
<1>6. Contiguous' /\ RefundsBounded'
  BY <1>3 DEF IInv, Contiguous, RefundsBounded, tables
<1>. QED
  BY <1>1, <1>4, <1>5, <1>6 DEF IInv, Working

\* What the invariant says of one session.
LEMMA Current ==
  ASSUME IInv, NEW s \in Sessions
  PROVE  /\ tx \in [Sessions -> Tx] /\ tx[s] \in Tx /\ Alone(s, tx[s]) /\ begun \in 0 .. MaxTransactions
         /\ Sound(tx[s]) /\ Covered(tx[s]) /\ Undoing(tx[s]) /\ Numbered(tx[s])
  BY DEF IInv, TypeOK, Working, Exclusive, Alone, Good

\* A session that holds nothing is alone.
LEMMA HoldsNothing ==
  ASSUME NEW s, NEW t, t.held = {}, t.owns = NoOrder
  PROVE  Alone(s, t)
  BY DEF Alone

\* A transaction that ended stands in nobody's way.
LEMMA AnsweredTx ==
  ASSUME NEW answer \in Answers
  PROVE  LET t == [NoTx EXCEPT !.pc = "answer", !.answer = answer]
         IN  /\ t \in Tx /\ t.held = {} /\ t.owns = NoOrder
             /\ Good(t) /\ \A j : j = t => Good(j)'
<1> DEFINE t == [NoTx EXCEPT !.pc = "answer", !.answer = answer]
<1>1. /\ t.pc = "answer" /\ t.held = {} /\ t.owns = NoOrder /\ t.todo = {} /\ t.fresh = FALSE
      /\ t.req = NoRequest
  BY DEF NoTx
<1>2. t \in Tx
  BY DEF NoTx, Tx, Points, NoCustomer, CustomerRow, NoOrder
<1>3. NoRequest \notin Sales \cup Corrections \cup OrderActions
  BY RequestsAssumption
<1>4. Good(t) /\ \A j : j = t => Good(j)'
  <2>. HIDE DEF t
  <2>. QED
    BY <1>1, <1>3 DEF Good, Sound, Covered, Undoing, Numbered, Checked
<1>. QED
  BY <1>1, <1>2, <1>4

\* Ending a transaction without committing keeps the invariant.
LEMMA EndQuiet ==
  ASSUME IInv, NEW s \in Sessions, NEW answer \in Answers, Ended(s, answer),
         UNCHANGED <<tables, adjusted, begun>>
  PROVE  IInv'
<1>1. begun' \in 0 .. MaxTransactions
  BY Current
<1> DEFINE t == [NoTx EXCEPT !.pc = "answer", !.answer = answer]
<1>2. tx' = [tx EXCEPT ![s] = t]
  BY DEF Ended
<1>3. t \in Tx /\ Good(t) /\ t.held = {} /\ t.owns = NoOrder
  BY AnsweredTx
<1>. HIDE DEF t
<1>. QED
  BY <1>1, <1>2, <1>3, HoldsNothing, Quiet

\* Going on with the same locks.
LEMMA GoOn ==
  ASSUME IInv, NEW s \in Sessions, NEW t \in Tx, tx' = [tx EXCEPT ![s] = t],
         UNCHANGED <<tables, adjusted, begun>>, Good(t),
         t.held = tx[s].held, t.owns = tx[s].owns
  PROVE  IInv'
<1>1. Alone(s, t) /\ begun' \in 0 .. MaxTransactions
  BY Current DEF Alone
<1>. QED
  BY <1>1, Quiet

--------------------------------------------------------------------------------
\* The statements, one by one.

LEMMA BeginKeeps ==
  ASSUME IInv, NEW s \in Sessions, NEW r \in Requests(s), Begin(s, r)
  PROVE  IInv'
<1>1. r \in Sales \cup Corrections \cup OrderActions
  BY DEF Requests
<1>2. begun' \in 0 .. MaxTransactions
  BY Current, TablesAssumption DEF Begin
<1>3. CASE r \in Sales \cup Corrections
  <2> DEFINE names == {r.names[i] : i \in DOMAIN r.names}
             t == [NoTx EXCEPT !.pc = "lock", !.req = r, !.todo = names]
  <2>1. tx' = [tx EXCEPT ![s] = t]
    BY <1>1, <1>3, Kinds DEF Begin
  <2>2. names \subseteq Names
    BY <1>3, NamesOf
  <2>3. t \in Tx
    BY <1>3, <2>2 DEF NoTx, Tx, Points, NoCustomer, CustomerRow, NoOrder, Answers
  <2>4. /\ t.pc = "lock" /\ t.req = r /\ t.todo = names /\ t.held = {} /\ t.owns = NoOrder
        /\ t.fresh = FALSE
    BY DEF NoTx
  <2>5. \A p \in Products : Touches(r, p) => p \in names
    <3>1. CASE r \in Sales
      BY <3>1, SaleType DEF Touches
    <3>2. CASE r \in Corrections
      BY <1>1, <3>2, Kinds, CorrectionType DEF Touches
    <3>. QED
      BY <1>3, <3>1, <3>2
  <2>6. r \notin OrderActions
    BY <1>1, <1>3, Kinds
  <2>. HIDE DEF t, names
  <2>7. Good(t)
    BY <1>1, <2>4, <2>5, <2>6 DEF Good, Sound, Covered, Undoing, Numbered, Checked
  <2>. QED
    BY <1>2, <2>1, <2>3, <2>4, <2>7, HoldsNothing, Quiet DEF Begin
<1>4. CASE r \in OrderActions
  <2> DEFINE t == [NoTx EXCEPT !.pc = "lock_order", !.req = r]
  <2>1. tx' = [tx EXCEPT ![s] = t]
    BY <1>1, <1>4, Kinds DEF Begin
  <2>2. t \in Tx
    BY <1>4 DEF NoTx, Tx, Points, NoCustomer, CustomerRow, NoOrder, Answers
  <2>3. /\ t.pc = "lock_order" /\ t.req = r /\ t.todo = {} /\ t.held = {} /\ t.owns = NoOrder
        /\ t.fresh = FALSE
    BY DEF NoTx
  <2>4. r \notin Sales \cup Corrections
    BY <1>1, <1>4, Kinds
  <2>. HIDE DEF t
  <2>5. Good(t)
    BY <1>4, <2>3, <2>4 DEF Good, Sound, Covered, Undoing, Numbered, Checked
  <2>. QED
    BY <1>2, <2>1, <2>2, <2>3, <2>5, HoldsNothing, Quiet DEF Begin
<1>. QED
  BY <1>1, <1>3, <1>4

LEMMA LockOrderKeeps ==
  ASSUME IInv, NEW s \in Sessions, LockOrder(s)
  PROVE  IInv'
<1> DEFINE r == tx[s].req
           items == {p \in Products : orders[r.order].items[p] > 0}
<1>1. CASE Ended(s, "refused")
  BY <1>1, EndQuiet DEF LockOrder, Answers
<1>2. CASE /\ Undoable(r)
           /\ tx' = [tx EXCEPT ![s].owns = r.order,
                               ![s].pc = IF IsFull(r) THEN "lock" ELSE "customer",
                               ![s].todo = IF IsFull(r) THEN items ELSE {}]
  <2> DEFINE t == [tx[s] EXCEPT !.owns = r.order, !.pc = IF IsFull(r) THEN "lock" ELSE "customer",
                                !.todo = IF IsFull(r) THEN items ELSE {}]
  <2>1. tx' = [tx EXCEPT ![s] = t]
    BY <1>2, Current
  <2>2. r \in OrderActions /\ tx[s].held = {} /\ tx[s].fresh = FALSE
    BY Current DEF LockOrder, Sound, Tx
  <2>3. r.order \in OrderIds /\ r \notin Sales \cup Corrections
    BY <2>2, OrderActionType, Kinds
  <2>4. items \subseteq Products
    OBVIOUS
  <2>5. t \in Tx
    <3>1. (IF IsFull(r) THEN items ELSE {}) \subseteq Names \cup Products
      BY <2>4
    <3>2. (IF IsFull(r) THEN "lock" ELSE "customer") \in Points
      BY DEF Points
    <3>3. tx[s] \in Tx
      BY Current
    <3>. HIDE DEF items, r
    <3>. QED
      BY <2>3, <3>1, <3>2, <3>3 DEF Tx
  <2>6. /\ t.req = r /\ t.held = {} /\ t.owns = r.order /\ t.fresh = FALSE
        /\ t.pc = IF IsFull(r) THEN "lock" ELSE "customer"
        /\ t.pc = "customer" => t.todo = {}
    BY <2>2, Current DEF Tx
  <2>7. orders[r.order].status = "completed"
    BY <1>2 DEF Undoable
  <2>8. Alone(s, t)
    BY <2>6, <2>7 DEF LockOrder, Alone
  <2>. HIDE DEF t, items
  <2>9. Good(t)
    BY <1>2, <2>2, <2>3, <2>6 DEF Good, Sound, Covered, Undoing, Numbered, Checked
  <2>. QED
    BY <2>1, <2>5, <2>8, <2>9, Current, Quiet DEF LockOrder
<1>. QED
  BY <1>1, <1>2 DEF LockOrder

LEMMA LockProductKeeps ==
  ASSUME IInv, NEW s \in Sessions, LockProduct(s)
  PROVE  IInv'
<1>1. PICK n \in tx[s].todo :
        /\ Asks(s, n)
        /\ \/ Ended(s, "refused")
           \/ /\ n \in Products /\ ~LockedByOther(s, n)
              /\ tx' = [tx EXCEPT ![s].todo = @ \ {n}, ![s].held = @ \cup {n}]
        /\ UNCHANGED <<tables, adjusted, begun>>
  BY DEF LockProduct
<1>2. CASE Ended(s, "refused")
  BY <1>1, <1>2, EndQuiet DEF Answers
<1>3. CASE /\ n \in Products /\ ~LockedByOther(s, n)
           /\ tx' = [tx EXCEPT ![s].todo = @ \ {n}, ![s].held = @ \cup {n}]
  <2> DEFINE t == [tx[s] EXCEPT !.todo = @ \ {n}, !.held = @ \cup {n}]
  <2>1. tx' = [tx EXCEPT ![s] = t]
    BY <1>3, Current
  <2>2. t \in Tx
    <3>1. tx[s].todo \ {n} \subseteq Names \cup Products /\ tx[s].held \cup {n} \subseteq Products
      BY <1>3, Current DEF Tx
    <3>. QED
      BY <3>1, Current DEF Tx
  <2>3. /\ t.pc = "lock" /\ t.req = tx[s].req /\ t.owns = tx[s].owns /\ t.fresh = tx[s].fresh
        /\ t.todo = tx[s].todo \ {n} /\ t.held = tx[s].held \cup {n} /\ t.id = tx[s].id
    BY <1>1, Current DEF Tx, Asks
  <2>4. Alone(s, t)
    BY <1>3, <2>3, Current DEF Alone, LockedByOther
  <2>. HIDE DEF t
  <2>5. Sound(t)
    BY <1>1, <2>3, Current DEF Sound, Asks
  <2>6. Good(t)
    BY <1>1, <2>3, <2>5, Current DEF Good, Covered, Undoing, Numbered, Asks, Checked
  <2>. QED
    BY <1>1, <2>1, <2>2, <2>4, <2>6, Current, Quiet
<1>. QED
  BY <1>1, <1>2, <1>3

LEMMA ValidateKeeps ==
  ASSUME IInv, NEW s \in Sessions, Validate(s)
  PROVE  IInv'
<1> DEFINE r == tx[s].req
           t == [tx[s] EXCEPT !.pc = IF r.op = "stock_update" THEN "commit" ELSE "customer"]
<1>1. CASE Ended(s, "refused")
  BY <1>1, EndQuiet DEF Validate, Answers
<1>2. CASE Affordable(r) /\ Goto(s, IF r.op = "stock_update" THEN "commit" ELSE "customer")
  <2>1. tx' = [tx EXCEPT ![s] = t]
    BY <1>2, Current DEF Goto
  <2>2. t \in Tx
    BY Current DEF Tx, Points
  <2>3. /\ t.pc = IF r.op = "stock_update" THEN "commit" ELSE "customer"
        /\ t.req = r /\ t.owns = tx[s].owns /\ t.fresh = tx[s].fresh
        /\ t.todo = tx[s].todo /\ t.held = tx[s].held
    BY Current DEF Tx
  <2>4. r \in Sales \cup Corrections \cup OrderActions /\ tx[s].pc = "lock" /\ tx[s].todo = {}
    BY Current DEF Validate, Sound
  <2>5. r.op = "stock_update" <=> r \in Corrections
    BY <2>4, Kinds
  <2>6. /\ r \in Corrections => r \notin Sales \cup OrderActions
        /\ r \in Sales => r \notin OrderActions
    BY <2>4, Kinds
  <2>. HIDE DEF t, r
  <2>7. Sound(t)
    BY <2>3, <2>4, <2>5, <2>6, Current DEF Sound, r, NoOrder
  <2>8. Good(t)
    BY <1>2, <2>3, <2>4, <2>5, <2>6, <2>7, Current DEF Good, Covered, Undoing, Numbered, Checked, r
  <2>. QED
    BY <2>1, <2>2, <2>3, <2>8, GoOn DEF Validate
<1>. QED
  BY <1>1, <1>2 DEF Validate

LEMMA ReadCustomerKeeps ==
  ASSUME IInv, NEW s \in Sessions, ReadCustomer(s)
  PROVE  IInv'
<1> DEFINE r == tx[s].req
           c == CustomerOf(r)
<1>1. /\ tx[s].pc = "customer" /\ r \in Sales \cup OrderActions /\ tx[s].todo = {}
      /\ tx[s].fresh = FALSE
  BY Current DEF ReadCustomer, Sound, Tx
<1>2. /\ r.op = "create_order" <=> r \in Sales
      /\ r \in Sales => r \notin OrderActions \cup Corrections
      /\ r \in OrderActions => r \notin Corrections
  BY <1>1, Kinds
<1>3. CASE r.op = "create_order" /\ Goto(s, "register")
  <2> DEFINE t == [tx[s] EXCEPT !.pc = "register"]
  <2>1. tx' = [tx EXCEPT ![s] = t] /\ t \in Tx
    BY <1>3, Current DEF Goto, Tx, Points
  <2>2. /\ t.pc = "register" /\ t.req = r /\ t.owns = tx[s].owns /\ t.fresh = FALSE
        /\ t.todo = {} /\ t.held = tx[s].held
    BY <1>1, Current DEF Tx
  <2>. HIDE DEF t, r
  <2>3. Good(t)
    BY <1>1, <1>2, <1>3, <2>2, Current
    DEF Good, Sound, Covered, Undoing, Numbered, Checked, NoOrder, r
  <2>. QED
    BY <2>1, <2>2, <2>3, GoOn DEF ReadCustomer
<1>4. CASE tx' = [tx EXCEPT ![s].snap = customers[c],
                            ![s].pc = IF r.op = "create_order" THEN "number" ELSE "commit"]
  <2> DEFINE t == [tx[s] EXCEPT !.snap = customers[c],
                                !.pc = IF r.op = "create_order" THEN "number" ELSE "commit"]
  <2>1. c \in Customers
    <3>1. CASE r \in Sales
      BY <1>2, <3>1, SaleType DEF CustomerOf
    <3>2. CASE r \in OrderActions
      BY <1>2, <3>2, OrderActionType DEF CustomerOf, IInv, TypeOK, OrderRow
    <3>. QED
      BY <1>1, <3>1, <3>2
  <2>2. customers[c] \in CustomerRow
    BY <2>1 DEF IInv, TypeOK
  <2>3. tx' = [tx EXCEPT ![s] = t] /\ t \in Tx
    BY <1>4, <2>2, Current DEF Tx, Points
  <2>4. /\ t.pc = IF r.op = "create_order" THEN "number" ELSE "commit"
        /\ t.req = r /\ t.owns = tx[s].owns /\ t.fresh = FALSE
        /\ t.todo = {} /\ t.held = tx[s].held
    BY <1>1, Current DEF Tx
  <2>. HIDE DEF t, r, c
  <2>5. Good(t)
    BY <1>1, <1>2, <2>4, Current
    DEF Good, Sound, Covered, Undoing, Numbered, Checked, NoOrder, r
  <2>. QED
    BY <2>3, <2>4, <2>5, GoOn DEF ReadCustomer
<1>. QED
  BY <1>3, <1>4 DEF ReadCustomer

LEMMA RegisterKeeps ==
  ASSUME IInv, NEW s \in Sessions, Register(s)
  PROVE  IInv'
<1>1. CASE Ended(s, "database_error")
  BY <1>1, EndQuiet DEF Register, Answers
<1>2. CASE tx' = [tx EXCEPT ![s].fresh = TRUE, ![s].pc = "number"]
  <2> DEFINE t == [tx[s] EXCEPT !.fresh = TRUE, !.pc = "number"]
  <2>1. tx' = [tx EXCEPT ![s] = t] /\ t \in Tx
    BY <1>2, Current DEF Tx, Points
  <2>2. /\ t.pc = "number" /\ t.req = tx[s].req /\ t.owns = tx[s].owns
        /\ t.todo = tx[s].todo /\ t.held = tx[s].held
    BY Current DEF Tx
  <2>3. tx[s].pc = "register"
    BY DEF Register
  <2>. HIDE DEF t
  <2>4. Good(t)
    BY <2>2, <2>3, Current DEF Good, Sound, Covered, Undoing, Numbered, Checked, NoOrder
  <2>. QED
    BY <2>1, <2>2, <2>4, GoOn DEF Register
<1>. QED
  BY <1>1, <1>2 DEF Register

--------------------------------------------------------------------------------
\* Numbers.

\* next_order_id: the numbers below are exactly those of the orders there are.
LEMMA NextNumber ==
  ASSUME Contiguous
  PROVE  LET k == 1 + Max(Existing \cup {0})
         IN  k \in Nat /\ k # 0 /\ \A n \in OrderIds : n < k <=> n \in Existing
<1> DEFINE E == Existing \cup {0}
<1>1. E \subseteq Nat /\ E # {}
  <2>1. Existing \subseteq OrderIds /\ OrderIds \subseteq Nat
    BY TablesAssumption DEF Existing
  <2>2. 0 \in E
    OBVIOUS
  <2>. QED
    BY <2>1, <2>2
<1>2. IsFiniteSet(E)
  <2>1. Existing \subseteq OrderIds
    BY DEF Existing
  <2>. QED
    BY <2>1, TablesAssumption, FS_Subset, FS_AddElement
<1>3. \E m \in E : \A k \in E : m >= k
  BY <1>1, <1>2, Greatest
<1>4. Max(E) \in E /\ \A k \in E : Max(E) >= k
  BY <1>3 DEF Max
<1>5. ASSUME NEW n \in OrderIds PROVE n < 1 + Max(E) <=> n \in Existing
  <2>1. n \in Nat /\ n # 0 /\ Max(E) \in Nat
    BY <1>1, <1>4, TablesAssumption
  <2>2. n \in Existing => n < 1 + Max(E)
    BY <1>4, <2>1
  <2>3. ASSUME n < 1 + Max(E) PROVE n \in Existing
    <3>1. Max(E) # 0 /\ Max(E) \in Existing
      BY <1>4, <2>1, <2>3
    <3>. QED
      BY <2>1, <2>3, <3>1 DEF Contiguous
  <2>. QED
    BY <2>2, <2>3
<1>. QED
  BY <1>1, <1>4, <1>5

LEMMA ReadNumberKeeps ==
  ASSUME IInv, NEW s \in Sessions, ReadNumber(s)
  PROVE  IInv'
<1> DEFINE k == 1 + Max(Existing \cup {0})
           t == [tx[s] EXCEPT !.id = k, !.pc = "insert"]
<1>1. k \in Nat /\ k # 0 /\ \A n \in OrderIds : n < k <=> n \in Existing
  BY NextNumber DEF IInv
<1>2. tx[s].pc = "number" /\ tx' = [tx EXCEPT ![s] = t]
  BY Current DEF ReadNumber
<1>. HIDE DEF k
<1>3. t \in Tx
  BY <1>1, Current DEF Tx, Points
<1>4. /\ t.pc = "insert" /\ t.req = tx[s].req /\ t.owns = tx[s].owns /\ t.fresh = tx[s].fresh
      /\ t.todo = tx[s].todo /\ t.held = tx[s].held /\ t.id = k
  BY Current DEF Tx
<1>. HIDE DEF t
<1>5. Good(t)
  BY <1>1, <1>2, <1>4, Current
  DEF Good, Sound, Covered, Undoing, Numbered, Checked, NoOrder
<1>. QED
  BY <1>2, <1>3, <1>4, <1>5, GoOn DEF ReadNumber

LEMMA InsertOrderKeeps ==
  ASSUME IInv, NEW s \in Sessions, InsertOrder(s)
  PROVE  IInv'
<1> DEFINE o == tx[s].id
           t == [tx[s] EXCEPT !.owns = o, !.pc = "commit"]
<1>1. CASE Ended(s, "database_error")
  BY <1>1, EndQuiet DEF InsertOrder, Answers
<1>2. CASE ~Taken(o) /\ tx' = [tx EXCEPT ![s].owns = o, ![s].pc = "commit"]
  <2>1. tx[s].pc = "insert" /\ o \in OrderIds /\ o \in Nat /\ o # NoOrder
    BY TablesAssumption DEF InsertOrder, NoOrder
  <2>2. tx' = [tx EXCEPT ![s] = t] /\ t \in Tx
    BY <1>2, <2>1, Current DEF Tx, Points
  <2>3. /\ t.pc = "commit" /\ t.req = tx[s].req /\ t.owns = o /\ t.fresh = tx[s].fresh
        /\ t.todo = tx[s].todo /\ t.held = tx[s].held
    BY Current DEF Tx
  <2>4. t.req \in Sales /\ t.req \notin Corrections \cup OrderActions
    BY <2>1, <2>3, Kinds, Current DEF Sound
  <2>5. \A n \in OrderIds : n \in Existing <=> n < o
    <3>1. \A n \in OrderIds : n < o => n \in Existing
      BY <2>1, Current DEF Numbered
    <3>2. \A n \in Existing : n # o /\ ~(o < n)
      BY <1>2, <2>1 DEF Taken, IInv, Contiguous
    <3>3. \A n \in OrderIds : n \in Nat
      BY TablesAssumption
    <3>4. \A n \in Existing : n \in OrderIds /\ n < o
      BY <2>1, <3>2, <3>3 DEF Existing
    <3>. QED
      BY <3>1, <3>4
  <2>6. Alone(s, t)
    BY <1>2, <2>3, Current DEF InsertOrder, Alone
  <2>. HIDE DEF t, o
  <2>7. Good(t)
    BY <2>1, <2>3, <2>4, <2>5, Current DEF Good, Sound, Covered, Undoing, Numbered, Checked
  <2>. QED
    BY <2>2, <2>6, <2>7, Current, Quiet DEF InsertOrder
<1>. QED
  BY <1>1, <1>2 DEF InsertOrder

LEMMA ReturnKeeps ==
  ASSUME IInv, NEW s \in Sessions, Return(s)
  PROVE  IInv'
<1> DEFINE t == [tx[s] EXCEPT !.pc = "idle", !.answer = "none"]
<1>1. tx[s].pc = "answer" /\ tx' = [tx EXCEPT ![s] = t] /\ t \in Tx
  BY Current DEF Return, Tx, Points, Answers
<1>2. /\ t.pc = "idle" /\ t.req = tx[s].req /\ t.owns = tx[s].owns /\ t.fresh = tx[s].fresh
      /\ t.todo = tx[s].todo /\ t.held = tx[s].held
  BY Current DEF Tx
<1>. HIDE DEF t
<1>3. Good(t)
  BY <1>1, <1>2, Current DEF Good, Sound, Covered, Undoing, Numbered, Checked
<1>. QED
  BY <1>1, <1>2, <1>3, GoOn DEF Return

--------------------------------------------------------------------------------
\* Commits.

\* max(0, x) of the aggregates is a natural number.
LEMMA NotNegative ==
  ASSUME NEW x \in Int
  PROVE  Max({0, x}) \in Nat
<1>1. \E m \in {0, x} : \A k \in {0, x} : m >= k
  <2>1. CASE x >= 0
    BY <2>1
  <2>2. CASE 0 >= x
    BY <2>2
  <2>. QED
    BY <2>1, <2>2
<1>2. Max({0, x}) \in {0, x} /\ \A k \in {0, x} : Max({0, x}) >= k
  BY <1>1 DEF Max
<1>. QED
  BY <1>2

\* What rounding to cents does: halves go up.
LEMMA Rounding ==
  ASSUME NEW q \in Nat
  PROVE  ToCents(q) \in Nat /\ Cent * ToCents(q) <= q + 2 /\ q + 2 < Cent * ToCents(q) + Cent
BY DEF ToCents, Cent

\* An amount that fits into what remains, rounded onto what was given back before, goes
\* neither back nor beyond the total.
LEMMA RoundedWithin ==
  ASSUME NEW refunded \in Nat, NEW total \in Nat, NEW amount \in Nat,
         amount <= Cent * (total - refunded)
  PROVE  LET cents == ToCents(Cent * refunded + amount)
         IN  cents \in Nat /\ refunded <= cents /\ cents <= total
<1> DEFINE q == Cent * refunded + amount
<1>1. q \in Nat /\ Cent * refunded <= q /\ q <= Cent * total
  BY DEF Cent
<1>2. ToCents(q) \in Nat /\ Cent * ToCents(q) <= q + 2 /\ q + 2 < Cent * ToCents(q) + Cent
  BY <1>1, Rounding
<1>. HIDE DEF q
<1>3. refunded <= ToCents(q) /\ ToCents(q) <= total
  <2> DEFINE cents == ToCents(q)
  <2>1. cents \in Nat /\ 4 * cents <= q + 2 /\ q + 2 < 4 * cents + 4
    BY <1>2 DEF Cent
  <2>2. 4 * refunded <= q /\ q <= 4 * total
    BY <1>1 DEF Cent
  <2>. HIDE DEF cents
  <2>3. refunded <= cents /\ cents <= total
    BY <1>1, <2>1, <2>2
  <2>. QED
    BY <2>3 DEF cents
<1>. QED
  BY <1>2, <1>3 DEF q

\* Whatever the ORM writes back, the aggregates keep their type.
LEMMA CustomerKept ==
  ASSUME TypeOK, NEW c \in Customers, NEW snap \in CustomerRow, NEW n \in Nat,
         NEW new \in {SoldTo(snap, n), RefundedTo(snap, n), UndoneFor(snap, n)},
         customers' = [customers EXCEPT ![c] = Written(c, snap, new)]
  PROVE  customers' \in [Customers -> CustomerRow]
<1>1. snap.orders \in Nat /\ snap.spent \in Nat /\ snap.exists \in BOOLEAN
  BY DEF CustomerRow
<1>2. /\ Max({0, Cent * snap.spent - n}) \in Nat /\ Max({0, Cent * snap.spent - Cent * n}) \in Nat
      /\ Max({0, snap.orders - 1}) \in Nat
  <2>1. /\ Cent * snap.spent - n \in Int /\ Cent * snap.spent - Cent * n \in Int
        /\ snap.orders - 1 \in Int
    BY <1>1 DEF Cent
  <2>. QED
    BY <2>1, NotNegative
<1>3. SoldTo(snap, n).orders \in Nat /\ SoldTo(snap, n).spent \in Nat
  <2>1. snap.orders + 1 \in Nat /\ Cent * (snap.spent + n) \in Nat
    BY <1>1 DEF Cent
  <2>. QED
    BY <2>1 DEF SoldTo, CustomerRow
<1>4. /\ RefundedTo(snap, n).orders \in Nat /\ RefundedTo(snap, n).spent \in Nat
      /\ RefundedTo(snap, Cent * n).spent \in Nat /\ RefundedTo(snap, Cent * n).orders = snap.orders
  BY <1>1, <1>2 DEF RefundedTo, CustomerRow
<1>5. UndoneFor(snap, n).orders \in Nat /\ UndoneFor(snap, n).spent \in Nat
  <2> DEFINE back == RefundedTo(snap, Cent * n)
  <2>1. back.orders = snap.orders /\ back.spent \in Nat
    BY <1>4
  <2>2. back = [snap EXCEPT !.spent = back.spent]
    BY DEF RefundedTo, CustomerRow
  <2>3. UndoneFor(snap, n) = [back EXCEPT !.orders = Max({0, back.orders - 1})]
    BY DEF UndoneFor
  <2>. HIDE DEF back
  <2>4. back = [exists |-> snap.exists, orders |-> snap.orders, spent |-> back.spent]
    BY <2>2 DEF CustomerRow
  <2>5. UndoneFor(snap, n).orders = Max({0, snap.orders - 1})
        /\ UndoneFor(snap, n).spent = back.spent
    BY <2>1, <2>3, <2>4
  <2>. QED
    BY <1>2, <2>1, <2>5
<1>6. new.orders \in Nat /\ new.spent \in Nat
  BY <1>3, <1>4, <1>5
<1>7. customers[c].orders \in Nat /\ customers[c].spent \in Nat
  BY DEF TypeOK, CustomerRow
<1>8. Written(c, snap, new) \in CustomerRow
  <2>1. ToCents(new.spent) \in Nat
    BY <1>6, Rounding
  <2>. QED
    BY <1>6, <1>7, <2>1 DEF Written, CustomerRow
<1>. QED
  BY <1>8 DEF TypeOK

\* A commit of s keeps the invariant when what it does to the tables leaves the others'
\* grounds intact.
LEMMA Commit ==
  ASSUME IInv, NEW s \in Sessions, Committed(s), begun' = begun,
         stock' \in [Products -> Nat], orders' \in [OrderIds -> OrderRow],
         customers' \in [Customers -> CustomerRow], adjusted' \in [Products -> Int],
         \A u \in Sessions \ {s} : \A t : t = tx[u] => Good(t)',
         Contiguous', RefundsBounded'
  PROVE  IInv'
<1>1. PICK answer \in Answers : Ended(s, answer)
  BY DEF Committed, Answers
<1> DEFINE e == [NoTx EXCEPT !.pc = "answer", !.answer = answer]
<1>2. tx' = [tx EXCEPT ![s] = e]
  BY <1>1 DEF Ended
<1>3. e \in Tx /\ e.held = {} /\ e.owns = NoOrder /\ \A j : j = e => Good(j)'
  BY AnsweredTx
<1>. HIDE DEF e
<1>4. \A u \in Sessions : tx'[u] = IF u = s THEN e ELSE tx[u]
  BY <1>2, Current
<1>5. TypeOK'
  BY <1>2, <1>3, Current DEF TypeOK
<1>6. ASSUME NEW u \in Sessions PROVE Good(tx[u])'
  <2>1. PICK j : j = tx'[u]
    OBVIOUS
  <2>2. Good(j)'
    BY <1>3, <1>4, <2>1
  <2>. QED
    BY <2>1, <2>2
<1>7. Exclusive'
  BY <1>3, <1>4 DEF IInv, Exclusive
<1>. QED
  BY <1>5, <1>6, <1>7 DEF IInv, Working

\* A commit by s may lower the stock of products s has locked only.
LEMMA OthersCovered ==
  ASSUME IInv, NEW s \in Sessions, NEW u \in Sessions \ {s}, NEW t, t = tx[u],
         stock' \in [Products -> Nat],
         \A p \in Products : p \notin tx[s].held => stock'[p] >= stock[p]
  PROVE  Covered(t)'
<1>1. /\ t \in Tx /\ Sound(t) /\ Covered(t) /\ tx[s].held \cap t.held = {}
      /\ stock \in [Products -> Nat]
  BY Current DEF IInv, Exclusive, TypeOK
<1>2. ASSUME t.req \in Sales, t.pc \in Checked PROVE Affordable(t.req)'
  <2>1. t.req.op = "create_order" /\ t.req.demand \in [Products -> Nat] /\ t.pc # "lock" /\ t.todo = {}
    BY <1>1, <1>2, SaleType DEF Checked, Sound
  <2>2. ASSUME NEW p \in Products PROVE t.req.demand[p] <= stock'[p]
    <3>1. CASE t.req.demand[p] > 0
      <4>1. p \in t.held
        BY <1>1, <1>2, <2>1, <3>1 DEF Covered, Touches
      <4>2. stock'[p] >= stock[p] /\ t.req.demand[p] <= stock[p]
        BY <1>1, <1>2, <2>1, <4>1 DEF Covered, Affordable
      <4>. QED
        BY <1>1, <2>1, <4>2
    <3>2. CASE ~(t.req.demand[p] > 0)
      BY <2>1, <3>2
    <3>. QED
      BY <3>1, <3>2
  <2>. QED
    BY <2>1, <2>2 DEF Affordable
<1>3. ASSUME t.req \in Corrections, t.pc \in Checked PROVE Affordable(t.req)'
  <2>1. /\ t.req.op = "stock_update" /\ t.req.low \in [Products -> Int]
        /\ t.req \notin Sales /\ t.pc # "lock" /\ t.todo = {}
    BY <1>1, <1>3, CorrectionType, Kinds DEF Checked, Sound
  <2>2. ASSUME NEW p \in Products PROVE stock'[p] + t.req.low[p] >= 0
    <3>1. CASE t.req.low[p] # 0
      <4>1. p \in t.held
        BY <1>1, <1>3, <2>1, <3>1 DEF Covered, Touches
      <4>2. stock'[p] >= stock[p] /\ stock[p] + t.req.low[p] >= 0
        BY <1>1, <1>3, <2>1, <4>1 DEF Covered, Affordable
      <4>. QED
        BY <1>1, <2>1, <4>2
    <3>2. CASE t.req.low[p] = 0
      BY <2>1, <3>2
    <3>. QED
      BY <3>1, <3>2
  <2>. QED
    BY <2>1, <2>2 DEF Affordable
<1>. QED
  BY <1>1, <1>2, <1>3 DEF Covered

\* A commit by s that changes no order but the one it owns leaves the others' orders to them.
LEMMA OthersUndoing ==
  ASSUME IInv, NEW s \in Sessions, NEW u \in Sessions \ {s}, NEW t, t = tx[u],
         \A o \in OrderIds : o # tx[s].owns => orders'[o] = orders[o]
  PROVE  Undoing(t)'
<1>1. Sound(t) /\ Undoing(t) /\ (t.owns = tx[s].owns => t.owns = NoOrder)
  BY Current DEF IInv, Exclusive
<1>2. ASSUME t.pc \in {"lock", "customer", "commit"}, t.req \in OrderActions
      PROVE  orders'[t.req.order] = orders[t.req.order]
  <2>1. t.req.order \in OrderIds /\ t.req.order # NoOrder /\ t.owns = t.req.order
    BY <1>1, <1>2, OrderActionType, TablesAssumption DEF Sound, NoOrder
  <2>. QED
    BY <1>1, <2>1
<1>. QED
  BY <1>1, <1>2 DEF Undoing, Undoable, IsFull, RefundAmount, Remaining

\* A commit that adds no order adds nothing to what the others know of the numbers.
LEMMA OthersNumbered ==
  ASSUME Existing' = Existing, NEW t, Numbered(t)
  PROVE  Numbered(t)'
  BY DEF Numbered

\* What a session that commits has in hand.
LEMMA Committing ==
  ASSUME IInv, NEW s \in Sessions, tx[s].pc = "commit"
  PROVE  /\ tx[s].req \in Sales \cup Corrections \cup OrderActions
         /\ tx[s].req.op = "create_order" <=> tx[s].req \in Sales
         /\ tx[s].req.op = "stock_update" <=> tx[s].req \in Corrections
         /\ tx[s].req.op \in {"refund_order", "cancel_order"} <=> tx[s].req \in OrderActions
         /\ tx[s].todo = {} /\ tx[s].snap \in CustomerRow
<1>1. Sound(tx[s]) /\ tx[s] \in Tx
  BY Current
<1>. QED
  BY <1>1, Kinds DEF Sound, Tx

LEMMA CommitCorrectionKeeps ==
  ASSUME IInv, NEW s \in Sessions, CommitCorrection(s)
  PROVE  IInv'
<1> DEFINE r == tx[s].req
<1>1. /\ tx[s].pc = "commit" /\ r \in Corrections /\ r \notin Sales /\ tx[s].todo = {}
      /\ UNCHANGED <<orders, customers, begun>> /\ Committed(s)
      /\ stock' = [p \in Products |-> stock[p] + r.net[p]]
      /\ adjusted' = [p \in Products |-> adjusted[p] + r.net[p]]
  BY Committing DEF CommitCorrection
<1>2. stock \in [Products -> Nat] /\ adjusted \in [Products -> Int]
  BY DEF IInv, TypeOK
<1>3. /\ r.low \in [Products -> Int] /\ r.net \in [Products -> Int]
      /\ \A p \in Products : r.low[p] <= r.net[p]
  BY <1>1, CorrectionType
<1>4. \A p \in Products : stock[p] + r.low[p] >= 0
  <2>1. Affordable(r) /\ r.op = "stock_update"
    BY <1>1, Current, CorrectionType DEF Covered, Checked
  <2>. QED
    BY <2>1 DEF Affordable
<1>5. stock' \in [Products -> Nat]
  <2>1. \A p \in Products : stock[p] + r.net[p] \in Nat
    BY <1>2, <1>3, <1>4
  <2>. QED
    BY <1>1, <2>1
<1>6. adjusted' \in [Products -> Int]
  BY <1>1, <1>2, <1>3
<1>7. \A p \in Products : p \notin tx[s].held => stock'[p] >= stock[p]
  <2>1. \A p \in Products : p \notin tx[s].held => r.net[p] = 0
    BY <1>1, Current DEF Covered, Touches, Checked
  <2>. QED
    BY <1>1, <1>2, <1>3, <2>1
<1>8. Existing' = Existing /\ \A o \in OrderIds : orders'[o] = orders[o]
  BY <1>1 DEF Existing
<1>9. ASSUME NEW u \in Sessions \ {s}, NEW t, t = tx[u] PROVE Good(t)'
  BY <1>5, <1>7, <1>8, <1>9, OthersCovered, OthersUndoing, OthersNumbered, Current DEF Good, Sound
<1>10. Contiguous' /\ RefundsBounded'
  BY <1>1, <1>8 DEF IInv, Contiguous, RefundsBounded
<1>11. orders' \in [OrderIds -> OrderRow] /\ customers' \in [Customers -> CustomerRow]
  BY <1>1 DEF IInv, TypeOK
<1>. QED
  BY <1>1, <1>5, <1>6, <1>9, <1>10, <1>11, Commit

\* What CommitSale does to the orders.
LEMMA SaleOrders ==
  ASSUME IInv, NEW s \in Sessions, CommitSale(s)
  PROVE  LET r == tx[s].req
             o == tx[s].owns
         IN  /\ tx[s].pc = "commit" /\ r \in Sales /\ r \notin OrderActions /\ tx[s].todo = {}
             /\ o \in OrderIds /\ \A n \in OrderIds : n \in Existing <=> n < o
             /\ orders' = [orders EXCEPT ![o] = orders'[o]] /\ orders'[o] \in OrderRow
             /\ orders'[o].status = "completed" /\ orders'[o].refunded = 0
             /\ orders'[o].total > 0 /\ orders'[o].items = r.demand
             /\ \A p \in Products : r.demand[p] <= stock[p]
             /\ Existing' = Existing \cup {o}
<1> DEFINE r == tx[s].req
           o == tx[s].owns
           row == [status |-> "completed", customer |-> r.customer, items |-> r.demand,
                   total |-> r.total, refunded |-> 0]
<1>1. tx[s].pc = "commit" /\ r \in Sales /\ r \notin OrderActions /\ tx[s].todo = {}
  BY Committing DEF CommitSale
<1>2. o \in OrderIds /\ \A n \in OrderIds : n \in Existing <=> n < o
  BY <1>1, Current DEF Numbered
<1>3. /\ r.customer \in Customers /\ r.demand \in [Products -> Nat] /\ r.total \in Nat
      /\ r.total > 0 /\ r.op = "create_order"
  BY <1>1, SaleType
<1>4. row \in OrderRow
  BY <1>3 DEF OrderRow
<1>5. orders' = [orders EXCEPT ![o] = row] /\ orders \in [OrderIds -> OrderRow]
  BY DEF CommitSale, IInv, TypeOK
<1>6. orders'[o] = row
  BY <1>2, <1>5
<1>7. Affordable(r)
  BY <1>1, Current DEF Covered, Checked
<1>8. Existing' = Existing \cup {o}
  BY <1>2, <1>5 DEF Existing
<1>. QED
  BY <1>1, <1>2, <1>3, <1>4, <1>5, <1>6, <1>7, <1>8 DEF Affordable

LEMMA CommitSaleKeeps ==
  ASSUME IInv, NEW s \in Sessions, CommitSale(s)
  PROVE  IInv'
<1> DEFINE r == tx[s].req
           o == tx[s].owns
<1>1. /\ tx[s].pc = "commit" /\ r \in Sales /\ tx[s].todo = {}
      /\ o \in OrderIds /\ \A n \in OrderIds : n \in Existing <=> n < o
      /\ orders' = [orders EXCEPT ![o] = orders'[o]] /\ orders'[o] \in OrderRow
      /\ orders'[o].status = "completed" /\ orders'[o].refunded = 0 /\ orders'[o].total > 0
      /\ \A p \in Products : r.demand[p] <= stock[p]
      /\ Existing' = Existing \cup {o}
  BY SaleOrders
<1>2. /\ stock' = [p \in Products |-> stock[p] - r.demand[p]]
      /\ customers' = [customers EXCEPT ![r.customer] =
                          Written(r.customer, tx[s].snap, SoldTo(tx[s].snap, r.total))]
      /\ Committed(s) /\ UNCHANGED <<adjusted, begun>>
  BY DEF CommitSale
<1>3. /\ r.customer \in Customers /\ r.demand \in [Products -> Nat] /\ r.total \in Nat
      /\ tx[s].snap \in CustomerRow
  BY <1>1, SaleType, Committing
<1>4. TypeOK
  BY DEF IInv
<1>5. stock' \in [Products -> Nat]
  <2>1. \A p \in Products : stock[p] - r.demand[p] \in Nat
    BY <1>1, <1>3, <1>4 DEF TypeOK
  <2>. QED
    BY <1>2, <2>1
<1>6. orders' \in [OrderIds -> OrderRow] /\ \A n \in OrderIds : n # o => orders'[n] = orders[n]
  BY <1>1, <1>4 DEF TypeOK
<1>7. customers' \in [Customers -> CustomerRow] /\ adjusted' \in [Products -> Int]
  BY <1>2, <1>3, <1>4, CustomerKept DEF TypeOK
<1>8. \A p \in Products : p \notin tx[s].held => stock'[p] >= stock[p]
  <2>1. \A p \in Products : p \notin tx[s].held => ~(r.demand[p] > 0)
    BY <1>1, Current DEF Covered, Touches, Checked
  <2>. QED
    BY <1>2, <1>3, <1>4, <2>1 DEF TypeOK
<1>9. ASSUME NEW u \in Sessions \ {s}, NEW t, t = tx[u] PROVE Good(t)'
  <2>1. Covered(t)'
    BY <1>5, <1>8, <1>9, OthersCovered
  <2>2. Undoing(t)'
    BY <1>6, <1>9, OthersUndoing
  <2>3. Numbered(t)'
    <3>1. t.pc = "insert" => \A n \in OrderIds : n < t.id => n \in Existing'
      BY <1>1, <1>9, Current DEF Numbered
    <3>2. ASSUME t.pc = "commit", t.req \in Sales PROVE FALSE
      <4>1. t.owns \in OrderIds /\ \A n \in OrderIds : n \in Existing <=> n < t.owns
        BY <1>9, <3>2, Current DEF Numbered
      <4>2. t.owns # o
        BY <1>1, <1>9, <4>1, TablesAssumption DEF IInv, Exclusive, NoOrder
      <4>3. t.owns \in Nat /\ o \in Nat
        BY <1>1, <4>1, TablesAssumption
      <4>. QED
        BY <1>1, <4>1, <4>2, <4>3
    <3>. QED
      BY <3>1, <3>2 DEF Numbered
  <2>. QED
    BY <1>9, <2>1, <2>2, <2>3, Current DEF Good, Sound
<1>10. Contiguous'
  <2>1. ASSUME NEW m \in Existing', NEW n \in OrderIds, n < m PROVE n \in Existing'
    <3>1. m \in OrderIds /\ (m < o \/ m = o)
      BY <1>1 DEF Existing
    <3>2. n \in Nat /\ m \in Nat /\ o \in Nat
      BY <1>1, <3>1, TablesAssumption
    <3>. QED
      BY <1>1, <2>1, <3>1, <3>2
  <2>. QED
    BY <2>1 DEF Contiguous
<1>11. RefundsBounded'
  <2>1. ASSUME NEW n \in Existing'
        PROVE  /\ orders'[n].refunded <= orders'[n].total
               /\ orders'[n].status = "refunded" => orders'[n].refunded = orders'[n].total
    <3>1. CASE n = o
      BY <1>1, <3>1 DEF OrderRow
    <3>2. CASE n # o
      BY <1>1, <1>6, <3>2 DEF IInv, RefundsBounded, Existing
    <3>. QED
      BY <3>1, <3>2
  <2>. QED
    BY <2>1 DEF RefundsBounded
<1>. QED
  BY <1>2, <1>5, <1>6, <1>7, <1>9, <1>10, <1>11, Commit

\* An undo or a refund is about to change an order it owns, and which still stands.
LEMMA Refunding ==
  ASSUME IInv, NEW s \in Sessions, tx[s].pc = "commit",
         tx[s].req.op \in {"refund_order", "cancel_order"}
  PROVE  LET r == tx[s].req
             o == r.order
         IN  /\ r \in OrderActions /\ r \notin Sales \cup Corrections /\ o \in OrderIds
             /\ o = tx[s].owns /\ o \in Existing
             /\ orders[o] \in OrderRow /\ orders[o].status = "completed"
             /\ orders[o].refunded <= orders[o].total /\ Remaining(o) \in Nat
             /\ CustomerOf(r) \in Customers
             /\ ~IsFull(r) => /\ r.op = "refund_order" /\ RefundAmount(r) \in Nat
                              /\ RefundAmount(r) <= Cent * Remaining(o)
<1> DEFINE r == tx[s].req
           o == r.order
<1>1. r \in OrderActions /\ r \notin Sales \cup Corrections
  BY Committing, Kinds
<1>2. o \in OrderIds /\ r.amount \in Amounts \cup {Rest} /\ (r.op = "cancel_order" => r.amount = Rest)
  BY <1>1, OrderActionType
<1>3. o = tx[s].owns /\ Undoable(r)
  BY <1>1, Current DEF Sound, Undoing
<1>4. orders[o] \in OrderRow /\ orders[o].status = "completed"
  BY <1>2, <1>3 DEF IInv, TypeOK, Undoable
<1>5. o \in Existing
  BY <1>2, <1>4 DEF Existing
<1>6. /\ orders[o].refunded \in Nat /\ orders[o].total \in Nat
      /\ orders[o].refunded <= orders[o].total
  BY <1>4, <1>5 DEF IInv, RefundsBounded, OrderRow
<1>7. Remaining(o) \in Nat
  BY <1>6 DEF Remaining
<1>8. CustomerOf(r) \in Customers
  BY <1>1, <1>4, OrderActionType DEF CustomerOf, OrderRow
<1>9. ASSUME ~IsFull(r)
      PROVE  /\ r.op = "refund_order" /\ RefundAmount(r) \in Nat
             /\ RefundAmount(r) <= Cent * Remaining(o)
  <2>1. r.amount # Rest
    BY <1>9 DEF IsFull, RefundAmount
  <2>2. r.op # "cancel_order" /\ RefundAmount(r) = r.amount /\ r.amount \in Amounts
    BY <1>2, <2>1 DEF RefundAmount
  <2>3. r.op = "refund_order" /\ RefundAmount(r) \in Nat
    <3>1. \A a \in Amounts : a \in Nat
      BY RequestsAssumption
    <3>2. r.op \in {"refund_order", "cancel_order"}
      BY <1>1, OrderActionType
    <3>. QED
      BY <2>2, <3>1, <3>2
  <2>. QED
    BY <1>3, <2>3 DEF Undoable
<1>. QED
  BY <1>1, <1>2, <1>3, <1>4, <1>5, <1>6, <1>7, <1>8, <1>9

\* What is common to the undo and to the partial refund: a standing order gets another
\* status or another refunded amount.
LEMMA AmendKeeps ==
  ASSUME IInv, NEW s \in Sessions, tx[s].pc = "commit",
         tx[s].req.op \in {"refund_order", "cancel_order"}, Committed(s),
         NEW o, o = tx[s].req.order, NEW row \in OrderRow, orders' = [orders EXCEPT ![o] = row],
         row.status # "absent", row.refunded <= row.total,
         row.status = "refunded" => row.refunded = row.total,
         stock' \in [Products -> Nat], \A p \in Products : stock'[p] >= stock[p],
         customers' \in [Customers -> CustomerRow], UNCHANGED <<adjusted, begun>>
  PROVE  IInv'
<1>1. o \in OrderIds /\ o = tx[s].owns /\ o \in Existing
  BY Refunding
<1>2. orders \in [OrderIds -> OrderRow] /\ adjusted' \in [Products -> Int]
  BY DEF IInv, TypeOK
<1>3. \A n \in OrderIds : orders'[n] = IF n = o THEN row ELSE orders[n]
  BY <1>2
<1>4. Existing' = Existing
  BY <1>1, <1>3 DEF Existing
<1>5. ASSUME NEW u \in Sessions \ {s}, NEW t, t = tx[u] PROVE Good(t)'
  <2>1. Covered(t)'
    BY <1>5, OthersCovered
  <2>2. Undoing(t)'
    BY <1>1, <1>3, <1>5, OthersUndoing
  <2>3. Numbered(t)'
    BY <1>4, <1>5, OthersNumbered, Current
  <2>. QED
    BY <1>5, <2>1, <2>2, <2>3, Current DEF Good, Sound
<1>6. Contiguous'
  BY <1>4 DEF IInv, Contiguous
<1>7. RefundsBounded'
  BY <1>3, <1>4 DEF IInv, RefundsBounded, Existing
<1>8. orders' \in [OrderIds -> OrderRow]
  BY <1>2
<1>. QED
  BY <1>2, <1>5, <1>6, <1>7, <1>8, Commit

\* What CommitUndo does to the order.
LEMMA UndoneRow ==
  ASSUME IInv, NEW s \in Sessions, CommitUndo(s)
  PROVE  LET r == tx[s].req
             o == r.order
         IN  \E row \in OrderRow :
                /\ orders' = [orders EXCEPT ![o] = row] /\ orders'[o] = row
                /\ row.customer = orders[o].customer /\ row.items = orders[o].items
                /\ row.total = orders[o].total
                /\ \/ row.status = "cancelled" /\ row.refunded = orders[o].refunded
                   \/ row.status = "refunded" /\ row.refunded = orders[o].total
<1> DEFINE r == tx[s].req
           o == r.order
           row == [orders[o] EXCEPT
                     !.status = IF r.op = "cancel_order" THEN "cancelled" ELSE "refunded",
                     !.refunded = IF r.op = "cancel_order" THEN @ ELSE orders[o].total]
<1>1. o \in OrderIds /\ orders[o] \in OrderRow /\ orders \in [OrderIds -> OrderRow]
  BY Refunding DEF CommitUndo, IInv, TypeOK
<1>2. orders' = [orders EXCEPT ![o] = row]
  BY <1>1 DEF CommitUndo
<1>3. orders'[o] = row
  BY <1>1, <1>2
<1>4. /\ row \in OrderRow /\ row.customer = orders[o].customer /\ row.items = orders[o].items
      /\ row.total = orders[o].total
      /\ row.status = IF r.op = "cancel_order" THEN "cancelled" ELSE "refunded"
      /\ row.refunded = IF r.op = "cancel_order" THEN orders[o].refunded ELSE orders[o].total
  BY <1>1 DEF OrderRow
<1>. HIDE DEF row
<1>. QED
  BY <1>2, <1>3, <1>4

LEMMA CommitUndoKeeps ==
  ASSUME IInv, NEW s \in Sessions, CommitUndo(s)
  PROVE  IInv'
<1> DEFINE r == tx[s].req
           o == r.order
           c == CustomerOf(r)
           amount == IF r.op = "cancel_order" THEN orders[o].total ELSE Remaining(o)
<1>1. /\ tx[s].pc = "commit" /\ r.op \in {"refund_order", "cancel_order"} /\ Committed(s)
      /\ stock' = [p \in Products |-> stock[p] + orders[o].items[p]]
      /\ customers' = [customers EXCEPT ![c] = Written(c, tx[s].snap, UndoneFor(tx[s].snap, amount))]
      /\ UNCHANGED <<adjusted, begun>>
  BY DEF CommitUndo
<1>2. /\ o \in OrderIds /\ orders[o] \in OrderRow /\ Remaining(o) \in Nat /\ c \in Customers
      /\ orders[o].refunded <= orders[o].total
  BY <1>1, Refunding
<1>3. stock \in [Products -> Nat] /\ orders[o].items \in [Products -> Nat]
  BY <1>2 DEF IInv, TypeOK, OrderRow
<1>4. stock' \in [Products -> Nat] /\ \A p \in Products : stock'[p] >= stock[p]
  BY <1>1, <1>3
<1>5. amount \in Nat /\ tx[s].snap \in CustomerRow
  BY <1>1, <1>2, Committing DEF OrderRow
<1>6. customers' \in [Customers -> CustomerRow]
  BY <1>1, <1>2, <1>5, CustomerKept DEF IInv
<1>7. PICK row \in OrderRow :
        /\ orders' = [orders EXCEPT ![o] = row] /\ row.total = orders[o].total
        /\ \/ row.status = "cancelled" /\ row.refunded = orders[o].refunded
           \/ row.status = "refunded" /\ row.refunded = orders[o].total
  BY UndoneRow
<1>8. /\ row.status # "absent" /\ row.refunded <= row.total
      /\ row.status = "refunded" => row.refunded = row.total
  BY <1>2, <1>7 DEF OrderRow
<1>. HIDE DEF amount, c
<1>. QED
  BY <1>1, <1>4, <1>6, <1>7, <1>8, AmendKeeps

\* What CommitPartialRefund does to the order.
LEMMA RefundedRow ==
  ASSUME IInv, NEW s \in Sessions, CommitPartialRefund(s)
  PROVE  LET r == tx[s].req
             o == r.order
         IN  \E row \in OrderRow :
                /\ orders' = [orders EXCEPT ![o] = row] /\ orders'[o] = row
                /\ row.customer = orders[o].customer /\ row.items = orders[o].items
                /\ row.total = orders[o].total /\ row.status = "completed"
                /\ orders[o].refunded <= row.refunded /\ row.refunded <= orders[o].total
<1> DEFINE r == tx[s].req
           o == r.order
           cents == ToCents(Cent * orders[o].refunded + RefundAmount(r))
           row == [orders[o] EXCEPT !.refunded = cents]
<1>1. /\ o \in OrderIds /\ orders[o] \in OrderRow /\ orders \in [OrderIds -> OrderRow]
      /\ orders[o].status = "completed" /\ RefundAmount(r) \in Nat
      /\ RefundAmount(r) <= Cent * (orders[o].total - orders[o].refunded)
  BY Refunding DEF CommitPartialRefund, IInv, TypeOK, Remaining
<1>2. orders' = [orders EXCEPT ![o] = row]
  BY <1>1 DEF CommitPartialRefund
<1>3. orders'[o] = row
  BY <1>1, <1>2
<1>4. cents \in Nat /\ orders[o].refunded <= cents /\ cents <= orders[o].total
  BY <1>1, RoundedWithin DEF OrderRow
<1>. HIDE DEF cents
<1>5. /\ row \in OrderRow /\ row.customer = orders[o].customer /\ row.items = orders[o].items
      /\ row.total = orders[o].total /\ row.status = orders[o].status /\ row.refunded = cents
  BY <1>1, <1>4 DEF OrderRow
<1>. HIDE DEF row
<1>. QED
  BY <1>1, <1>2, <1>3, <1>4, <1>5

LEMMA CommitPartialRefundKeeps ==
  ASSUME IInv, NEW s \in Sessions, CommitPartialRefund(s)
  PROVE  IInv'
<1> DEFINE r == tx[s].req
           o == r.order
           c == CustomerOf(r)
<1>1. /\ tx[s].pc = "commit" /\ r.op = "refund_order" /\ Committed(s) /\ ~IsFull(r)
      /\ customers' = [customers EXCEPT
                         ![c] = Written(c, tx[s].snap, RefundedTo(tx[s].snap, RefundAmount(r)))]
      /\ UNCHANGED <<stock, adjusted, begun>>
  BY DEF CommitPartialRefund
<1>2. RefundAmount(r) \in Nat /\ c \in Customers /\ tx[s].snap \in CustomerRow
  BY <1>1, Refunding, Committing
<1>3. customers' \in [Customers -> CustomerRow]
  BY <1>1, <1>2, CustomerKept DEF IInv
<1>4. stock' \in [Products -> Nat] /\ \A p \in Products : stock'[p] >= stock[p]
  BY <1>1 DEF IInv, TypeOK
<1>5. PICK row \in OrderRow :
        /\ orders' = [orders EXCEPT ![o] = row] /\ row.total = orders[o].total
        /\ row.status = "completed" /\ row.refunded <= orders[o].total
  BY RefundedRow
<1>6. row.status # "absent" /\ row.status # "refunded" /\ row.refunded <= row.total
  BY <1>5 DEF OrderRow
<1>. QED
  BY <1>1, <1>3, <1>4, <1>5, <1>6, AmendKeeps

--------------------------------------------------------------------------------
\* The invariant.

LEMMA IInvInit == Init => IInv
<1> SUFFICES ASSUME Init PROVE IInv
  OBVIOUS
<1>1. NoTx \in Tx /\ Good(NoTx) /\ NoTx.held = {} /\ NoTx.owns = NoOrder
  <2>1. NoTx \in Tx
    BY DEF NoTx, Tx, Points, NoCustomer, CustomerRow, NoOrder, Answers
  <2>2. /\ NoTx.pc = "idle" /\ NoTx.held = {} /\ NoTx.owns = NoOrder /\ NoTx.todo = {}
        /\ NoTx.fresh = FALSE /\ NoTx.req = NoRequest
    BY DEF NoTx
  <2>3. NoRequest \notin Sales \cup Corrections \cup OrderActions
    BY RequestsAssumption
  <2>. QED
    BY <2>1, <2>2, <2>3 DEF Good, Sound, Covered, Undoing, Numbered, Checked
<1>2. \A s \in Sessions : tx[s] = NoTx
  BY DEF Init
<1>3. Working /\ Exclusive
  BY <1>1, <1>2 DEF Working, Exclusive
<1>4. TypeOK
  BY <1>1, SeedAssumption, TablesAssumption DEF Init, TypeOK
<1>5. ASSUME NEW o \in Existing
      PROVE  /\ o \in OrderIds /\ SeedOrders[o].status = "completed" /\ SeedOrders[o].refunded = 0
             /\ SeedOrders[o].total > 0
             /\ \A n \in OrderIds : n < o => SeedOrders[n].status = "completed"
  BY SeedAssumption DEF Init, Existing
<1>6. Contiguous
  BY <1>5 DEF Contiguous, Init, Existing
<1>7. RefundsBounded
  <2>1. ASSUME NEW o \in Existing
        PROVE  orders[o].refunded <= orders[o].total /\ orders[o].status # "refunded"
               /\ orders[o].refunded \in Nat /\ orders[o].total \in Nat
    BY <1>4, <1>5 DEF Init, TypeOK, OrderRow
  <2>. QED
    BY <2>1 DEF RefundsBounded
<1>. QED
  BY <1>3, <1>4, <1>6, <1>7 DEF IInv

LEMMA StepKeeps ==
  ASSUME IInv, NEW s \in Sessions, Step(s)
  PROVE  IInv'
<1>1. CASE StoreFails(s)
  BY <1>1, EndQuiet DEF StoreFails, Answers
<1>2. CASE DeadlockVictim(s)
  BY <1>2, EndQuiet DEF DeadlockVictim, Answers
<1>. QED
  BY <1>1, <1>2, LockOrderKeeps, LockProductKeeps, ValidateKeeps, ReadCustomerKeeps,
     RegisterKeeps, ReadNumberKeeps, InsertOrderKeeps, CommitSaleKeeps, CommitCorrectionKeeps,
     CommitUndoKeeps, CommitPartialRefundKeeps, ReturnKeeps DEF Step

LEMMA IInvStep == IInv /\ [Next]_vars => IInv'
<1> SUFFICES ASSUME IInv, [Next]_vars PROVE IInv'
  OBVIOUS
<1>1. CASE UNCHANGED vars
  <2>1. \A u \in Sessions : tx'[u] = tx[u]
    BY <1>1 DEF vars
  <2>2. Existing' = Existing
    BY <1>1 DEF vars, tables, Existing
  <2>3. ASSUME NEW u \in Sessions PROVE Good(tx[u])'
    <3>1. PICK j : j = tx'[u]
      OBVIOUS
    <3>2. Good(j)
      BY <2>1, <3>1 DEF IInv, Working
    <3>3. Good(j)'
      BY <1>1, <3>2, TablesKept DEF vars, tables
    <3>. QED
      BY <3>1, <3>3
  <2>. QED
    BY <1>1, <2>1, <2>2, <2>3
    DEF IInv, Working, vars, tables, TypeOK, Exclusive, Contiguous, RefundsBounded
<1>2. CASE Next
  BY <1>2, BeginKeeps, StepKeeps DEF Next
<1>. QED
  BY <1>1, <1>2

LEMMA Inductive == Spec => []IInv
  BY IInvInit, IInvStep, PTL DEF Spec

\* Stock and aggregates are never negative, and the tables keep their types: no interleaving
\* of statements sells what is not there.
THEOREM TypeCorrect == Spec => []TypeOK
<1>1. IInv => TypeOK
  BY DEF IInv
<1>. QED
  BY <1>1, Inductive, PTL

\* What is recorded as given back for an order never exceeds its total, whatever fractions
\* of a cent its refunds have, and is all of it once the order is marked refunded.
THEOREM RefundsStayBounded == Spec => []RefundsBounded
<1>1. IInv => RefundsBounded
  BY DEF IInv
<1>. QED
  BY <1>1, Inductive, PTL

--------------------------------------------------------------------------------
\* The refinement of Shop.

LEMMA SaleImplements ==
  ASSUME IInv, NEW s \in Sessions, CommitSale(s)
  PROVE  Abstract!ShopNext
<1> DEFINE r == tx[s].req
           o == tx[s].owns
<1>1. /\ o \in OrderIds /\ \A n \in OrderIds : n \in Existing <=> n < o
      /\ orders' = [orders EXCEPT ![o] = orders'[o]]
      /\ orders'[o].status = "completed" /\ orders'[o].refunded = 0
      /\ orders'[o].items = r.demand
      /\ \A p \in Products : r.demand[p] <= stock[p]
  BY SaleOrders
<1>2. stock' = [p \in Products |-> stock[p] - orders'[o].items[p]]
  BY <1>1 DEF CommitSale
<1>3. orders[o].status = "absent"
  <2>1. o \in OrderIds
    BY <1>1
  <2>2. o \in Existing <=> o < o
    BY <1>1, <2>1
  <2>3. o \in Nat
    BY <2>1, TablesAssumption
  <2>4. \A n \in Nat : ~(n < n)
    OBVIOUS
  <2>5. o \notin Existing
    BY <2>2, <2>3, <2>4
  <2>. QED
    BY <2>1, <2>5 DEF Existing
<1>4. \A n \in OrderIds : n \in Abstract!Existing <=> n < o
  BY <1>1 DEF Existing, Abstract!Existing
<1>. QED
  BY <1>1, <1>2, <1>3, <1>4 DEF Abstract!ShopNext, Abstract!Sell

LEMMA CorrectionImplements ==
  ASSUME IInv', NEW s \in Sessions, CommitCorrection(s)
  PROVE  Abstract!ShopNext
<1>1. stock' \in [Products -> Nat]
  BY DEF IInv, TypeOK
<1>. QED
  BY <1>1 DEF CommitCorrection, Abstract!ShopNext, Abstract!Correct

\* A changed row that keeps what was sold is what Amend allows.
LEMMA Amends ==
  ASSUME IInv, NEW o \in OrderIds, orders[o].status = "completed", NEW row \in OrderRow,
         orders' = [orders EXCEPT ![o] = row], row.customer = orders[o].customer,
         row.items = orders[o].items, row.total = orders[o].total
  PROVE  Abstract!Amend(o) /\ orders'[o] = row
<1>1. orders \in [OrderIds -> OrderRow] /\ orders[o] \in OrderRow
  BY DEF IInv, TypeOK
<1>2. orders'[o] = row
  BY <1>1
<1>3. row = [orders[o] EXCEPT !.status = row.status, !.refunded = row.refunded]
  BY <1>1 DEF OrderRow
<1>4. orders' = [orders EXCEPT ![o].status = orders'[o].status, ![o].refunded = orders'[o].refunded]
  BY <1>1, <1>2, <1>3
<1>. QED
  BY <1>2, <1>4 DEF Abstract!Amend

LEMMA UndoImplements ==
  ASSUME IInv, NEW s \in Sessions, CommitUndo(s)
  PROVE  Abstract!ShopNext
<1> DEFINE o == tx[s].req.order
<1>1. o \in OrderIds /\ orders[o].status = "completed"
  BY Refunding DEF CommitUndo
<1>2. stock' = [p \in Products |-> stock[p] + orders[o].items[p]]
  BY DEF CommitUndo
<1>3. PICK row \in OrderRow :
        /\ orders' = [orders EXCEPT ![o] = row]
        /\ row.customer = orders[o].customer /\ row.items = orders[o].items
        /\ row.total = orders[o].total
        /\ \/ row.status = "cancelled" /\ row.refunded = orders[o].refunded
           \/ row.status = "refunded" /\ row.refunded = orders[o].total
  BY UndoneRow
<1>. HIDE DEF o
<1>4. Abstract!Amend(o) /\ orders'[o] = row
  BY <1>1, <1>3, Amends
<1>5. Abstract!Cancel(o) \/ Abstract!RefundRest(o)
  BY <1>2, <1>3, <1>4 DEF Abstract!Cancel, Abstract!RefundRest, Abstract!Restocked
<1>. QED
  BY <1>1, <1>5 DEF Abstract!ShopNext

LEMMA PartialRefundImplements ==
  ASSUME IInv, NEW s \in Sessions, CommitPartialRefund(s)
  PROVE  Abstract!ShopNext
<1> DEFINE o == tx[s].req.order
<1>1. o \in OrderIds /\ orders[o].status = "completed" /\ UNCHANGED stock
  BY Refunding DEF CommitPartialRefund
<1>2. PICK row \in OrderRow :
        /\ orders' = [orders EXCEPT ![o] = row]
        /\ row.customer = orders[o].customer /\ row.items = orders[o].items
        /\ row.total = orders[o].total /\ row.status = "completed"
        /\ orders[o].refunded <= row.refunded /\ row.refunded <= orders[o].total
  BY RefundedRow
<1>. HIDE DEF o
<1>3. Abstract!Amend(o) /\ orders'[o] = row
  BY <1>1, <1>2, Amends
<1>. QED
  BY <1>1, <1>2, <1>3 DEF Abstract!ShopNext, Abstract!RefundPart

\* Seen from outside their transactions, the tools' interleaved statements are whole
\* operations: no step of any session shows half of a sale, a correction or an undo.
THEOREM Implementation == Spec => ImplementsShop
<1>1. Init => Abstract!ShopInit
  BY DEF Init, Abstract!ShopInit
<1>2. IInv /\ IInv' /\ [Next]_vars => [Abstract!ShopNext]_(Abstract!shopVars)
  <2> SUFFICES ASSUME IInv, IInv', [Next]_vars
               PROVE  Abstract!ShopNext \/ UNCHANGED <<stock, orders>>
    BY DEF Abstract!shopVars
  <2>1. CASE UNCHANGED vars
    BY <2>1 DEF vars, tables
  <2>2. ASSUME NEW s \in Sessions, NEW r \in Requests(s), Begin(s, r)
        PROVE  UNCHANGED <<stock, orders>>
    BY <2>2 DEF Begin, tables
  <2>3. ASSUME NEW s \in Sessions, Step(s) PROVE Abstract!ShopNext \/ UNCHANGED <<stock, orders>>
    BY <2>3, SaleImplements, CorrectionImplements, UndoImplements, PartialRefundImplements
    DEF Step, LockOrder, LockProduct, Validate, ReadCustomer, Register, ReadNumber,
        InsertOrder, StoreFails, DeadlockVictim, Return, tables
  <2>. QED
    BY <2>1, <2>2, <2>3 DEF Next
<1>. QED
  BY <1>1, <1>2, Inductive, PTL DEF Spec, ImplementsShop, Abstract!ShopSpec

--------------------------------------------------------------------------------
\* Deadlocks.

SortedList(s) ==
    tx[s].req.op \in {"create_order", "stock_update"} =>
        \A i, j \in DOMAIN tx[s].req.names : i < j => ~(tx[s].req.names[i] > tx[s].req.names[j])

\* With its list sorted, a session asks for a product above all those it holds.
LEMMA Ascends ==
  ASSUME IInv, NEW s \in Sessions, SortedList(s), NEW p \in Products, Asks(s, p),
         NEW h \in tx[s].held
  PROVE  h < p
<1> DEFINE r == tx[s].req
<1>1. tx[s].pc = "lock" /\ p \in tx[s].todo /\ h \in Products /\ p # h
  BY Current DEF Asks, Sound, Tx
<1>2. Precedes(r, h, p) /\ r \in Sales \cup Corrections \cup OrderActions
  BY <1>1, Current DEF Sound
<1>3. h \in Nat /\ p \in Nat
  BY <1>1, TablesAssumption
<1>4. CASE r \in Sales \cup Corrections
  <2>1. r.op \in {"create_order", "stock_update"} /\ r.names \in Seq(Nat)
    BY <1>4, SaleType, CorrectionType
  <2>2. PICK i, j \in DOMAIN r.names : i <= j /\ r.names[i] = h /\ r.names[j] = p
    BY <1>2, <2>1 DEF Precedes
  <2>3. i \in Nat /\ j \in Nat /\ i < j /\ p \in Nat
    BY <1>1, <2>1, <2>2
  <2>4. ~(h > p)
    BY <2>1, <2>2, <2>3 DEF SortedList
  <2>. QED
    BY <1>1, <1>3, <2>3, <2>4
<1>5. CASE r \in OrderActions
  <2>1. r.op \notin {"create_order", "stock_update"}
    BY <1>5, OrderActionType
  <2>2. h <= p
    BY <1>2, <2>1 DEF Precedes
  <2>. QED
    BY <1>1, <1>3, <2>2
<1>. QED
  BY <1>2, <1>4, <1>5

\* What the members of a circle wait for.  One that waits for another's number waits for a
\* commit that waits for nobody, one that waits for another's customer waits for one that
\* may only wait for a number, and one that waits for an order waits for one that locks its
\* products: in the end everyone waits for a product.
LEMMA WaitsForLock ==
  ASSUME IInv, NEW S \in SUBSET Sessions, Cycle(S), NEW u \in S
  PROVE  \/ tx[u].pc = "lock"
         \/ tx[u].pc = "lock_order" /\ \E v \in S : tx[v].pc = "lock"
<1> DEFINE Waiting == {"lock", "lock_order", "register", "insert"}
<1>1. \A v \in S : tx[v].pc \in Waiting
  BY DEF Cycle, Waits, Asks
<1>2. ASSUME NEW w \in S, tx[w].owns # NoOrder
      PROVE  tx[w].pc = "lock" /\ tx[w].owns \in Existing
  <2>1. tx[w].pc = "lock" /\ tx[w].req \in OrderActions
    BY <1>1, <1>2, Current DEF Sound
  <2>2. tx[w].owns = tx[w].req.order /\ Undoable(tx[w].req) /\ tx[w].req.order \in OrderIds
    BY <2>1, Current, OrderActionType DEF Sound, Undoing
  <2>. QED
    BY <2>1, <2>2 DEF Undoable, Existing
<1>3. ASSUME NEW v \in S, tx[v].pc = "insert" PROVE FALSE
  <2>1. PICK w \in S : Waits(v, w)
    BY DEF Cycle
  <2>2. tx[w].owns = tx[v].id /\ tx[v].id \notin Existing
    BY <1>3, <2>1 DEF Waits, Asks, Taken
  <2>3. tx[v].id # NoOrder
    BY <1>3, Current DEF Sound
  <2>. QED
    BY <1>2, <2>2, <2>3
<1>4. ASSUME NEW v \in S, tx[v].pc = "register" PROVE FALSE
  <2>1. PICK w \in S : Waits(v, w)
    BY DEF Cycle
  <2>2. tx[w].fresh
    BY <1>4, <2>1 DEF Waits, Asks
  <2>3. tx[w].pc \in {"number", "insert", "commit"}
    BY <2>2, Current DEF Sound
  <2>. QED
    BY <1>1, <1>3, <2>3
<1>5. ASSUME tx[u].pc = "lock_order" PROVE \E v \in S : tx[v].pc = "lock"
  <2>1. PICK w \in S : Waits(u, w)
    BY DEF Cycle
  <2>2. tx[w].owns = tx[u].req.order /\ tx[u].req \in OrderActions
    BY <1>5, <2>1, Current DEF Waits, Asks, Sound
  <2>3. tx[w].owns # NoOrder
    BY <2>2, OrderActionType, TablesAssumption DEF NoOrder
  <2>. QED
    BY <1>2, <2>3
<1>. QED
  BY <1>1, <1>3, <1>4, <1>5

\* Among sorted lists a wait leads to a wait for a higher product.
LEMMA WaitsAscend ==
  ASSUME IInv, NEW S \in SUBSET Sessions, Cycle(S), \A s \in S : SortedList(s),
         NEW u \in S, tx[u].pc = "lock"
  PROVE  \E v \in S, p, q \in Products : Asks(u, p) /\ Asks(v, q) /\ tx[v].pc = "lock" /\ p < q
<1>1. PICK v \in S : Waits(u, v)
  BY DEF Cycle
<1>2. PICK p \in Products : Asks(u, p) /\ p \in tx[v].held
  BY <1>1 DEF Waits
<1>3. tx[v].pc = "lock"
  BY <1>2, WaitsForLock, Current DEF Sound
<1>4. PICK w \in S : Waits(v, w)
  BY DEF Cycle
<1>5. PICK q \in Products : Asks(v, q)
  BY <1>3, <1>4 DEF Waits
<1>6. p < q
  BY <1>2, <1>5, Ascends
<1>. QED
  BY <1>2, <1>3, <1>5, <1>6

\* Two products asked for at once are one product.
LEMMA AsksOne ==
  ASSUME IInv, NEW s \in Sessions, SortedList(s), NEW p \in Products, NEW q \in Products,
         Asks(s, p), Asks(s, q)
  PROVE  p = q
<1> DEFINE r == tx[s].req
<1>1. r \in Sales \cup Corrections \cup OrderActions /\ Precedes(r, p, q) /\ Precedes(r, q, p)
  BY Current DEF Asks, Sound
<1>2. p \in Nat /\ q \in Nat
  BY TablesAssumption
<1>3. ASSUME r \in Sales \cup Corrections, NEW n \in Nat, NEW m \in Nat, Precedes(r, n, m)
      PROVE  n <= m
  <2>1. r.op \in {"create_order", "stock_update"} /\ r.names \in Seq(Nat)
    BY <1>3, SaleType, CorrectionType
  <2>2. PICK i, j \in DOMAIN r.names : i <= j /\ r.names[i] = n /\ r.names[j] = m
    <3>1. r.op \in {"create_order", "stock_update"} /\ Precedes(r, n, m)
      BY <1>3, <2>1
    <3>2. \E i, j \in DOMAIN r.names : i <= j /\ r.names[i] = n /\ r.names[j] = m
      BY <3>1 DEF Precedes
    <3>. QED
      BY <3>2
  <2>3. i \in Nat /\ j \in Nat /\ (i = j \/ i < j)
    <3>1. \A list \in Seq(Nat) : \A k \in DOMAIN list : k \in Nat
      OBVIOUS
    <3>2. i \in Nat /\ j \in Nat
      <4>1. r.names \in Seq(Nat)
        BY <2>1
      <4>2. i \in DOMAIN r.names /\ j \in DOMAIN r.names
        BY <2>2
      <4>. QED
        BY <3>1, <4>1, <4>2
    <3>3. i <= j
      BY <2>2
    <3>4. \A k, l \in Nat : k <= l => k = l \/ k < l
      OBVIOUS
    <3>. QED
      BY <3>2, <3>3, <3>4
  <2>4. CASE i = j
    BY <2>2, <2>4
  <2>5. CASE i < j
    BY <2>1, <2>2, <2>5 DEF SortedList
  <2>. QED
    BY <2>3, <2>4, <2>5
<1>4. r \in OrderActions => p <= q /\ q <= p
  BY <1>1, OrderActionType DEF Precedes
<1>. QED
  BY <1>1, <1>2, <1>3, <1>4

\* business_tools.py promises to lock products by id "to avoid deadlocks", and locks lists
\* as given.  Every circle of waits has a list in it that is not sorted: with sorted lists
\* there is none, however many sessions, orders and customers are involved.
THEOREM SortedListsNeverDeadlock == Spec => []DeadlocksNeedUnsortedList
<1>1. ASSUME IInv, NEW S \in SUBSET Sessions, S # {}, Cycle(S), \A s \in S : SortedList(s)
      PROVE  FALSE
  <2> DEFINE Asked == {p \in Products : \E u \in S : Asks(u, p)}
  <2>1. Asked \subseteq Nat /\ IsFiniteSet(Asked)
    BY TablesAssumption, FS_Subset
  <2>2. PICK u \in S : tx[u].pc = "lock"
    BY <1>1, WaitsForLock
  <2>3. Asked # {}
    BY <1>1, <2>2, WaitsAscend
  <2>4. PICK m \in Asked : \A k \in Asked : m >= k
    BY <2>1, <2>3, Greatest
  <2>5. PICK v \in S : Asks(v, m)
    BY <2>4
  <2>6. PICK w \in S, p, q \in Products : Asks(v, p) /\ Asks(w, q) /\ p < q
    BY <1>1, <2>5, WaitsAscend DEF Asks
  <2>7. p = m
    BY <1>1, <2>4, <2>5, <2>6, AsksOne
  <2>8. q \in Asked /\ m \in Nat /\ q \in Nat
    BY <2>1, <2>4, <2>6
  <2>. QED
    BY <2>4, <2>6, <2>7, <2>8
<1>2. IInv => DeadlocksNeedUnsortedList
  <2>1. ASSUME IInv, NEW S \in (SUBSET Sessions) \ {{}}, Cycle(S)
        PROVE  \E s \in S : tx[s].req.op \in {"create_order", "stock_update"} /\
                  LET names == tx[s].req.names
                  IN  \E i, j \in DOMAIN names : i < j /\ names[i] > names[j]
    <3>1. S \in SUBSET Sessions /\ S # {}
      BY <2>1
    <3>2. \E s \in S : ~SortedList(s)
      <4>. HIDE DEF SortedList
      <4>. QED
        BY <1>1, <2>1, <3>1
    <3>. QED
      BY <3>2 DEF SortedList
  <2>. QED
    BY <2>1 DEF DeadlocksNeedUnsortedList
<1>. QED
  BY <1>2, Inductive, PTL

--------------------------------------------------------------------------------
\* The books.

\* What order o holds of product p.
Held(table, p, o) == IF table[o].status = "completed" THEN table[o].items[p] ELSE 0

Sold(table, p) == MapThenSumSet(LAMBDA o : Held(table, p, o), OrderIds)

Holdings(table, p) == [o \in OrderIds |-> Held(table, p, o)]

LEMMA SoldIsSum ==
  ASSUME NEW table, NEW p
  PROVE  \E sum : Adds(Holdings(table, p), OrderIds, sum) /\ Sold(table, p) = sum[OrderIds]
<1> DEFINE Held1(s) == Held(table, p, Pick(s))
           Sums(h) == h = [s \in SUBSET OrderIds |->
                             IF s = {} THEN 0 ELSE Held1(s) + h[s \ {Pick(s)}]]
           sum == CHOOSE h : Sums(h)
<1>1. ASSUME NEW h, NEW s \in SUBSET OrderIds
      PROVE  Plus(Holdings(table, p), h, s) = IF s = {} THEN 0 ELSE Held1(s) + h[s \ {Pick(s)}]
  <2>1. s # {} => Holdings(table, p)[Pick(s)] = Held1(s)
    BY TablesAssumption, Picked DEF Holdings
  <2>. QED
    BY <2>1 DEF Plus
<1>2. \A h : Adds(Holdings(table, p), OrderIds, h) <=> Sums(h)
  BY <1>1 DEF Adds
<1>3. \E h : Sums(h)
  BY <1>2, TablesAssumption, SumExists
<1>4. Sums(sum)
  BY <1>3
<1>5. Sold(table, p) = sum[OrderIds]
  BY DEF Sold, MapThenSumSet, MapThenFoldSet, Pick
<1>. QED
  BY <1>2, <1>4, <1>5

\* Changing what one order holds changes the sum by as much.
LEMMA SoldChanges ==
  ASSUME NEW old, NEW new, NEW p, NEW o \in OrderIds,
         \A n \in OrderIds : Held(old, p, n) \in Int /\ Held(new, p, n) \in Int,
         \A n \in OrderIds \ {o} : Held(new, p, n) = Held(old, p, n)
  PROVE  /\ Sold(old, p) \in Int
         /\ Sold(new, p) = Sold(old, p) + (Held(new, p, o) - Held(old, p, o))
<1>1. PICK f : Adds(Holdings(old, p), OrderIds, f) /\ Sold(old, p) = f[OrderIds]
  BY SoldIsSum
<1>2. PICK g : Adds(Holdings(new, p), OrderIds, g) /\ Sold(new, p) = g[OrderIds]
  BY SoldIsSum
<1>3. \A n \in OrderIds : Holdings(old, p)[n] = Held(old, p, n) /\ Holdings(new, p)[n] = Held(new, p, n)
  BY DEF Holdings
<1>4. PICK had, has : had = Holdings(old, p) /\ has = Holdings(new, p)
  OBVIOUS
<1>5. /\ IsFiniteSet(OrderIds) /\ Adds(had, OrderIds, f) /\ Adds(has, OrderIds, g)
      /\ \A n \in OrderIds : had[n] \in Int /\ has[n] \in Int
      /\ \A n \in OrderIds \ {o} : has[n] = had[n]
  BY <1>1, <1>2, <1>3, <1>4, TablesAssumption
<1>6. f[OrderIds] \in Int /\ g[OrderIds] = f[OrderIds] + (has[o] - had[o])
  BY <1>5, SumChanges
<1>. QED
  BY <1>1, <1>2, <1>3, <1>4, <1>6

LEMMA HeldType ==
  ASSUME NEW table \in [OrderIds -> OrderRow], NEW p \in Products, NEW o \in OrderIds
  PROVE  Held(table, p, o) \in Nat
<1>1. table[o].items[p] \in Nat
  BY DEF OrderRow
<1>. QED
  BY <1>1 DEF Held

LEMMA SoldType ==
  ASSUME NEW table \in [OrderIds -> OrderRow], NEW p \in Products
  PROVE  Sold(table, p) \in Int
<1>1. PICK sum : Adds(Holdings(table, p), OrderIds, sum) /\ Sold(table, p) = sum[OrderIds]
  BY SoldIsSum
<1>2. \A n \in OrderIds : Holdings(table, p)[n] \in Int
  BY HeldType DEF Holdings
<1>. QED
  BY <1>1, <1>2, TablesAssumption, SumType

\* What product p's stock, the completed orders and the corrections add up to.
Books(p) == stock[p] + Sold(orders, p) - adjusted[p]

\* A commit by which the stock of p changes by what the order no longer holds, plus the
\* correction, keeps the books of p.
LEMMA BooksKept ==
  ASSUME IInv, IInv', NEW p \in Products, NEW o \in OrderIds,
         \A n \in OrderIds \ {o} : orders'[n] = orders[n],
         stock'[p] - stock[p] = (adjusted'[p] - adjusted[p])
                                  - (Held(orders', p, o) - Held(orders, p, o))
  PROVE  Books(p)' = Books(p)
<1>1. orders \in [OrderIds -> OrderRow] /\ orders' \in [OrderIds -> OrderRow]
  BY DEF IInv, TypeOK
<1>2. PICK old, new : old = orders /\ new = orders'
  OBVIOUS
<1>3. \A n \in OrderIds : Held(old, p, n) \in Int /\ Held(new, p, n) \in Int
  BY <1>1, <1>2, HeldType
<1>4. \A n \in OrderIds \ {o} : Held(new, p, n) = Held(old, p, n)
  BY <1>2 DEF Held
<1>5. /\ Sold(old, p) \in Int
      /\ Sold(new, p) = Sold(old, p) + (Held(new, p, o) - Held(old, p, o))
  BY <1>3, <1>4, SoldChanges
<1>6. stock[p] \in Int /\ stock'[p] \in Int /\ adjusted[p] \in Int /\ adjusted'[p] \in Int
  BY DEF IInv, TypeOK
<1>. QED
  BY <1>2, <1>3, <1>5, <1>6 DEF Books

\* So do the four commits, each in its way.
LEMMA CommitBooks ==
  ASSUME IInv, IInv', NEW s \in Sessions, NEW p \in Products,
         CommitSale(s) \/ CommitCorrection(s) \/ CommitUndo(s) \/ CommitPartialRefund(s)
  PROVE  Books(p)' = Books(p)
<1> DEFINE r == tx[s].req
<1>1. /\ stock \in [Products -> Nat] /\ adjusted \in [Products -> Int]
      /\ orders \in [OrderIds -> OrderRow]
  BY DEF IInv, TypeOK
<1>2. CASE CommitSale(s)
  <2> DEFINE o == tx[s].owns
  <2>1. /\ o \in OrderIds /\ orders[o].status = "absent" /\ UNCHANGED adjusted
        /\ orders' = [orders EXCEPT ![o] = orders'[o]]
        /\ orders'[o].status = "completed" /\ orders'[o].items = r.demand
        /\ r \in Sales /\ stock' = [q \in Products |-> stock[q] - r.demand[q]]
    <3>1. ~(o < o) /\ o \in OrderIds
      BY <1>2, SaleOrders, TablesAssumption
    <3>2. o \notin Existing
      BY <1>2, <3>1, SaleOrders
    <3>. QED
      BY <1>2, <3>1, <3>2, SaleOrders DEF CommitSale, Existing
  <2>2. \A n \in OrderIds \ {o} : orders'[n] = orders[n]
    BY <1>1, <2>1
  <2>3. Held(orders, p, o) = 0 /\ Held(orders', p, o) = r.demand[p] /\ r.demand[p] \in Nat
    BY <2>1, SaleType DEF Held
  <2>4. stock'[p] - stock[p] = (adjusted'[p] - adjusted[p])
                                  - (Held(orders', p, o) - Held(orders, p, o))
    BY <1>1, <2>1, <2>3
  <2>. QED
    BY <2>1, <2>2, <2>4, BooksKept
<1>3. CASE CommitCorrection(s)
  <2>1. /\ UNCHANGED orders /\ stock' = [q \in Products |-> stock[q] + r.net[q]]
        /\ adjusted' = [q \in Products |-> adjusted[q] + r.net[q]] /\ r \in Corrections
    BY <1>3, Committing DEF CommitCorrection
  <2>2. r.net[p] \in Int
    BY <2>1, CorrectionType
  <2>3. PICK table : table = orders /\ table = orders'
    BY <2>1
  <2>4. Sold(table, p) \in Int
    BY <1>1, <2>3, SoldType
  <2>. QED
    BY <1>1, <2>1, <2>2, <2>3, <2>4 DEF Books
<1>4. CASE CommitUndo(s)
  <2> DEFINE o == r.order
  <2>1. /\ o \in OrderIds /\ orders[o].status = "completed" /\ orders[o] \in OrderRow
        /\ UNCHANGED adjusted /\ stock' = [q \in Products |-> stock[q] + orders[o].items[q]]
    BY <1>4, Refunding DEF CommitUndo
  <2>2. PICK row \in OrderRow : /\ orders' = [orders EXCEPT ![o] = row] /\ orders'[o] = row
                                /\ row.status # "completed"
    BY <1>4, UndoneRow
  <2>3. \A n \in OrderIds \ {o} : orders'[n] = orders[n]
    BY <1>1, <2>2
  <2>4. /\ Held(orders, p, o) = orders[o].items[p] /\ Held(orders', p, o) = 0
        /\ orders[o].items[p] \in Nat
    BY <2>1, <2>2 DEF Held, OrderRow
  <2>5. stock'[p] - stock[p] = (adjusted'[p] - adjusted[p])
                                  - (Held(orders', p, o) - Held(orders, p, o))
    BY <1>1, <2>1, <2>4
  <2>. QED
    BY <2>1, <2>3, <2>5, BooksKept
<1>5. CASE CommitPartialRefund(s)
  <2> DEFINE o == r.order
  <2>1. /\ o \in OrderIds /\ orders[o].status = "completed" /\ orders[o] \in OrderRow
        /\ UNCHANGED <<stock, adjusted>>
    BY <1>5, Refunding DEF CommitPartialRefund
  <2>2. PICK row \in OrderRow : /\ orders' = [orders EXCEPT ![o] = row] /\ orders'[o] = row
                                /\ row.status = "completed" /\ row.items = orders[o].items
    BY <1>5, RefundedRow
  <2>3. \A n \in OrderIds \ {o} : orders'[n] = orders[n]
    BY <1>1, <2>2
  <2>4. Held(orders, p, o) \in Nat /\ Held(orders', p, o) = Held(orders, p, o)
    BY <2>1, <2>2 DEF Held, OrderRow
  <2>5. stock'[p] - stock[p] = (adjusted'[p] - adjusted[p])
                                  - (Held(orders', p, o) - Held(orders, p, o))
    BY <1>1, <2>1, <2>4
  <2>. QED
    BY <2>1, <2>3, <2>5, BooksKept
<1>. QED
  BY <1>2, <1>3, <1>4, <1>5

\* Every unit is accounted for: the stock there was, plus the corrections, minus what the
\* completed orders hold, whatever is sold, undone, refunded in part, rolled back, or
\* committed without its caller learning it.
THEOREM StockAddsUp == Spec => []StockConserved
<1> DEFINE Kept == \A p \in Products : Books(p) = SeedStock[p] + Sold(SeedOrders, p)
<1>1. Init => Kept
  <2> SUFFICES ASSUME Init, NEW p \in Products PROVE Books(p) = SeedStock[p] + Sold(SeedOrders, p)
    OBVIOUS
  <2>1. /\ stock[p] = SeedStock[p] /\ adjusted[p] = 0 /\ SeedStock[p] \in Int
        /\ Sold(SeedOrders, p) \in Int
    BY SeedAssumption, SoldType DEF Init
  <2>2. PICK table : table = orders /\ table = SeedOrders
    BY DEF Init
  <2>. QED
    BY <2>1, <2>2 DEF Books
<1>2. IInv /\ IInv' /\ Kept /\ [Next]_vars => Kept'
  <2> SUFFICES ASSUME IInv, IInv', Kept, [Next]_vars, NEW p \in Products
               PROVE  Books(p)' = Books(p)
    OBVIOUS
  <2>1. CASE UNCHANGED <<stock, orders, adjusted>>
    <3>1. PICK table : table = orders /\ table = orders'
      BY <2>1
    <3>. QED
      BY <2>1, <3>1 DEF Books
  <2>2. CASE \E s \in Sessions : CommitSale(s) \/ CommitCorrection(s) \/ CommitUndo(s)
                                  \/ CommitPartialRefund(s)
    BY <2>2, CommitBooks
  <2>3. ASSUME NEW s \in Sessions, NEW r \in Requests(s), Begin(s, r)
        PROVE  UNCHANGED <<stock, orders, adjusted>>
    BY <2>3 DEF Begin, tables
  <2>4. ASSUME NEW s \in Sessions, Step(s),
               ~(CommitSale(s) \/ CommitCorrection(s) \/ CommitUndo(s) \/ CommitPartialRefund(s))
        PROVE  UNCHANGED <<stock, orders, adjusted>>
    BY <2>4 DEF Step, LockOrder, LockProduct, Validate, ReadCustomer, Register, ReadNumber,
                InsertOrder, StoreFails, DeadlockVictim, Return, tables
  <2>. QED
    BY <2>1, <2>2, <2>3, <2>4 DEF Next, vars, tables
<1>3. IInv /\ Kept => StockConserved
  <2> SUFFICES ASSUME IInv, Kept, NEW p \in Products
               PROVE  stock[p] + Sold(orders, p) = SeedStock[p] + Sold(SeedOrders, p) + adjusted[p]
    BY DEF StockConserved, Sold, Held
  <2>1. /\ stock[p] \in Int /\ adjusted[p] \in Int /\ SeedStock[p] \in Int
        /\ Sold(SeedOrders, p) \in Int /\ Sold(orders, p) \in Int
    BY SeedAssumption, SoldType DEF IInv, TypeOK
  <2>2. Books(p) = SeedStock[p] + Sold(SeedOrders, p)
    OBVIOUS
  <2>. QED
    BY <2>1, <2>2 DEF Books
<1>. QED
  BY <1>1, <1>2, <1>3, Inductive, PTL DEF Spec

--------------------------------------------------------------------------------
\* The sales report.

\* Figure i of the report counts the order o, if it is taken now.
Counts(i, o) == o \in Completed /\ (i > 1 => Within(o, WindowDays[i - 1]))

\* What the figures say of an order that did not change is what they would say now.
Exact == \A i \in DOMAIN shown : \A o \in OrderIds \ amended : o \in shown[i] <=> Counts(i, o)

\* Once the report is complete nothing more is amended, and it need not be exact.
ReportInv ==
    /\ shown \in Seq(SUBSET OrderIds) /\ Len(shown) <= 4
    /\ Len(shown) \in DOMAIN WindowDays => Exact
    /\ ReportAgrees

\* Figures that are exact at one moment agree.
LEMMA ExactAgrees == shown \in Seq(SUBSET OrderIds) /\ Exact => ReportAgrees
<1> SUFFICES ASSUME shown \in Seq(SUBSET OrderIds), Exact,
                    NEW i \in DOMAIN shown, NEW j \in DOMAIN shown,
                    NEW o \in shown[i] \ shown[j], o \notin amended
             PROVE  j > 1 /\ ~Within(o, WindowDays[j - 1])
  BY DEF ReportAgrees
<1>1. o \in OrderIds \ amended
  OBVIOUS
<1>2. Counts(i, o) /\ ~Counts(j, o)
  BY <1>1 DEF Exact
<1>. QED
  BY <1>2 DEF Counts

\* The next figure is counted while the others are exact.
LEMMA NextFigure ==
  ASSUME shown \in Seq(SUBSET OrderIds), Len(shown) <= 3, Exact,
         UNCHANGED <<orders, amended>>,
         NEW figure \in SUBSET OrderIds, shown' = Append(shown, figure),
         \A o \in OrderIds : o \in figure <=> Counts(Len(shown) + 1, o)
  PROVE  ReportInv'
<1>1. shown' \in Seq(SUBSET OrderIds) /\ Len(shown') <= 4
  OBVIOUS
<1>2. ASSUME NEW i \in DOMAIN shown', NEW o \in OrderIds \ amended
      PROVE  o \in shown'[i] <=> Counts(i, o)
  <2>1. CASE i = Len(shown) + 1
    BY <2>1
  <2>2. CASE i # Len(shown) + 1
    <3>1. i \in DOMAIN shown /\ shown'[i] = shown[i]
      BY <2>2
    <3>. QED
      BY <3>1 DEF Exact
  <2>. QED
    BY <2>1, <2>2
<1>3. Exact'
  BY <1>2 DEF Exact, Counts, Completed, Within
<1>4. ReportAgrees'
  <2> SUFFICES ASSUME NEW i \in DOMAIN shown', NEW j \in DOMAIN shown',
                      NEW o \in shown'[i] \ shown'[j], o \notin amended'
               PROVE  j > 1 /\ ~Within(o, WindowDays[j - 1])
    BY DEF ReportAgrees, Within
  <2>1. o \in OrderIds \ amended
    BY <1>1
  <2>2. Counts(i, o) /\ ~Counts(j, o)
    BY <1>2, <2>1
  <2>. QED
    BY <2>2 DEF Counts
<1>. QED
  BY <1>1, <1>3, <1>4 DEF ReportInv

LEMMA ReportInvStep == ReportInv /\ [ReportNext]_<<vars, reportVars>> => ReportInv'
<1> SUFFICES ASSUME ReportInv, [ReportNext]_<<vars, reportVars>> PROVE ReportInv'
  OBVIOUS
<1>1. CASE UNCHANGED <<vars, reportVars>>
  BY <1>1 DEF vars, reportVars, ReportInv, Exact, ReportAgrees, Counts, Completed, Within
<1>2. CASE CountByStatus
  <2>1. shown = << >> /\ shown' = Append(shown, Completed) /\ UNCHANGED <<orders, amended>>
    BY <1>2 DEF CountByStatus, tables
  <2>2. Completed \in SUBSET OrderIds /\ \A o \in OrderIds : o \in Completed <=> Counts(1, o)
    BY DEF Completed, Counts
  <2>3. shown \in Seq(SUBSET OrderIds) /\ Len(shown) = 0 /\ Exact
    BY <2>1 DEF ReportInv, Exact
  <2>. QED
    BY <2>1, <2>2, <2>3, NextFigure
<1>3. CASE SalesWindow
  <2> DEFINE figure == OrdersSince(WindowDays[Len(shown)])
  <2>1. /\ Len(shown) \in DOMAIN WindowDays /\ shown' = Append(shown, figure)
        /\ UNCHANGED <<orders, amended>>
    BY <1>3 DEF SalesWindow, vars
  <2>2. Len(shown) \in 1 .. 3
    <3>1. DOMAIN WindowDays = 1 .. 3
      BY DEF WindowDays
    <3>. QED
      BY <2>1, <3>1
  <2>3. figure \in SUBSET OrderIds /\ \A o \in OrderIds : o \in figure <=> Counts(Len(shown) + 1, o)
    <3>1. PICK n \in 1 .. 3 : n = Len(shown) /\ (n + 1) - 1 = n /\ n + 1 > 1
      BY <2>2
    <3>2. figure = OrdersSince(WindowDays[n])
      BY <3>1
    <3>3. \A o \in OrderIds :
              o \in OrdersSince(WindowDays[n]) <=> o \in Completed /\ Within(o, WindowDays[n])
      BY DEF OrdersSince, Completed
    <3>4. \A o : Counts(n + 1, o) <=> o \in Completed /\ Within(o, WindowDays[n])
      BY <3>1 DEF Counts
    <3>. QED
      BY <3>1, <3>2, <3>3, <3>4 DEF OrdersSince, Completed
  <2>4. shown \in Seq(SUBSET OrderIds) /\ Exact
    BY <2>1 DEF ReportInv
  <2>. QED
    BY <2>1, <2>2, <2>3, <2>4, NextFigure
<1>4. CASE Meanwhile
  <2>1. /\ shown' = shown /\ amended \subseteq amended'
        /\ Len(shown) \in DOMAIN WindowDays =>
              \A o \in OrderIds \ amended' : orders'[o].status = orders[o].status
    BY <1>4 DEF Meanwhile
  <2>2. ReportAgrees'
    BY <2>1 DEF ReportInv, ReportAgrees, Within
  <2>3. Len(shown) \in DOMAIN WindowDays => Exact'
    BY <2>1 DEF ReportInv, Exact, Counts, Completed, Within
  <2>. QED
    BY <2>1, <2>2, <2>3 DEF ReportInv
<1>. QED
  BY <1>1, <1>2, <1>3, <1>4 DEF ReportNext

\* Whatever is sold, undone or refunded between its statements, two figures of one report
\* differ only by orders that changed meanwhile or are too old for a window.
THEOREM FiguresAgree == ReportSpec => []ReportAgrees
<1>1. ReportInit => ReportInv
  BY DEF ReportInit, ReportInv, ReportAgrees, Exact, WindowDays
<1>2. ReportInv => ReportAgrees
  BY DEF ReportInv
<1>. QED
  BY <1>1, <1>2, ReportInvStep, PTL DEF ReportSpec
================================================================================
