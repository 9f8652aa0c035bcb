---------------------------- MODULE DeploymentProofs ----------------------------
(***************************************************************************)
(* Proofs about Deployment, for any number of containers, refunds and      *)
(* messages, and any sequence of deaths, restarts and downgrades.          *)
(***************************************************************************)
EXTENDS Deployment, InductionLemmas

Revisions == 0 .. HeadRevision

Statuses == {"none", "pending", "approved", "rejected", "executing", "executed", "failed"}

Database ==
    [rev : Revisions, stock : Nat \cup {Unseeded}, refunded : Nat \cup {NoColumn},
     approval : [Refunds -> Statuses], memories : {0, 1}, traces : {0, 1},
     claimed : SUBSET Messages]

Container ==
    [at : {"down", "upgrade", "seed", "serve"}, base : Revisions, empty : BOOLEAN,
     busy : SUBSET (Refunds \X {"executing", "executed", "failed"})]

Typed ==
    /\ db \in Database
    /\ container \in [Containers -> Container]
    /\ paid \in [Refunds -> Nat] /\ runs \in [Messages -> Nat] /\ sold \in Nat
    /\ lowest \in Revisions /\ downgrades \in Nat /\ deaths \in Nat

\* A table or column that the revision does not have holds nothing, and one that it has
\* can be counted in.
Bare(d) ==
    /\ d.rev < 1 => d.stock = Unseeded
    /\ d.rev < 2 => \A a \in Refunds : d.approval[a] = "none"
    /\ d.rev < 3 => d.memories = 0
    /\ d.rev < 4 => d.traces = 0
    /\ d.rev < 5 <=> d.refunded = NoColumn
    /\ d.rev < 6 => d.claimed = {}

\* While the operator leaves the schema alone it is not there or complete, and nobody
\* has seen a newer one.
Forward ==
    lowest = HeadRevision => \A c \in Containers :
        /\ container[c].base <= db.rev
        /\ container[c].at \in {"seed", "serve"} => db.rev = HeadRevision

\* What is in stock is the seed less what was sold since there is a table of it.
Stocked == IF db.stock = Unseeded THEN sold = 0 ELSE db.stock = Stock - sold

Total(p) == MapThenSumSet(LAMBDA a : p[a], Refunds)

\* Who is paying the refund a, or has not recorded what came of it.
Claims(c, a) == \E outcome : <<a, outcome>> \in container[c].busy

\* What the tables remember of the refunds while nobody has dropped it.
Remembered ==
    lowest >= 5 =>
        /\ db.rev \in {0, 5, 6}
        /\ Total(paid) = IF db.rev >= 5 THEN db.refunded ELSE 0
        /\ Total(paid) <= OrderTotal
        /\ \A a \in Refunds :
              /\ paid[a] <= 1
              /\ db.approval[a] \notin {"executing", "executed", "failed"} => paid[a] = 0
              /\ \A c \in Containers :
                    /\ Claims(c, a) => db.approval[a] = "executing"
                    /\ <<a, "executing">> \in container[c].busy => paid[a] = 0
                    /\ \A e \in Containers : Claims(c, a) /\ Claims(e, a) => c = e

\* What the ledger remembers of the messages.
Ledger ==
    lowest >= 6 => \A m \in Messages :
        runs[m] <= 1 /\ (runs[m] > 0 => db.rev = HeadRevision /\ m \in db.claimed)

IInv == Typed /\ Bare(db) /\ Forward /\ Stocked /\ Remembered /\ Ledger

--------------------------------------------------------------------------------
\* Migrations one after the other.

NoApprovals == [a \in Refunds |-> "none"]

Row(rev, stock, refunded, approval, memories, traces, claimed) ==
    [rev |-> rev, stock |-> stock, refunded |-> refunded, approval |-> approval,
     memories |-> memories, traces |-> traces, claimed |-> claimed]

\* What the migrations from d up to, or down to, the revision t come to.
Raised(d, t) ==
    Row(t,
        IF d.rev < 1 /\ t >= 1 THEN Unseeded ELSE d.stock,
        IF d.rev < 5 /\ t >= 5 THEN 0 ELSE d.refunded,
        IF d.rev < 2 /\ t >= 2 THEN NoApprovals ELSE d.approval,
        IF d.rev < 3 /\ t >= 3 THEN 0 ELSE d.memories,
        IF d.rev < 4 /\ t >= 4 THEN 0 ELSE d.traces,
        IF d.rev < 6 /\ t >= 6 THEN {} ELSE d.claimed)

Lowered(d, t) ==
    Row(t,
        IF d.rev >= 1 /\ t < 1 THEN Unseeded ELSE d.stock,
        IF d.rev >= 5 /\ t < 5 THEN NoColumn ELSE d.refunded,
        IF d.rev >= 2 /\ t < 2 THEN NoApprovals
            ELSE IF d.rev >= 5 /\ t < 5 THEN Collapsed(d) ELSE d.approval,
        IF d.rev >= 3 /\ t < 3 THEN 0 ELSE d.memories,
        IF d.rev >= 4 /\ t < 4 THEN 0 ELSE d.traces,
        IF d.rev >= 6 /\ t < 6 THEN {} ELSE d.claimed)

LEMMA RowType ==
  ASSUME NEW rev \in Revisions, NEW s \in Nat \cup {Unseeded}, NEW refund \in Nat \cup {NoColumn},
         NEW approval \in [Refunds -> Statuses], NEW memories \in {0, 1}, NEW traces \in {0, 1},
         NEW claimed \in SUBSET Messages
  PROVE  Row(rev, s, refund, approval, memories, traces, claimed) \in Database
  BY DEF Row, Database

LEMMA Rows ==
  ASSUME NEW d \in Database
  PROVE  /\ d.rev \in Revisions /\ d.stock \in Nat \cup {Unseeded}
         /\ d.refunded \in Nat \cup {NoColumn} /\ d.approval \in [Refunds -> Statuses]
         /\ d.memories \in {0, 1} /\ d.traces \in {0, 1} /\ d.claimed \in SUBSET Messages
  BY DEF Row, Database

\* What remains of the approvals is of their kind.
LEMMA Kinds ==
  ASSUME NEW d \in Database
  PROVE  NoApprovals \in [Refunds -> Statuses] /\ Collapsed(d) \in [Refunds -> Statuses]
<1>1. \A a \in Refunds : d.approval[a] \in Statuses
  BY Rows
<1>. QED
  BY <1>1 DEF NoApprovals, Collapsed, Statuses

LEMMA RaisedType ==
  ASSUME NEW d \in Database, NEW t \in Revisions
  PROVE  Raised(d, t) \in Database /\ Lowered(d, t) \in Database
<1>1. /\ d.stock \in Nat \cup {Unseeded} /\ Unseeded \in Nat \cup {Unseeded}
      /\ d.refunded \in Nat \cup {NoColumn} /\ 0 \in Nat \cup {NoColumn}
      /\ NoColumn \in Nat \cup {NoColumn}
      /\ d.approval \in [Refunds -> Statuses] /\ NoApprovals \in [Refunds -> Statuses]
      /\ Collapsed(d) \in [Refunds -> Statuses]
      /\ d.memories \in {0, 1} /\ d.traces \in {0, 1} /\ 0 \in {0, 1}
      /\ d.claimed \in SUBSET Messages /\ {} \in SUBSET Messages
  BY Rows, Kinds
<1>2. /\ Raised(d, t) \in Database
      /\ Lowered(d, t) \in Database
  BY <1>1 DEF Raised, Lowered, Row, Database
<1>. QED
  BY <1>2

\* The fields of a row.
LEMMA Fields ==
  ASSUME NEW rev, NEW s, NEW refund, NEW approval, NEW memories, NEW traces, NEW claimed,
         NEW d, d = Row(rev, s, refund, approval, memories, traces, claimed)
  PROVE  /\ d.rev = rev /\ d.stock = s /\ d.refunded = refund /\ d.approval = approval
         /\ d.memories = memories /\ d.traces = traces /\ d.claimed = claimed
  BY DEF Row

LEMMA SameRow ==
  ASSUME NEW d \in Database, NEW e \in Database,
         d.rev = e.rev, d.stock = e.stock, d.refunded = e.refunded, d.approval = e.approval,
         d.memories = e.memories, d.traces = e.traces, d.claimed = e.claimed
  PROVE  d = e
  BY DEF Database

LEMMA NowhereYet ==
  ASSUME NEW d \in Database
  PROVE  Raised(d, d.rev) = d /\ Lowered(d, d.rev) = d
<1>1. d.rev \in 0 .. 6 /\ d.rev \in Revisions
  BY DEF Database, Revisions, HeadRevision
<1>2. PICK e, f \in Database : e = Raised(d, d.rev) /\ f = Lowered(d, d.rev)
  BY <1>1, RaisedType
<1>3. d = e
  BY <1>1, <1>2, Fields, SameRow DEF Raised
<1>4. d = f
  BY <1>1, <1>2, Fields, SameRow DEF Lowered
<1>. QED
  BY <1>2, <1>3, <1>4

LEMMA Edits ==
  ASSUME NEW d \in Database
  PROVE  /\ \A x \in Revisions : [d EXCEPT !.rev = x] \in Database
         /\ \A x \in Nat \cup {Unseeded} : [d EXCEPT !.stock = x] \in Database
         /\ \A x \in Nat \cup {NoColumn} : [d EXCEPT !.refunded = x] \in Database
         /\ \A x \in [Refunds -> Statuses] : [d EXCEPT !.approval = x] \in Database
         /\ \A x \in {0, 1} : [d EXCEPT !.memories = x] \in Database
         /\ \A x \in {0, 1} : [d EXCEPT !.traces = x] \in Database
         /\ \A x \in SUBSET Messages : [d EXCEPT !.claimed = x] \in Database
  BY DEF Database

\* Each migration changes what it is about, and the revision.
LEMMA UpFields ==
  ASSUME NEW d \in Database, d.rev < HeadRevision
  PROVE  /\ Up(d) \in Database
         /\ Up(d).rev = d.rev + 1
         /\ Up(d).stock = IF d.rev = 0 THEN Unseeded ELSE d.stock
         /\ Up(d).approval = IF d.rev = 1 THEN NoApprovals ELSE d.approval
         /\ Up(d).memories = IF d.rev = 2 THEN 0 ELSE d.memories
         /\ Up(d).traces = IF d.rev = 3 THEN 0 ELSE d.traces
         /\ Up(d).refunded = IF d.rev = 4 THEN 0 ELSE d.refunded
         /\ Up(d).claimed = IF d.rev = 5 THEN {} ELSE d.claimed
<1>1. d.rev \in 0 .. 6
  BY DEF Database, Revisions, HeadRevision
<1>2. CASE d.rev = 0
  <2>1. PICK e : e = CreateBusinessTables(d)
    OBVIOUS
  <2>2. Up(d) = e /\ e \in Database
    <3>1. Up(d) = e
      BY <1>2, <2>1 DEF Up
    <3>2. e \in Database
      <4>1. {0, 1, 2, 3, 4, 5, 6} \subseteq Revisions /\ Collapsed(d) \in [Refunds -> Statuses]
        BY Kinds DEF Revisions, HeadRevision
      <4>. QED
        BY <2>1, <4>1, Edits, Kinds DEF CreateBusinessTables, NoApprovals
    <3>. QED
      BY <3>1, <3>2
  <2>3. /\ e.rev = 1 /\ e.stock = Unseeded /\ e.refunded = d.refunded
        /\ e.approval = d.approval /\ e.memories = d.memories /\ e.traces = d.traces
        /\ e.claimed = d.claimed
    BY <2>1 DEF CreateBusinessTables, Database, NoApprovals
  <2>. QED
    BY <1>2, <2>1, <2>2, <2>3
<1>3. CASE d.rev = 1
  <2>1. PICK e : e = CreateApprovals(d)
    OBVIOUS
  <2>2. Up(d) = e /\ e \in Database
    <3>1. Up(d) = e
      BY <1>3, <2>1 DEF Up
    <3>2. e \in Database
      <4>1. {0, 1, 2, 3, 4, 5, 6} \subseteq Revisions /\ Collapsed(d) \in [Refunds -> Statuses]
        BY Kinds DEF Revisions, HeadRevision
      <4>. QED
        BY <2>1, <4>1, Edits, Kinds DEF CreateApprovals, NoApprovals
    <3>. QED
      BY <3>1, <3>2
  <2>3. /\ e.rev = 2 /\ e.stock = d.stock /\ e.refunded = d.refunded
        /\ e.approval = NoApprovals /\ e.memories = d.memories /\ e.traces = d.traces
        /\ e.claimed = d.claimed
    BY <2>1 DEF CreateApprovals, Database, NoApprovals
  <2>. QED
    BY <1>3, <2>1, <2>2, <2>3
<1>4. CASE d.rev = 2
  <2>1. PICK e : e = CreateMemories(d)
    OBVIOUS
  <2>2. Up(d) = e /\ e \in Database
    <3>1. Up(d) = e
      BY <1>4, <2>1 DEF Up
    <3>2. e \in Database
      <4>1. {0, 1, 2, 3, 4, 5, 6} \subseteq Revisions /\ Collapsed(d) \in [Refunds -> Statuses]
        BY Kinds DEF Revisions, HeadRevision
      <4>. QED
        BY <2>1, <4>1, Edits, Kinds DEF CreateMemories, NoApprovals
    <3>. QED
      BY <3>1, <3>2
  <2>3. /\ e.rev = 3 /\ e.stock = d.stock /\ e.refunded = d.refunded
        /\ e.approval = d.approval /\ e.memories = 0 /\ e.traces = d.traces
        /\ e.claimed = d.claimed
    BY <2>1 DEF CreateMemories, Database, NoApprovals
  <2>. QED
    BY <1>4, <2>1, <2>2, <2>3
<1>5. CASE d.rev = 3
  <2>1. PICK e : e = CreateTraces(d)
    OBVIOUS
  <2>2. Up(d) = e /\ e \in Database
    <3>1. Up(d) = e
      BY <1>5, <2>1 DEF Up
    <3>2. e \in Database
      <4>1. {0, 1, 2, 3, 4, 5, 6} \subseteq Revisions /\ Collapsed(d) \in [Refunds -> Statuses]
        BY Kinds DEF Revisions, HeadRevision
      <4>. QED
        BY <2>1, <4>1, Edits, Kinds DEF CreateTraces, NoApprovals
    <3>. QED
      BY <3>1, <3>2
  <2>3. /\ e.rev = 4 /\ e.stock = d.stock /\ e.refunded = d.refunded
        /\ e.approval = d.approval /\ e.memories = d.memories /\ e.traces = 0
        /\ e.claimed = d.claimed
    BY <2>1 DEF CreateTraces, Database, NoApprovals
  <2>. QED
    BY <1>5, <2>1, <2>2, <2>3
<1>6. CASE d.rev = 4
  <2>1. PICK e : e = AddExecution(d)
    OBVIOUS
  <2>2. Up(d) = e /\ e \in Database
    <3>1. Up(d) = e
      BY <1>6, <2>1 DEF Up
    <3>2. e \in Database
      <4>1. {0, 1, 2, 3, 4, 5, 6} \subseteq Revisions /\ Collapsed(d) \in [Refunds -> Statuses]
        BY Kinds DEF Revisions, HeadRevision
      <4>. QED
        BY <2>1, <4>1, Edits, Kinds DEF AddExecution, NoApprovals
    <3>. QED
      BY <3>1, <3>2
  <2>3. /\ e.rev = 5 /\ e.stock = d.stock /\ e.refunded = 0
        /\ e.approval = d.approval /\ e.memories = d.memories /\ e.traces = d.traces
        /\ e.claimed = d.claimed
    BY <2>1 DEF AddExecution, Database, NoApprovals
  <2>. QED
    BY <1>6, <2>1, <2>2, <2>3
<1>7. CASE d.rev = 5
  <2>1. PICK e : e = CreateLedger(d)
    OBVIOUS
  <2>2. Up(d) = e /\ e \in Database
    <3>1. Up(d) = e
      BY <1>7, <2>1 DEF Up
    <3>2. e \in Database
      <4>1. {0, 1, 2, 3, 4, 5, 6} \subseteq Revisions /\ Collapsed(d) \in [Refunds -> Statuses]
        BY Kinds DEF Revisions, HeadRevision
      <4>. QED
        BY <2>1, <4>1, Edits, Kinds DEF CreateLedger, NoApprovals
    <3>. QED
      BY <3>1, <3>2
  <2>3. /\ e.rev = 6 /\ e.stock = d.stock /\ e.refunded = d.refunded
        /\ e.approval = d.approval /\ e.memories = d.memories /\ e.traces = d.traces
        /\ e.claimed = {}
    BY <2>1 DEF CreateLedger, Database, NoApprovals
  <2>. QED
    BY <1>7, <2>1, <2>2, <2>3
<1>. QED
  BY <1>1, <1>2, <1>3, <1>4, <1>5, <1>6, <1>7 DEF HeadRevision

LEMMA DownFields ==
  ASSUME NEW d \in Database, d.rev > 0
  PROVE  /\ DownOne(d) \in Database
         /\ DownOne(d).rev = d.rev - 1
         /\ DownOne(d).stock = IF d.rev = 1 THEN Unseeded ELSE d.stock
         /\ DownOne(d).approval = IF d.rev = 2 THEN NoApprovals
                                  ELSE IF d.rev = 5 THEN Collapsed(d) ELSE d.approval
         /\ DownOne(d).memories = IF d.rev = 3 THEN 0 ELSE d.memories
         /\ DownOne(d).traces = IF d.rev = 4 THEN 0 ELSE d.traces
         /\ DownOne(d).refunded = IF d.rev = 5 THEN NoColumn ELSE d.refunded
         /\ DownOne(d).claimed = IF d.rev = 6 THEN {} ELSE d.claimed
<1>1. d.rev \in 0 .. 6
  BY DEF Database, Revisions, HeadRevision
<1>2. CASE d.rev = 1
  <2>1. PICK e : e = DropBusinessTables(d)
    OBVIOUS
  <2>2. DownOne(d) = e /\ e \in Database
    <3>1. DownOne(d) = e
      BY <1>2, <2>1 DEF DownOne
    <3>2. e \in Database
      <4>1. {0, 1, 2, 3, 4, 5, 6} \subseteq Revisions /\ Collapsed(d) \in [Refunds -> Statuses]
        BY Kinds DEF Revisions, HeadRevision
      <4>. QED
        BY <2>1, <4>1, Edits, Kinds DEF DropBusinessTables, NoApprovals
    <3>. QED
      BY <3>1, <3>2
  <2>3. /\ e.rev = 0 /\ e.stock = Unseeded /\ e.refunded = d.refunded
        /\ e.approval = d.approval /\ e.memories = d.memories /\ e.traces = d.traces
        /\ e.claimed = d.claimed
    BY <2>1 DEF DropBusinessTables, Database, NoApprovals
  <2>. QED
    BY <1>2, <2>1, <2>2, <2>3
<1>3. CASE d.rev = 2
  <2>1. PICK e : e = DropApprovals(d)
    OBVIOUS
  <2>2. DownOne(d) = e /\ e \in Database
    <3>1. DownOne(d) = e
      BY <1>3, <2>1 DEF DownOne
    <3>2. e \in Database
      <4>1. {0, 1, 2, 3, 4, 5, 6} \subseteq Revisions /\ Collapsed(d) \in [Refunds -> Statuses]
        BY Kinds DEF Revisions, HeadRevision
      <4>. QED
        BY <2>1, <4>1, Edits, Kinds DEF DropApprovals, NoApprovals
    <3>. QED
      BY <3>1, <3>2
  <2>3. /\ e.rev = 1 /\ e.stock = d.stock /\ e.refunded = d.refunded
        /\ e.approval = NoApprovals /\ e.memories = d.memories /\ e.traces = d.traces
        /\ e.claimed = d.claimed
    BY <2>1 DEF DropApprovals, Database, NoApprovals
  <2>. QED
    BY <1>3, <2>1, <2>2, <2>3
<1>4. CASE d.rev = 3
  <2>1. PICK e : e = DropMemories(d)
    OBVIOUS
  <2>2. DownOne(d) = e /\ e \in Database
    <3>1. DownOne(d) = e
      BY <1>4, <2>1 DEF DownOne
    <3>2. e \in Database
      <4>1. {0, 1, 2, 3, 4, 5, 6} \subseteq Revisions /\ Collapsed(d) \in [Refunds -> Statuses]
        BY Kinds DEF Revisions, HeadRevision
      <4>. QED
        BY <2>1, <4>1, Edits, Kinds DEF DropMemories, NoApprovals
    <3>. QED
      BY <3>1, <3>2
  <2>3. /\ e.rev = 2 /\ e.stock = d.stock /\ e.refunded = d.refunded
        /\ e.approval = d.approval /\ e.memories = 0 /\ e.traces = d.traces
        /\ e.claimed = d.claimed
    BY <2>1 DEF DropMemories, Database, NoApprovals
  <2>. QED
    BY <1>4, <2>1, <2>2, <2>3
<1>5. CASE d.rev = 4
  <2>1. PICK e : e = DropTraces(d)
    OBVIOUS
  <2>2. DownOne(d) = e /\ e \in Database
    <3>1. DownOne(d) = e
      BY <1>5, <2>1 DEF DownOne
    <3>2. e \in Database
      <4>1. {0, 1, 2, 3, 4, 5, 6} \subseteq Revisions /\ Collapsed(d) \in [Refunds -> Statuses]
        BY Kinds DEF Revisions, HeadRevision
      <4>. QED
        BY <2>1, <4>1, Edits, Kinds DEF DropTraces, NoApprovals
    <3>. QED
      BY <3>1, <3>2
  <2>3. /\ e.rev = 3 /\ e.stock = d.stock /\ e.refunded = d.refunded
        /\ e.approval = d.approval /\ e.memories = d.memories /\ e.traces = 0
        /\ e.claimed = d.claimed
    BY <2>1 DEF DropTraces, Database, NoApprovals
  <2>. QED
    BY <1>5, <2>1, <2>2, <2>3
<1>6. CASE d.rev = 5
  <2>1. PICK e : e = DropExecution(d)
    OBVIOUS
  <2>2. DownOne(d) = e /\ e \in Database
    <3>1. DownOne(d) = e
      BY <1>6, <2>1 DEF DownOne
    <3>2. e \in Database
      <4>1. {0, 1, 2, 3, 4, 5, 6} \subseteq Revisions /\ Collapsed(d) \in [Refunds -> Statuses]
        BY Kinds DEF Revisions, HeadRevision
      <4>. QED
        BY <2>1, <4>1, Edits, Kinds DEF DropExecution, NoApprovals
    <3>. QED
      BY <3>1, <3>2
  <2>3. /\ e.rev = 4 /\ e.stock = d.stock /\ e.refunded = NoColumn
        /\ e.approval = Collapsed(d) /\ e.memories = d.memories /\ e.traces = d.traces
        /\ e.claimed = d.claimed
    BY <2>1 DEF DropExecution, Database, NoApprovals
  <2>. QED
    BY <1>6, <2>1, <2>2, <2>3
<1>7. CASE d.rev = 6
  <2>1. PICK e : e = DropLedger(d)
    OBVIOUS
  <2>2. DownOne(d) = e /\ e \in Database
    <3>1. DownOne(d) = e
      BY <1>7, <2>1 DEF DownOne
    <3>2. e \in Database
      <4>1. {0, 1, 2, 3, 4, 5, 6} \subseteq Revisions /\ Collapsed(d) \in [Refunds -> Statuses]
        BY Kinds DEF Revisions, HeadRevision
      <4>. QED
        BY <2>1, <4>1, Edits, Kinds DEF DropLedger, NoApprovals
    <3>. QED
      BY <3>1, <3>2
  <2>3. /\ e.rev = 5 /\ e.stock = d.stock /\ e.refunded = d.refunded
        /\ e.approval = d.approval /\ e.memories = d.memories /\ e.traces = d.traces
        /\ e.claimed = {}
    BY <2>1 DEF DropLedger, Database, NoApprovals
  <2>. QED
    BY <1>7, <2>1, <2>2, <2>3
<1>. QED
  BY <1>1, <1>2, <1>3, <1>4, <1>5, <1>6, <1>7

LEMMA OneUp ==
  ASSUME NEW d \in Database, NEW t \in Revisions, d.rev <= t, t < HeadRevision
  PROVE  Up(Raised(d, t)) = Raised(d, t + 1)
<1>1. d.rev \in 0 .. 6 /\ t \in 0 .. 6 /\ t + 1 \in 0 .. 6
  BY DEF Database, Revisions, HeadRevision
<1>2. PICK e \in Database : e = Raised(d, t)
  BY RaisedType
<1>3. PICK f \in Database : f = Raised(d, t + 1)
  BY <1>1, RaisedType DEF Revisions, HeadRevision
<1>4. PICK g \in Database : g = Up(e)
  BY <1>1, <1>2, UpFields, Fields DEF Raised, HeadRevision
<1>5. e.rev = t /\ f.rev = t + 1 /\ g.rev = t + 1
  BY <1>1, <1>2, <1>3, <1>4, UpFields, Fields DEF Raised, HeadRevision
<1>6. g.stock = f.stock /\ g.memories = f.memories /\ g.traces = f.traces
  BY <1>1, <1>2, <1>3, <1>4, <1>5, UpFields, Fields DEF Raised, HeadRevision
<1>7. g.refunded = f.refunded /\ g.claimed = f.claimed
  BY <1>1, <1>2, <1>3, <1>4, <1>5, UpFields, Fields DEF Raised, HeadRevision
<1>8. g.approval = f.approval
  BY <1>1, <1>2, <1>3, <1>4, <1>5, UpFields, Fields DEF Raised, HeadRevision
<1>. QED
  BY <1>2, <1>3, <1>4, <1>5, <1>6, <1>7, <1>8, SameRow

LEMMA OneDown ==
  ASSUME NEW d \in Database, NEW t \in Revisions, t <= d.rev, t > 0
  PROVE  DownOne(Lowered(d, t)) = Lowered(d, t - 1)
<1>1. d.rev \in 0 .. 6 /\ t \in 0 .. 6 /\ t - 1 \in 0 .. 6
  BY DEF Database, Revisions, HeadRevision
<1>2. PICK e \in Database : e = Lowered(d, t)
  BY RaisedType
<1>3. PICK f \in Database : f = Lowered(d, t - 1)
  BY <1>1, RaisedType DEF Revisions, HeadRevision
<1>4. PICK g \in Database : g = DownOne(e)
  BY <1>1, <1>2, DownFields, Fields DEF Lowered, HeadRevision
<1>5. e.rev = t /\ f.rev = t - 1 /\ g.rev = t - 1
  BY <1>1, <1>2, <1>3, <1>4, DownFields, Fields DEF Lowered, HeadRevision
<1>6. g.stock = f.stock /\ g.memories = f.memories /\ g.traces = f.traces
  BY <1>1, <1>2, <1>3, <1>4, <1>5, DownFields, Fields DEF Lowered, HeadRevision
<1>7. g.refunded = f.refunded /\ g.claimed = f.claimed
  BY <1>1, <1>2, <1>3, <1>4, <1>5, DownFields, Fields DEF Lowered, HeadRevision
<1>8. g.approval = f.approval
  <2>1. /\ f.approval = IF d.rev >= 2 /\ t - 1 < 2 THEN NoApprovals
                        ELSE IF d.rev >= 5 /\ t - 1 < 5 THEN Collapsed(d) ELSE d.approval
        /\ e.approval = IF d.rev >= 2 /\ t < 2 THEN NoApprovals
                        ELSE IF d.rev >= 5 /\ t < 5 THEN Collapsed(d) ELSE d.approval
    BY <1>2, <1>3, Fields DEF Lowered
  <2>2. g.approval = IF t = 2 THEN NoApprovals ELSE IF t = 5 THEN Collapsed(e) ELSE e.approval
    BY <1>1, <1>2, <1>4, <1>5, DownFields
  <2>3. t = 5 => Collapsed(e) = Collapsed(d)
    BY <1>1, <2>1 DEF Collapsed
  <2>. QED
    BY <1>1, <2>1, <2>2, <2>3
<1>. QED
  BY <1>2, <1>3, <1>4, <1>5, <1>6, <1>7, <1>8, SameRow

\* Reached[s]: where as many migrations lead as there are elements in s.
One(up, d) == IF up THEN Up(d) ELSE DownOne(d)

Walks(up, d, S, reached) ==
    reached = [s \in SUBSET S |-> IF s = {} THEN d ELSE One(up, reached[s \ {Pick(s)}])]

After(up, d, n) == IF up THEN Raised(d, d.rev + n) ELSE Lowered(d, d.rev - n)

LEMMA OneMore ==
  ASSUME NEW up \in BOOLEAN, NEW d \in Database, NEW n \in Nat,
         IF up THEN d.rev + (n + 1) <= HeadRevision ELSE n + 1 <= d.rev
  PROVE  One(up, After(up, d, n)) = After(up, d, n + 1)
<1>1. d.rev \in Revisions /\ HeadRevision = 6 /\ Revisions = 0 .. 6
  BY DEF Database, Revisions, HeadRevision
<1>2. CASE up
  <2>1. d.rev + n \in Revisions /\ d.rev <= d.rev + n /\ d.rev + n < HeadRevision
    BY <1>1, <1>2
  <2>2. d.rev + (n + 1) = (d.rev + n) + 1
    BY <1>1
  <2>. QED
    BY <1>2, <2>1, <2>2, OneUp DEF One, After
<1>3. CASE ~up
  <2>1. d.rev - n \in Revisions /\ d.rev - n <= d.rev /\ d.rev - n > 0
    BY <1>1, <1>3
  <2>2. d.rev - (n + 1) = (d.rev - n) - 1
    BY <1>1
  <2>. QED
    BY <1>3, <2>1, <2>2, OneDown DEF One, After
<1>. QED
  BY <1>2, <1>3

\* However the steps are counted off, as many lead as far.
LEMMA StepByStep ==
  ASSUME NEW up \in BOOLEAN, NEW d \in Database, NEW S, IsFiniteSet(S),
         IF up THEN d.rev + Cardinality(S) <= HeadRevision ELSE Cardinality(S) <= d.rev
  PROVE  /\ \E reached : Walks(up, d, S, reached)
         /\ \A reached : Walks(up, d, S, reached) => reached[S] = After(up, d, Cardinality(S))
<1> DEFINE expected == [s \in SUBSET S |-> After(up, d, Cardinality(s))]
<1>1. d.rev \in Nat /\ Cardinality(S) \in Nat
  BY FS_CardinalityType DEF Database, Revisions, HeadRevision
<1>2. After(up, d, 0) = d
  BY <1>1, NowhereYet DEF After
<1>3. ASSUME NEW s \in SUBSET S, s # {}
      PROVE  /\ s \ {Pick(s)} \in SUBSET S
             /\ Cardinality(s) \in Nat /\ Cardinality(s \ {Pick(s)}) = Cardinality(s) - 1
             /\ Cardinality(s) - 1 \in Nat
             /\ After(up, d, Cardinality(s)) = One(up, After(up, d, Cardinality(s) - 1))
  <2>1. /\ s \ {Pick(s)} \in SUBSET S /\ Cardinality(s) \in Nat /\ Cardinality(s) <= Cardinality(S)
        /\ Cardinality(s \ {Pick(s)}) = Cardinality(s) - 1 /\ Cardinality(s) # 0
    BY <1>3, Picked
  <2>2. PICK n \in Nat : n = Cardinality(s) - 1
    BY <2>1
  <2>3. IF up THEN d.rev + (n + 1) <= HeadRevision ELSE n + 1 <= d.rev
    BY <1>1, <2>1, <2>2 DEF HeadRevision
  <2>4. One(up, After(up, d, n)) = After(up, d, n + 1) /\ n + 1 = Cardinality(s)
    BY <2>1, <2>2, <2>3, OneMore
  <2>. QED
    BY <2>1, <2>2, <2>4
<1>4. Walks(up, d, S, expected)
  <2>1. ASSUME NEW s \in SUBSET S
        PROVE  expected[s] = IF s = {} THEN d ELSE One(up, expected[s \ {Pick(s)}])
    <3>1. CASE s = {}
      BY <1>2, <3>1, FS_EmptySet
    <3>2. CASE s # {}
      BY <1>3, <3>2
    <3>. QED
      BY <3>1, <3>2
  <2>. QED
    BY <2>1 DEF Walks
<1>5. ASSUME NEW reached, Walks(up, d, S, reached) PROVE reached[S] = After(up, d, Cardinality(S))
  <2> DEFINE Bad == {n \in Nat : \E s \in SUBSET S :
                        Cardinality(s) = n /\ reached[s] # After(up, d, n)}
  <2>1. Bad = {}
    <3>1. SUFFICES ASSUME Bad # {} PROVE FALSE
      OBVIOUS
    <3>2. PICK n \in Bad : \A k \in Bad : n <= k
      <4>1. Bad \subseteq Nat
        OBVIOUS
      <4>. HIDE DEF Bad
      <4>. QED
        BY <3>1, <4>1, Least
    <3>3. PICK s \in SUBSET S : Cardinality(s) = n /\ reached[s] # After(up, d, n)
      BY <3>2
    <3>4. reached[s] = IF s = {} THEN d ELSE One(up, reached[s \ {Pick(s)}])
      BY <1>5 DEF Walks
    <3>5. s # {}
      BY <1>2, <3>3, <3>4, FS_EmptySet
    <3>6. n - 1 \notin Bad
      BY <1>3, <3>2, <3>3, <3>5
    <3>7. reached[s \ {Pick(s)}] = After(up, d, n - 1)
      BY <1>3, <3>3, <3>5, <3>6
    <3>. QED
      BY <1>3, <3>3, <3>4, <3>5, <3>7
  <2>2. S \in SUBSET S
    OBVIOUS
  <2>. QED
    BY <1>1, <2>1, <2>2
<1>. QED
  BY <1>4, <1>5

LEMMA Between ==
  ASSUME NEW a \in Int, NEW b \in Int, a <= b
  PROVE  IsFiniteSet(a + 1 .. b) /\ Cardinality(a + 1 .. b) = b - a
<1>1. PICK from \in Int : from = a + 1
  OBVIOUS
<1>2. IsFiniteSet(from .. b) /\ Cardinality(from .. b) = IF from > b THEN 0 ELSE b - from + 1
  BY <1>1, FS_Interval
<1>3. (IF from > b THEN 0 ELSE b - from + 1) = b - a
  BY <1>1
<1>. QED
  BY <1>1, <1>2, <1>3

LEMMA MigratedIs ==
  ASSUME NEW d \in Database, NEW target \in Revisions
  PROVE  Migrated(d, target) = IF d.rev <= target THEN Raised(d, target) ELSE Lowered(d, target)
<1>1. d.rev \in Nat /\ target \in Nat /\ d.rev <= HeadRevision /\ target <= HeadRevision /\ HeadRevision = 6
  BY DEF Database, Revisions, HeadRevision
<1>2. CASE d.rev <= target
  <2> DEFINE S == d.rev + 1 .. target
             reached == CHOOSE h : Walks(TRUE, d, S, h)
  <2>1. IsFiniteSet(S) /\ Cardinality(S) = target - d.rev
    <3>1. d.rev \in Int /\ target \in Int
      BY <1>1
    <3>. QED
      BY <1>2, <3>1, Between
  <2>2. Walks(TRUE, d, S, reached) /\ reached[S] = After(TRUE, d, Cardinality(S))
    <3>1. d.rev + Cardinality(S) <= HeadRevision
      BY <1>1, <2>1
    <3>. HIDE DEF S
    <3>. QED
      BY <2>1, <3>1, StepByStep
  <2>3. Migrated(d, target) = reached[S]
    BY <1>2 DEF Migrated, FoldSet, MapThenFoldSet, Walks, One, Pick
  <2>4. d.rev + Cardinality(S) = target
    BY <1>1, <2>1
  <2>. QED
    BY <1>2, <2>2, <2>3, <2>4 DEF After
<1>3. CASE ~(d.rev <= target)
  <2> DEFINE S == target + 1 .. d.rev
             reached == CHOOSE h : Walks(FALSE, d, S, h)
  <2>1. IsFiniteSet(S) /\ Cardinality(S) = d.rev - target
    <3>1. d.rev \in Int /\ target \in Int /\ target <= d.rev
      BY <1>1, <1>3
    <3>. QED
      BY <3>1, Between
  <2>2. Walks(FALSE, d, S, reached) /\ reached[S] = After(FALSE, d, Cardinality(S))
    <3>1. Cardinality(S) <= d.rev
      BY <1>1, <2>1
    <3>. HIDE DEF S
    <3>. QED
      BY <2>1, <3>1, StepByStep
  <2>3. Migrated(d, target) = reached[S]
    BY <1>3 DEF Migrated, FoldSet, MapThenFoldSet, Walks, One, Pick
  <2>4. d.rev - Cardinality(S) = target
    BY <1>1, <2>1
  <2>. QED
    BY <1>3, <2>2, <2>3, <2>4 DEF After
<1>. QED
  BY <1>2, <1>3

\* An upgrade keeps what there is, and a column that is new counts nothing.
LEMMA Upgraded ==
  ASSUME NEW d \in Database, Bare(d), NEW u, u = Migrated(d, HeadRevision)
  PROVE  /\ u \in Database /\ u.rev = HeadRevision /\ Bare(u)
         /\ u.stock = d.stock /\ u.approval = d.approval /\ u.memories = d.memories
         /\ u.traces = d.traces /\ u.claimed = d.claimed
         /\ u.refunded = IF d.rev < 5 THEN 0 ELSE d.refunded
<1>1. HeadRevision \in Revisions /\ HeadRevision = 6 /\ d.rev \in 0 .. 6 /\ d.rev <= HeadRevision
  BY DEF HeadRevision, Revisions, Database
<1>2. u = Raised(d, HeadRevision) /\ u \in Database
  BY <1>1, MigratedIs, RaisedType
<1>3. /\ u.rev = HeadRevision
      /\ u.stock = (IF d.rev < 1 /\ HeadRevision >= 1 THEN Unseeded ELSE d.stock)
      /\ u.refunded = (IF d.rev < 5 /\ HeadRevision >= 5 THEN 0 ELSE d.refunded)
      /\ u.approval = (IF d.rev < 2 /\ HeadRevision >= 2 THEN NoApprovals ELSE d.approval)
      /\ u.memories = (IF d.rev < 3 /\ HeadRevision >= 3 THEN 0 ELSE d.memories)
      /\ u.traces = (IF d.rev < 4 /\ HeadRevision >= 4 THEN 0 ELSE d.traces)
      /\ u.claimed = (IF d.rev < 6 /\ HeadRevision >= 6 THEN {} ELSE d.claimed)
  BY <1>2, Fields DEF Raised
<1>4. d.rev < 2 => d.approval = NoApprovals
  <2>1. d.approval \in [Refunds -> Statuses]
    BY Rows
  <2>. QED
    BY <2>1 DEF Bare, NoApprovals
<1>5. d.refunded \in Nat \cup {NoColumn} /\ d.rev >= 5 => u.refunded # NoColumn
  BY <1>1, <1>3 DEF Bare
<1>6. Bare(u)
  BY <1>1, <1>3, <1>5, Rows DEF Bare, NoColumn
<1>. QED
  BY <1>1, <1>2, <1>3, <1>4, <1>6 DEF Bare

\* A downgrade takes what the revisions above its target hold.
LEMMA Downgraded ==
  ASSUME NEW d \in Database, Bare(d), NEW target \in Revisions, target < d.rev,
         NEW u, u = Migrated(d, target)
  PROVE  /\ u \in Database /\ u.rev = target /\ Bare(u)
         /\ u.stock = IF target < 1 THEN Unseeded ELSE d.stock
         /\ target >= 5 => u.approval = d.approval /\ u.refunded = d.refunded
<1>1. HeadRevision = 6 /\ d.rev \in 0 .. 6 /\ target \in 0 .. 6 /\ ~(d.rev <= target)
  BY DEF HeadRevision, Revisions, Database
<1>2. u = Lowered(d, target) /\ u \in Database
  BY <1>1, MigratedIs, RaisedType
<1>3. /\ u.rev = target
      /\ u.stock = (IF d.rev >= 1 /\ target < 1 THEN Unseeded ELSE d.stock)
      /\ u.refunded = (IF d.rev >= 5 /\ target < 5 THEN NoColumn ELSE d.refunded)
      /\ u.approval = (IF d.rev >= 2 /\ target < 2 THEN NoApprovals
                       ELSE IF d.rev >= 5 /\ target < 5 THEN Collapsed(d) ELSE d.approval)
      /\ u.memories = (IF d.rev >= 3 /\ target < 3 THEN 0 ELSE d.memories)
      /\ u.traces = (IF d.rev >= 4 /\ target < 4 THEN 0 ELSE d.traces)
      /\ u.claimed = (IF d.rev >= 6 /\ target < 6 THEN {} ELSE d.claimed)
  BY <1>2, Fields DEF Lowered
<1>4. u.rev < 2 => \A a \in Refunds : u.approval[a] = "none"
  BY <1>1, <1>3 DEF NoApprovals, Bare
<1>5. u.rev < 5 <=> u.refunded = NoColumn
  BY <1>1, <1>3 DEF Bare
<1>6. Bare(u)
  BY <1>1, <1>3, <1>4, <1>5 DEF Bare
<1>. QED
  BY <1>1, <1>2, <1>3, <1>6

--------------------------------------------------------------------------------
\* The steps of a container.

\* What a step leaves alone, the tables remember.
LEMMA StillRemembered ==
  ASSUME Remembered, paid' = paid,
         lowest' >= 5 => /\ lowest >= 5 /\ db'.rev \in {0, 5, 6}
                         /\ db'.approval = db.approval
                         /\ (IF db'.rev >= 5 THEN db'.refunded ELSE 0)
                              = IF db.rev >= 5 THEN db.refunded ELSE 0,
         \A c \in Containers : container'[c].busy \subseteq container[c].busy
  PROVE  Remembered'
<1>1. PICK old : old = paid /\ old = paid'
  OBVIOUS
<1>2. \A p : p = paid => Total(p) = Total(old)
  BY <1>1
<1>3. Total(paid)' = Total(paid)
  BY <1>1, <1>2
<1>4. \A c \in Containers, a \in Refunds : Claims(c, a)' => Claims(c, a)
  BY DEF Claims
<1>. QED
  BY <1>3, <1>4 DEF Remembered

\* A container that only goes on, or down, disturbs nothing.
LEMMA Moves ==
  ASSUME IInv, NEW c \in Containers, NEW k \in Container, container' = [container EXCEPT ![c] = k],
         UNCHANGED <<db, Data, lowest>>, downgrades' \in Nat, deaths' \in Nat,
         k.busy = {}, k.base <= db.rev,
         lowest = HeadRevision /\ k.at \in {"seed", "serve"} => db.rev = HeadRevision
  PROVE  IInv'
<1>1. container \in [Containers -> Container]
  BY DEF IInv, Typed
<1>2. Typed'
  BY <1>1 DEF IInv, Typed, Data
<1>3. Bare(db)' /\ Stocked' /\ Ledger'
  BY DEF IInv, Bare, Stocked, Ledger, Data
<1>4. Forward'
  BY <1>1 DEF IInv, Forward
<1>5. \A e \in Containers : container'[e].busy \subseteq container[e].busy
  BY <1>1
<1>6. Remembered'
  BY <1>5, StillRemembered DEF IInv, Remembered, Data
<1>. QED
  BY <1>2, <1>3, <1>4, <1>6 DEF IInv

\* A container at the beginning of a step of its start.
LEMMA Fresh ==
  /\ Down \in Container /\ Down.at = "down" /\ Down.base = 0 /\ Down.busy = {}
  /\ \A at \in {"down", "upgrade", "seed", "serve"} :
        \A k : k = [Down EXCEPT !.at = at] =>
                  k \in Container /\ k.at = at /\ k.base = 0 /\ k.busy = {}
<1>1. Down \in Container /\ Down.at = "down" /\ Down.base = 0 /\ Down.busy = {}
  <2>1. 0 \in Revisions /\ {} \in SUBSET (Refunds \X {"executing", "executed", "failed"})
    BY DEF Revisions, HeadRevision
  <2>. QED
    BY <2>1 DEF Down, Container
<1>2. ASSUME NEW at \in {"down", "upgrade", "seed", "serve"}, NEW k, k = [Down EXCEPT !.at = at]
      PROVE  k \in Container /\ k.at = at /\ k.base = 0 /\ k.busy = {}
  BY <1>1, <1>2 DEF Container
<1>. QED
  BY <1>1, <1>2

LEMMA Revision ==
  ASSUME IInv
  PROVE  db.rev \in Revisions /\ db.rev >= 0 /\ 0 \in Revisions /\ downgrades \in Nat
         /\ deaths \in Nat /\ deaths + 1 \in Nat /\ downgrades + 1 \in Nat
  BY DEF IInv, Typed, Database, Revisions, HeadRevision

LEMMA StartKeeps == ASSUME IInv, NEW c \in Containers, Start(c) PROVE IInv'
<1>1. PICK k : k = [Down EXCEPT !.at = "upgrade", !.base = db.rev]
  OBVIOUS
<1>2. container' = [container EXCEPT ![c] = k] /\ UNCHANGED <<db, Data, lowest, downgrades, deaths>>
  BY <1>1 DEF Start, Becomes
<1>3. k \in Container /\ k.at = "upgrade" /\ k.base = db.rev /\ k.busy = {}
  <2>1. PICK base \in Revisions : base = db.rev
    BY Revision
  <2>2. PICK m : m = [Down EXCEPT !.at = "upgrade"]
    OBVIOUS
  <2>3. m \in Container /\ m.at = "upgrade" /\ m.busy = {}
    BY <2>2, Fresh
  <2>4. k = [m EXCEPT !.base = base]
    BY <1>1, <2>1, <2>2
  <2>. QED
    BY <2>1, <2>3, <2>4 DEF Container
<1>4. k.base <= db.rev
  BY <1>3, Revision DEF Revisions, HeadRevision
<1>. QED
  BY <1>2, <1>3, <1>4, Revision, Moves

LEMMA FailsKeeps ==
  ASSUME IInv, NEW c \in Containers, container' = [container EXCEPT ![c] = Down],
         UNCHANGED <<db, Data, lowest, downgrades>>, deaths' \in Nat
  PROVE  IInv'
<1>1. PICK k : k = Down
  OBVIOUS
<1>2. k \in Container /\ k.at = "down" /\ k.base = 0 /\ k.busy = {}
  BY <1>1, Revision, Fresh
<1>. QED
  BY <1>1, <1>2, Revision, Moves

LEMMA UpgradeKeeps == ASSUME IInv, NEW c \in Containers, Upgrade(c) PROVE IInv'
<1>1. PICK k : k = [Down EXCEPT !.at = "seed"]
  OBVIOUS
<1>2. k \in Container /\ k.at = "seed" /\ k.base = 0 /\ k.busy = {}
  BY <1>1, Revision, Fresh
<1>3. CASE container[c].base \notin {db.rev, HeadRevision}
  BY <1>3, Revision, FailsKeeps DEF Upgrade, UpgradeFails, Fails, Becomes
<1>4. CASE container[c].base \in {db.rev, HeadRevision}
  <2>1. /\ container' = [container EXCEPT ![c] = k] /\ UNCHANGED <<Data, lowest, downgrades, deaths>>
        /\ db' = IF container[c].base = HeadRevision THEN db ELSE Migrated(db, HeadRevision)
    BY <1>1, <1>4 DEF Upgrade, Becomes
  <2>2. CASE container[c].base = HeadRevision
    <3>1. lowest = HeadRevision => db.rev = HeadRevision
      BY <2>2, Revision DEF IInv, Forward, Revisions, HeadRevision
    <3>. QED
      BY <1>2, <2>1, <2>2, <3>1, Revision, Moves
  <2>3. CASE container[c].base # HeadRevision
    <3>1. PICK u : u = Migrated(db, HeadRevision) /\ db' = u
      BY <2>1, <2>3
    <3>2. /\ u \in Database /\ u.rev = HeadRevision /\ Bare(u)
          /\ u.stock = db.stock /\ u.approval = db.approval /\ u.claimed = db.claimed
          /\ u.refunded = IF db.rev < 5 THEN 0 ELSE db.refunded
      BY <3>1, Upgraded DEF IInv, Typed
    <3>3. Typed' /\ Bare(db)'
      BY <1>2, <2>1, <3>1, <3>2 DEF IInv, Typed, Data, Bare
    <3>4. Stocked'
      BY <2>1, <3>1, <3>2 DEF IInv, Stocked, Data
    <3>5. \A e \in Containers : container[e].base <= HeadRevision
      BY DEF IInv, Typed, Container, Revisions
    <3>6. Forward'
      BY <1>2, <2>1, <3>1, <3>2, <3>5, Revision DEF IInv, Forward, Typed, HeadRevision
    <3>7. Ledger'
      BY <2>1, <3>1, <3>2 DEF IInv, Ledger, Data
    <3>8. \A e \in Containers : container'[e].busy \subseteq container[e].busy
      BY <1>2, <2>1 DEF IInv, Typed
    <3>9. lowest >= 5 => (IF db.rev >= 5 THEN db.refunded ELSE 0) = u.refunded
      BY <3>2, Revision DEF Revisions, HeadRevision
    <3>10. Remembered'
      BY <2>1, <3>1, <3>2, <3>8, <3>9, StillRemembered DEF IInv, Data, HeadRevision
    <3>. QED
      BY <3>3, <3>4, <3>6, <3>7, <3>10 DEF IInv
  <2>. QED
    BY <2>2, <2>3
<1>. QED
  BY <1>3, <1>4

LEMMA LookAtProductsKeeps == ASSUME IInv, NEW c \in Containers, LookAtProducts(c) PROVE IInv'
<1>1. UNCHANGED <<Data, lowest, downgrades, deaths>> /\ container[c].at = "seed"
  BY DEF LookAtProducts
<1>2. container \in [Containers -> Container] /\ container[c] \in Container
  BY DEF IInv, Typed
<1>3. lowest = HeadRevision => db.rev = HeadRevision
  BY <1>1 DEF IInv, Forward
<1>4. CASE container' = [container EXCEPT ![c] = [container[c] EXCEPT !.empty = TRUE]] /\ UNCHANGED db
  <2>1. PICK k : k = [container[c] EXCEPT !.empty = TRUE]
    OBVIOUS
  <2>2. /\ k \in Container /\ k.at = "seed" /\ k.busy = container[c].busy
        /\ k.base = container[c].base
    BY <1>1, <1>2, <2>1 DEF Container
  <2>3. Typed'
    BY <1>1, <1>2, <1>4, <2>1, <2>2 DEF IInv, Typed, Data
  <2>4. Bare(db)' /\ Stocked' /\ Ledger'
    BY <1>1, <1>4 DEF IInv, Bare, Stocked, Ledger, Data
  <2>5. Forward'
    BY <1>1, <1>2, <1>3, <1>4, <2>1, <2>2 DEF IInv, Forward
  <2>6. Remembered'
    <3>1. \A e \in Containers : container'[e].busy \subseteq container[e].busy
      BY <1>2, <1>4, <2>1, <2>2
    <3>. QED
      BY <1>1, <1>4, <3>1, StillRemembered DEF IInv, Remembered, Data
  <2>. QED
    BY <2>3, <2>4, <2>5, <2>6 DEF IInv
<1>5. CASE container' = [container EXCEPT ![c] = [Down EXCEPT !.at = "serve"]] /\ UNCHANGED db
  <2>1. PICK k : k = [Down EXCEPT !.at = "serve"]
    OBVIOUS
  <2>2. k \in Container /\ k.at = "serve" /\ k.base = 0 /\ k.busy = {}
    BY <2>1, Revision, Fresh
  <2>. QED
    BY <1>1, <1>3, <1>5, <2>1, <2>2, Revision, Moves
<1>6. CASE Fails(c)
  BY <1>1, <1>6, Revision, FailsKeeps DEF Fails, Becomes
<1>. QED
  BY <1>4, <1>5, <1>6 DEF LookAtProducts, Becomes

\* Who has seen what, when one container goes on and the schema stays.
LEMMA SeenBefore ==
  ASSUME IInv, NEW c \in Containers, NEW k, container' = [container EXCEPT ![c] = k],
         db'.rev = db.rev, lowest' = lowest, k.base <= db.rev,
         lowest = HeadRevision /\ k.at \in {"seed", "serve"} => db.rev = HeadRevision
  PROVE  Forward'
  BY DEF IInv, Forward, Typed

LEMMA SeedKeeps == ASSUME IInv, NEW c \in Containers, Seed(c) PROVE IInv'
<1>1. UNCHANGED <<Data, lowest, downgrades, deaths>> /\ container[c].at = "seed"
  BY DEF Seed
<1>2. CASE Fails(c)
  BY <1>1, <1>2, Revision, FailsKeeps DEF Fails, Becomes
<1>3. CASE db.rev >= 5 /\ db' = InsertMissing(db) /\ Becomes(c, [Down EXCEPT !.at = "serve"])
  <2>1. PICK k : k = [Down EXCEPT !.at = "serve"]
    OBVIOUS
  <2>2. k \in Container /\ k.at = "serve" /\ k.base = 0 /\ k.busy = {}
    BY <2>1, Fresh
  <2>3. container' = [container EXCEPT ![c] = k]
    BY <1>3, <2>1 DEF Becomes
  <2>4. db \in Database /\ Stock \in Nat
    BY DeploymentAssumption DEF IInv, Typed
  <2>5. /\ db' \in Database /\ db'.rev = db.rev /\ db'.refunded = db.refunded
        /\ db'.approval = db.approval /\ db'.memories = db.memories /\ db'.traces = db.traces
        /\ db'.claimed = db.claimed
        /\ db'.stock = IF db.stock = Unseeded THEN Stock ELSE db.stock
    BY <1>3, <2>4, Edits DEF InsertMissing, Database
  <2>6. Typed'
    BY <1>1, <2>2, <2>3, <2>5 DEF IInv, Typed, Data
  <2>13. db.rev \in Int /\ db.rev >= 5
    BY <1>3, Revision DEF Revisions, HeadRevision
  <2>14. Bare(db)'
    BY <2>5, <2>13 DEF IInv, Bare
  <2>7. lowest = HeadRevision => db.rev = HeadRevision
    BY <1>1 DEF IInv, Forward
  <2>8. Forward'
    BY <1>1, <2>2, <2>3, <2>5, <2>7, Revision, SeenBefore
  <2>9. Stocked'
    BY <1>1, <2>4, <2>5 DEF IInv, Stocked, Data
  <2>10. Ledger'
    BY <1>1, <2>5 DEF IInv, Ledger, Data
  <2>11. \A e \in Containers : container'[e].busy \subseteq container[e].busy
    BY <2>2, <2>3 DEF IInv, Typed
  <2>12. Remembered'
    BY <1>1, <2>5, <2>11, StillRemembered DEF IInv, Remembered, Data
  <2>. QED
    BY <2>6, <2>8, <2>9, <2>10, <2>12, <2>14 DEF IInv
<1>. QED
  BY <1>2, <1>3 DEF Seed

LEMMA LosesDatabaseKeeps ==
  ASSUME IInv, NEW c \in Containers, LosesDatabase(c) \/ Die(c) PROVE IInv'
  BY Revision, FailsKeeps DEF LosesDatabase, Die, UpgradeFails, Fails, Becomes

--------------------------------------------------------------------------------
\* The steps of a server.

LEMMA SellKeeps == ASSUME IInv, NEW c \in Containers, Sell(c) PROVE IInv'
<1>1. /\ db.rev >= 5 /\ db.stock > 0 /\ db' = [db EXCEPT !.stock = @ - 1] /\ sold' = sold + 1
      /\ UNCHANGED <<container, paid, runs, lowest, downgrades, deaths>>
  BY DEF Sell, Committed
<1>2. db \in Database /\ db.stock \in Nat /\ db.stock - 1 \in Nat /\ sold \in Nat /\ sold + 1 \in Nat
  BY <1>1 DEF IInv, Typed, Database, Unseeded
<1>3. PICK n \in Nat : n = db.stock - 1
  BY <1>2
<1>4. db' = [db EXCEPT !.stock = n]
  BY <1>1, <1>3
<1>5. /\ db' \in Database /\ db'.rev = db.rev /\ db'.refunded = db.refunded
      /\ db'.approval = db.approval /\ db'.memories = db.memories /\ db'.traces = db.traces
      /\ db'.claimed = db.claimed /\ db'.stock = n
  BY <1>2, <1>4, Edits DEF Database
<1>6. Typed'
  BY <1>1, <1>2, <1>5 DEF IInv, Typed
<1>10. db.rev \in Int /\ db.rev >= 5
  BY <1>1, Revision DEF Revisions, HeadRevision
<1>11. Bare(db)'
  BY <1>5, <1>10 DEF IInv, Bare
<1>7. Forward' /\ Ledger'
  BY <1>1, <1>5 DEF IInv, Forward, Ledger
<1>8. Stocked'
  BY <1>1, <1>2, <1>3, <1>5, DeploymentAssumption DEF IInv, Stocked, Unseeded
<1>9. Remembered'
  BY <1>1, <1>5, StillRemembered DEF IInv, Remembered
<1>. QED
  BY <1>6, <1>7, <1>8, <1>9, <1>11 DEF IInv

LEMMA ConverseKeeps == ASSUME IInv, NEW c \in Containers, NEW m \in Messages, Converse(c, m) PROVE IInv'
<1>1. /\ db.rev >= 6 /\ m \notin db.claimed
      /\ db' = [db EXCEPT !.claimed = @ \cup {m}, !.memories = 1, !.traces = 1]
      /\ runs' = [runs EXCEPT ![m] = @ + 1]
      /\ UNCHANGED <<container, paid, sold, lowest, downgrades, deaths>>
  BY DEF Converse, Committed
<1>2. db \in Database /\ db.claimed \in SUBSET Messages /\ db.rev = HeadRevision /\ HeadRevision = 6
      /\ runs \in [Messages -> Nat]
  BY <1>1 DEF IInv, Typed, Database, Revisions, HeadRevision
<1>3. /\ db' \in Database /\ db'.rev = db.rev /\ db'.refunded = db.refunded
      /\ db'.approval = db.approval /\ db'.stock = db.stock
      /\ db'.claimed = db.claimed \cup {m}
  <2>1. PICK claimed \in SUBSET Messages : claimed = db.claimed \cup {m}
    BY <1>2
  <2>2. PICK one \in Database : one = [db EXCEPT !.claimed = claimed]
    BY <1>2, Edits
  <2>3. PICK two \in Database : two = [one EXCEPT !.memories = 1]
    BY Edits
  <2>4. db' = [two EXCEPT !.traces = 1] /\ db' \in Database
    BY <1>1, <2>1, <2>2, <2>3, Edits
  <2>. QED
    BY <1>2, <2>1, <2>2, <2>3, <2>4 DEF Database
<1>4. Typed'
  BY <1>1, <1>2, <1>3 DEF IInv, Typed
<1>5. Bare(db)'
  BY <1>1, <1>2, <1>3 DEF IInv, Bare
<1>6. Forward' /\ Stocked'
  BY <1>1, <1>3 DEF IInv, Forward, Stocked
<1>7. Ledger'
  BY <1>1, <1>2, <1>3 DEF IInv, Ledger
<1>8. Remembered'
  BY <1>1, <1>3, StillRemembered DEF IInv, Remembered
<1>. QED
  BY <1>4, <1>5, <1>6, <1>7, <1>8 DEF IInv

\* What is paid in all.
LEMMA TotalIs ==
  ASSUME NEW p
  PROVE  \E sum : Adds(p, Refunds, sum) /\ Total(p) = sum[Refunds]
<1> DEFINE sum == CHOOSE f : Adds(p, Refunds, f)
<1>1. Adds(p, Refunds, sum)
  BY DeploymentAssumption, SumExists
<1>2. Total(p) = sum[Refunds]
  BY DEF Total, MapThenSumSet, MapThenFoldSet, Adds, Plus, Pick
<1>. QED
  BY <1>1, <1>2

LEMMA TotalChanges ==
  ASSUME NEW p, NEW q, NEW a \in Refunds,
         \A n \in Refunds : p[n] \in Int /\ q[n] \in Int,
         \A n \in Refunds \ {a} : q[n] = p[n]
  PROVE  Total(p) \in Int /\ Total(q) = Total(p) + (q[a] - p[a])
<1>1. PICK f : Adds(p, Refunds, f) /\ Total(p) = f[Refunds]
  BY TotalIs
<1>2. PICK g : Adds(q, Refunds, g) /\ Total(q) = g[Refunds]
  BY TotalIs
<1>3. IsFiniteSet(Refunds) /\ Adds(p, Refunds, f) /\ Adds(q, Refunds, g)
  BY <1>1, <1>2, DeploymentAssumption
<1>4. f[Refunds] \in Int /\ g[Refunds] = f[Refunds] + (q[a] - p[a])
  BY <1>3, SumChanges
<1>. QED
  BY <1>1, <1>2, <1>4

LEMMA TotalGrows ==
  ASSUME NEW p \in [Refunds -> Nat], NEW a \in Refunds, NEW q, q = [p EXCEPT ![a] = @ + 1]
  PROVE  Total(p) \in Int /\ Total(q) = Total(p) + 1
<1>1. /\ \A n \in Refunds : p[n] \in Int /\ q[n] \in Int
      /\ \A n \in Refunds \ {a} : q[n] = p[n]
      /\ q[a] - p[a] = 1
  OBVIOUS
<1>2. Total(p) \in Int /\ Total(q) = Total(p) + (q[a] - p[a])
  BY <1>1, TotalChanges
<1>. QED
  BY <1>1, <1>2

\* Before anything is paid, nothing is.
LEMMA TotalOfNothing ==
  ASSUME NEW p, \A n \in Refunds : p[n] = 0
  PROVE  Total(p) = 0
<1>1. PICK f : Adds(p, Refunds, f) /\ Total(p) = f[Refunds]
  BY TotalIs
<1>2. IsFiniteSet(Refunds)
  BY DeploymentAssumption
<1>. QED
  BY <1>1, <1>2, SumOfNothing

--------------------------------------------------------------------------------
\* The refunds.

\* What the rows and the schema have to do with each other stays when one row changes.
LEMMA RowChanges ==
  ASSUME IInv, NEW a \in Refunds, NEW status \in Statuses, db.rev >= 2,
         db' = [db EXCEPT !.approval[a] = status],
         UNCHANGED <<runs, sold, lowest>>
  PROVE  /\ db' \in Database /\ db'.rev = db.rev /\ db'.refunded = db.refunded
         /\ db'.approval = [db.approval EXCEPT ![a] = status]
         /\ Bare(db)' /\ Stocked' /\ Ledger'
<1>1. db \in Database /\ db.approval \in [Refunds -> Statuses] /\ db.rev \in Int
  BY Rows DEF IInv, Typed, Revisions, HeadRevision
<1>2. PICK rows \in [Refunds -> Statuses] : rows = [db.approval EXCEPT ![a] = status]
  BY <1>1
<1>3. db' = [db EXCEPT !.approval = rows]
  BY <1>2
<1>7. db' \in Database
  BY <1>1, <1>3, Edits
<1>4. /\ db' \in Database /\ db'.rev = db.rev /\ db'.refunded = db.refunded
      /\ db'.approval = rows /\ db'.memories = db.memories /\ db'.traces = db.traces
      /\ db'.claimed = db.claimed /\ db'.stock = db.stock
  BY <1>1, <1>3, <1>7 DEF Database
<1>5. Bare(db)'
  BY <1>1, <1>4 DEF IInv, Bare
<1>6. Stocked' /\ Ledger'
  BY <1>4 DEF IInv, Stocked, Ledger
<1>. QED
  BY <1>2, <1>4, <1>5, <1>6

\* A server takes up other work.
LEMMA BusyWith ==
  ASSUME IInv, NEW c \in Containers,
         NEW busy \in SUBSET (Refunds \X {"executing", "executed", "failed"}),
         container' = [container EXCEPT ![c] = [container[c] EXCEPT !.busy = busy]],
         db'.rev = db.rev, lowest' = lowest
  PROVE  /\ container' \in [Containers -> Container] /\ Forward'
         /\ container'[c].busy = busy
         /\ \A e \in Containers \ {c} : container'[e] = container[e]
<1>1. container \in [Containers -> Container] /\ container[c] \in Container
  BY DEF IInv, Typed
<1>2. PICK k : k = [container[c] EXCEPT !.busy = busy]
  OBVIOUS
<1>3. k \in Container /\ k.at = container[c].at /\ k.base = container[c].base /\ k.busy = busy
  BY <1>1, <1>2 DEF Container
<1>4. container' = [container EXCEPT ![c] = k]
  BY <1>2
<1>5. Forward'
  BY <1>1, <1>3, <1>4 DEF IInv, Forward
<1>. QED
  BY <1>1, <1>3, <1>4, <1>5

LEMMA DecideKeeps ==
  ASSUME IInv, NEW c \in Containers, NEW a \in Refunds, Decide(c, a) PROVE IInv'
<1>1. UNCHANGED <<container, paid, runs, sold, lowest, downgrades, deaths>> /\ db.rev >= 5
  BY DEF Decide, Data, Committed
<1>2. PICK status \in Statuses : /\ db' = [db EXCEPT !.approval[a] = status]
                                 /\ db.approval[a] \in {"none", "pending"}
                                 /\ status \in {"pending", "approved", "rejected"}
  BY DEF Decide, Statuses
<1>3. db.rev \in Int /\ db.rev >= 2 /\ db.approval \in [Refunds -> Statuses]
  BY <1>1, Rows DEF IInv, Typed, Revisions, HeadRevision
<1>4. /\ db' \in Database /\ db'.rev = db.rev /\ db'.refunded = db.refunded
      /\ db'.approval = [db.approval EXCEPT ![a] = status]
      /\ Bare(db)' /\ Stocked' /\ Ledger'
  BY <1>1, <1>2, <1>3, RowChanges
<1>5. Typed'
  BY <1>1, <1>4 DEF IInv, Typed
<1>6. Forward'
  BY <1>1, <1>4 DEF IInv, Forward
<1>7. Remembered'
  <2>1. SUFFICES ASSUME lowest >= 5 PROVE Remembered'
    BY <1>1 DEF Remembered
  <2>2. /\ paid[a] = 0
        /\ \A e \in Containers : ~Claims(e, a)
    BY <1>2, <2>1 DEF IInv, Remembered
  <2>3. \A b \in Refunds, e \in Containers : Claims(e, b)' <=> Claims(e, b)
    BY <1>1 DEF Claims
  <2>4. \A b \in Refunds \ {a} : db'.approval[b] = db.approval[b]
    BY <1>3, <1>4
  <2>5. \A b \in Refunds :
              /\ paid'[b] <= 1
              /\ db'.approval[b] \notin {"executing", "executed", "failed"} => paid'[b] = 0
              /\ \A e \in Containers :
                    /\ Claims(e, b)' => db'.approval[b] = "executing"
                    /\ <<b, "executing">> \in container'[e].busy => paid'[b] = 0
                    /\ \A f \in Containers : Claims(e, b)' /\ Claims(f, b)' => e = f
    BY <1>1, <2>1, <2>2, <2>3, <2>4 DEF IInv, Remembered
  <2>. QED
    BY <1>1, <1>4, <2>1, <2>5 DEF IInv, Remembered
<1>. QED
  BY <1>4, <1>5, <1>6, <1>7 DEF IInv

LEMMA ClaimRefundKeeps ==
  ASSUME IInv, NEW c \in Containers, NEW a \in Refunds, ClaimRefund(c, a) PROVE IInv'
<1>1. /\ UNCHANGED <<paid, runs, sold, lowest, downgrades, deaths>> /\ db.rev >= 5
      /\ db.approval[a] = "approved" /\ db' = [db EXCEPT !.approval[a] = "executing"]
  BY DEF ClaimRefund, Data, Committed
<1>2. PICK busy \in SUBSET (Refunds \X {"executing", "executed", "failed"}) :
          busy = {<<a, "executing">>}
  <2>1. <<a, "executing">> \in Refunds \X {"executing", "executed", "failed"}
    OBVIOUS
  <2>. QED
    BY <2>1
<1>3. container' = [container EXCEPT ![c] = [container[c] EXCEPT !.busy = busy]]
  BY <1>2 DEF ClaimRefund, Becomes
<1>4. db.rev \in Int /\ db.rev >= 2 /\ db.approval \in [Refunds -> Statuses]
  BY <1>1, Rows DEF IInv, Typed, Revisions, HeadRevision
<1>5. /\ db' \in Database /\ db'.rev = db.rev /\ db'.refunded = db.refunded
      /\ db'.approval = [db.approval EXCEPT ![a] = "executing"]
      /\ Bare(db)' /\ Stocked' /\ Ledger'
  BY <1>1, <1>4, RowChanges DEF Statuses
<1>6. /\ container' \in [Containers -> Container] /\ Forward'
      /\ container'[c].busy = busy
      /\ \A e \in Containers \ {c} : container'[e] = container[e]
  BY <1>1, <1>3, <1>5, BusyWith
<1>7. Typed'
  BY <1>1, <1>5, <1>6 DEF IInv, Typed
<1>8. Remembered'
  <2>1. SUFFICES ASSUME lowest >= 5 PROVE Remembered'
    BY <1>1 DEF Remembered
  <2>2. paid[a] = 0 /\ \A e \in Containers : ~Claims(e, a)
    BY <1>1, <2>1 DEF IInv, Remembered
  <2>3. /\ \A b \in Refunds : Claims(c, b)' => b = a
        /\ \A b \in Refunds, e \in Containers \ {c} : Claims(e, b)' <=> Claims(e, b)
    <3>1. \A b, outcome : <<b, outcome>> \in container'[c].busy => b = a
      BY <1>2, <1>6
    <3>. QED
      BY <1>6, <3>1 DEF Claims
  <2>4. /\ \A b \in Refunds \ {a} : db'.approval[b] = db.approval[b]
        /\ db'.approval[a] = "executing"
    BY <1>4, <1>5
  <2>5. \A b \in Refunds :
              /\ paid'[b] <= 1
              /\ db'.approval[b] \notin {"executing", "executed", "failed"} => paid'[b] = 0
    BY <1>1, <2>1, <2>2, <2>4 DEF IInv, Remembered
  <2>6. \A b \in Refunds, e \in Containers :
              /\ Claims(e, b)' => db'.approval[b] = "executing"
              /\ \A f \in Containers : Claims(e, b)' /\ Claims(f, b)' => e = f
    BY <1>1, <2>1, <2>2, <2>3, <2>4 DEF IInv, Remembered
  <2>7. \A b \in Refunds, e \in Containers :
              <<b, "executing">> \in container'[e].busy => paid'[b] = 0
    BY <1>1, <1>2, <1>6, <2>1, <2>2 DEF IInv, Remembered
  <2>. QED
    BY <1>1, <1>5, <2>1, <2>5, <2>6, <2>7 DEF IInv, Remembered
<1>. QED
  BY <1>5, <1>6, <1>7, <1>8 DEF IInv

\* The refund that a server has come to an end with, in one way or the other.
LEMMA PayRefundKeeps ==
  ASSUME IInv, NEW c \in Containers, NEW a \in Refunds, PayRefund(c, a) PROVE IInv'
<1>1. /\ UNCHANGED <<runs, sold, lowest, downgrades, deaths>>
      /\ <<a, "executing">> \in container[c].busy
  BY DEF PayRefund, Committed
<1>2. /\ db \in Database /\ db.rev \in Int /\ db.refunded \in Nat \cup {NoColumn}
      /\ paid \in [Refunds -> Nat] /\ OrderTotal \in Nat
  BY Rows, DeploymentAssumption DEF IInv, Typed, Revisions, HeadRevision
<1>3. lowest >= 5 => /\ paid[a] = 0 /\ db.approval[a] = "executing"
                     /\ \A e \in Containers \ {c} : ~Claims(e, a)
  BY <1>1 DEF IInv, Remembered, Claims
<1>4. ASSUME NEW outcome \in {"executed", "failed"}, NEW busy, busy = {<<a, outcome>>},
             container' = [container EXCEPT ![c] = [container[c] EXCEPT !.busy = busy]],
             db'.rev = db.rev
      PROVE  /\ container' \in [Containers -> Container] /\ Forward'
             /\ \A b \in Refunds : Claims(c, b)' => b = a
             /\ \A b \in Refunds, e \in Containers \ {c} : Claims(e, b)' <=> Claims(e, b)
             /\ \A b \in Refunds, e \in Containers : <<b, "executing">> \in container'[e].busy =>
                    e # c /\ <<b, "executing">> \in container[e].busy
  <2>1. busy \in SUBSET (Refunds \X {"executing", "executed", "failed"})
    <3>1. <<a, outcome>> \in Refunds \X {"executing", "executed", "failed"}
      OBVIOUS
    <3>. QED
      BY <1>4, <3>1
  <2>2. /\ container' \in [Containers -> Container] /\ Forward'
        /\ container'[c].busy = busy
        /\ \A e \in Containers \ {c} : container'[e] = container[e]
    BY <1>1, <1>4, <2>1, BusyWith
  <2>3. \A b, what : <<b, what>> \in container'[c].busy => b = a /\ what = outcome
    BY <1>4, <2>2
  <2>4. \A b, what : \A e \in Containers \ {c} :
            <<b, what>> \in container'[e].busy <=> <<b, what>> \in container[e].busy
    BY <2>2
  <2>5. /\ \A b \in Refunds : Claims(c, b)' => b = a
        /\ \A b \in Refunds, e \in Containers \ {c} : Claims(e, b)' <=> Claims(e, b)
    BY <2>3, <2>4 DEF Claims
  <2>6. outcome # "executing"
    OBVIOUS
  <2>7. \A b \in Refunds, e \in Containers : <<b, "executing">> \in container'[e].busy =>
            e # c /\ <<b, "executing">> \in container[e].busy
    BY <2>3, <2>4, <2>6
  <2>. QED
    BY <2>2, <2>5, <2>7
<1>5. CASE /\ db.rev >= 5 /\ db.refunded < OrderTotal
           /\ db' = [db EXCEPT !.refunded = @ + 1]
           /\ paid' = [paid EXCEPT ![a] = @ + 1]
           /\ Becomes(c, [container[c] EXCEPT !.busy = {<<a, "executed">>}])
  <2>1. db.refunded \in Nat
    BY <1>2, <1>5 DEF IInv, Bare
  <2>2. PICK refund \in Nat : refund = db.refunded + 1
    BY <2>1
  <2>3. db' = [db EXCEPT !.refunded = refund]
    BY <1>5, <2>2
  <2>4. db' \in Database
    BY <1>2, <2>2, <2>3, Edits
  <2>5. /\ db'.rev = db.rev /\ db'.refunded = refund /\ db'.approval = db.approval
        /\ db'.memories = db.memories /\ db'.traces = db.traces
        /\ db'.claimed = db.claimed /\ db'.stock = db.stock
    BY <1>2, <2>3 DEF Database
  <2>6. PICK busy : busy = {<<a, "executed">>}
    OBVIOUS
  <2>7. container' = [container EXCEPT ![c] = [container[c] EXCEPT !.busy = busy]]
    BY <1>5, <2>6 DEF Becomes
  <2>8. /\ container' \in [Containers -> Container] /\ Forward'
        /\ \A b \in Refunds : Claims(c, b)' => b = a
        /\ \A b \in Refunds, e \in Containers \ {c} : Claims(e, b)' <=> Claims(e, b)
        /\ \A b \in Refunds, e \in Containers : <<b, "executing">> \in container'[e].busy =>
               e # c /\ <<b, "executing">> \in container[e].busy
    BY <1>4, <2>5, <2>6, <2>7
  <2>9. Bare(db)'
    BY <1>2, <1>5, <2>2, <2>5 DEF IInv, Bare, NoColumn
  <2>10. paid' \in [Refunds -> Nat] /\ paid'[a] = paid[a] + 1
         /\ \A b \in Refunds \ {a} : paid'[b] = paid[b]
    BY <1>2, <1>5
  <2>11. Typed' /\ Stocked' /\ Ledger'
    BY <1>1, <2>4, <2>5, <2>8, <2>10 DEF IInv, Typed, Stocked, Ledger
  <2>12. Remembered'
    <3>1. SUFFICES ASSUME lowest >= 5 PROVE Remembered'
      BY <1>1 DEF Remembered
    <3>2. Total(paid)' = Total(paid) + 1 /\ Total(paid) \in Int
      <4>1. PICK old, new : old = paid /\ new = paid'
        OBVIOUS
      <4>2. Total(old) \in Int /\ Total(new) = Total(old) + 1
        BY <1>2, <1>5, <4>1, TotalGrows
      <4>. QED
        BY <4>1, <4>2
    <3>3. Total(paid)' = refund /\ refund <= OrderTotal
      BY <1>2, <1>5, <2>1, <2>2, <3>1, <3>2 DEF IInv, Remembered
    <3>4. \A b \in Refunds :
              /\ paid'[b] <= 1
              /\ db'.approval[b] \notin {"executing", "executed", "failed"} => paid'[b] = 0
      <4>1. paid'[a] = 1 /\ db'.approval[a] = "executing"
        BY <1>3, <2>5, <2>10, <3>1
      <4>2. \A b \in Refunds \ {a} :
              /\ paid[b] <= 1
              /\ db.approval[b] \notin {"executing", "executed", "failed"} => paid[b] = 0
        BY <3>1 DEF IInv, Remembered
      <4>. QED
        BY <2>5, <2>10, <4>1, <4>2
    <3>5. \A b \in Refunds, e \in Containers : Claims(e, b)' => db'.approval[b] = "executing"
      BY <1>3, <2>5, <2>8, <3>1 DEF IInv, Remembered
    <3>6. \A b \in Refunds, e \in Containers :
              <<b, "executing">> \in container'[e].busy => paid'[b] = 0
      <4>1. SUFFICES ASSUME NEW b \in Refunds, NEW e \in Containers,
                            <<b, "executing">> \in container'[e].busy
                     PROVE  paid'[b] = 0
        OBVIOUS
      <4>2. e # c /\ <<b, "executing">> \in container[e].busy
        BY <2>8, <4>1
      <4>3. b # a
        BY <1>3, <3>1, <4>2 DEF Claims
      <4>. QED
        BY <2>10, <3>1, <4>2, <4>3 DEF IInv, Remembered
    <3>7. \A b \in Refunds, e, f \in Containers : Claims(e, b)' /\ Claims(f, b)' => e = f
      <4>1. SUFFICES ASSUME NEW b \in Refunds, NEW e \in Containers, NEW f \in Containers,
                            Claims(e, b)', Claims(f, b)'
                     PROVE  e = f
        OBVIOUS
      <4>2. CASE b = a
        <5>1. \A d \in Containers \ {c} : ~Claims(d, a)'
          BY <1>3, <2>8, <3>1
        <5>. QED
          BY <4>1, <4>2, <5>1
      <4>3. CASE b # a
        <5>1. e # c /\ f # c
          BY <2>8, <4>1, <4>3
        <5>2. Claims(e, b) /\ Claims(f, b)
          BY <2>8, <4>1, <5>1
        <5>. QED
          BY <3>1, <5>2 DEF IInv, Remembered
      <4>. QED
        BY <4>2, <4>3
    <3>. QED
      BY <1>1, <1>5, <2>5, <3>1, <3>3, <3>4, <3>5, <3>6, <3>7 DEF IInv, Remembered
  <2>. QED
    BY <2>8, <2>9, <2>11, <2>12 DEF IInv
<1>6. CASE /\ Becomes(c, [container[c] EXCEPT !.busy = {<<a, "failed">>}])
           /\ UNCHANGED <<db, paid>>
  <2>1. PICK busy : busy = {<<a, "failed">>}
    OBVIOUS
  <2>2. container' = [container EXCEPT ![c] = [container[c] EXCEPT !.busy = busy]]
    BY <1>6, <2>1 DEF Becomes
  <2>3. /\ container' \in [Containers -> Container] /\ Forward'
        /\ \A b \in Refunds : Claims(c, b)' => b = a
        /\ \A b \in Refunds, e \in Containers \ {c} : Claims(e, b)' <=> Claims(e, b)
        /\ \A b \in Refunds, e \in Containers : <<b, "executing">> \in container'[e].busy =>
               e # c /\ <<b, "executing">> \in container[e].busy
    BY <1>4, <1>6, <2>1, <2>2
  <2>4. Typed' /\ Stocked' /\ Ledger' /\ Bare(db)'
    BY <1>1, <1>6, <2>3 DEF IInv, Typed, Stocked, Ledger, Bare
  <2>5. Remembered'
    <3>1. SUFFICES ASSUME lowest >= 5 PROVE Remembered'
      BY <1>1 DEF Remembered
    <3>2. \A b \in Refunds, e \in Containers :
              /\ Claims(e, b)' => db'.approval[b] = "executing"
              /\ <<b, "executing">> \in container'[e].busy => paid'[b] = 0
      BY <1>3, <1>6, <2>3, <3>1 DEF IInv, Remembered
    <3>3. \A b \in Refunds, e, f \in Containers : Claims(e, b)' /\ Claims(f, b)' => e = f
      <4>1. SUFFICES ASSUME NEW b \in Refunds, NEW e \in Containers, NEW f \in Containers,
                            Claims(e, b)', Claims(f, b)'
                     PROVE  e = f
        OBVIOUS
      <4>2. CASE b = a
        <5>1. \A d \in Containers \ {c} : ~Claims(d, a)'
          BY <1>3, <2>3, <3>1
        <5>. QED
          BY <4>1, <4>2, <5>1
      <4>3. CASE b # a
        <5>1. e # c /\ f # c
          BY <2>3, <4>1, <4>3
        <5>2. Claims(e, b) /\ Claims(f, b)
          BY <2>3, <4>1, <5>1
        <5>. QED
          BY <3>1, <5>2 DEF IInv, Remembered
      <4>. QED
        BY <4>2, <4>3
    <3>. QED
      BY <1>1, <1>6, <3>1, <3>2, <3>3 DEF IInv, Remembered
  <2>. QED
    BY <2>3, <2>4, <2>5 DEF IInv
<1>. QED
  BY <1>5, <1>6 DEF PayRefund

LEMMA RecordOutcomeKeeps ==
  ASSUME IInv, NEW c \in Containers, NEW a \in Refunds, RecordOutcome(c, a) PROVE IInv'
<1>1. UNCHANGED <<paid, runs, sold, lowest, downgrades, deaths>>
  BY DEF RecordOutcome, Data, Committed
<1>2. PICK outcome \in {"executed", "failed"} :
          /\ <<a, outcome>> \in container[c].busy
          /\ db' = IF db.approval[a] = "executing"
                   THEN [db EXCEPT !.approval[a] = outcome] ELSE db
  BY DEF RecordOutcome
<1>3. PICK busy \in SUBSET (Refunds \X {"executing", "executed", "failed"}) : busy = {}
  OBVIOUS
<1>4. container' = [container EXCEPT ![c] = [container[c] EXCEPT !.busy = busy]]
  BY <1>3 DEF RecordOutcome, Becomes
<1>5. db \in Database /\ db.rev \in Int /\ db.approval \in [Refunds -> Statuses]
  BY Rows DEF IInv, Typed, Revisions, HeadRevision
<1>6. /\ db' \in Database /\ db'.rev = db.rev /\ db'.refunded = db.refunded
      /\ \A b \in Refunds \ {a} : db'.approval[b] = db.approval[b]
      /\ db.approval[a] = "executing" => db'.approval[a] = outcome
      /\ db.approval[a] # "executing" => db'.approval[a] = db.approval[a]
      /\ Bare(db)' /\ Stocked' /\ Ledger'
  <2>1. CASE db.approval[a] = "executing"
    <3>1. db.rev >= 2
      BY <1>5, <2>1 DEF IInv, Bare
    <3>2. db' = [db EXCEPT !.approval[a] = outcome] /\ outcome \in Statuses
      BY <1>2, <2>1 DEF Statuses
    <3>3. /\ db' \in Database /\ db'.rev = db.rev /\ db'.refunded = db.refunded
          /\ db'.approval = [db.approval EXCEPT ![a] = outcome]
          /\ Bare(db)' /\ Stocked' /\ Ledger'
      BY <1>1, <3>1, <3>2, RowChanges
    <3>. QED
      BY <1>5, <2>1, <3>3
  <2>2. CASE db.approval[a] # "executing"
    BY <1>1, <1>2, <1>5, <2>2 DEF IInv, Bare, Stocked, Ledger
  <2>. QED
    BY <2>1, <2>2
<1>7. /\ container' \in [Containers -> Container] /\ Forward'
      /\ container'[c].busy = busy
      /\ \A e \in Containers \ {c} : container'[e] = container[e]
  BY <1>1, <1>4, <1>6, BusyWith
<1>8. Typed'
  BY <1>1, <1>6, <1>7 DEF IInv, Typed
<1>9. Remembered'
  <2>1. SUFFICES ASSUME lowest >= 5 PROVE Remembered'
    BY <1>1 DEF Remembered
  <2>2. db.approval[a] = "executing" /\ \A e \in Containers \ {c} : ~Claims(e, a)
    BY <1>2, <2>1 DEF IInv, Remembered, Claims
  <2>3. /\ \A b \in Refunds : ~Claims(c, b)'
        /\ \A b \in Refunds, e \in Containers \ {c} : Claims(e, b)' <=> Claims(e, b)
    BY <1>3, <1>7 DEF Claims
  <2>4. \A b \in Refunds :
              /\ paid'[b] <= 1
              /\ db'.approval[b] \notin {"executing", "executed", "failed"} => paid'[b] = 0
    BY <1>1, <1>6, <2>1, <2>2 DEF IInv, Remembered
  <2>5. \A b \in Refunds, e \in Containers :
              /\ Claims(e, b)' => db'.approval[b] = "executing"
              /\ \A f \in Containers : Claims(e, b)' /\ Claims(f, b)' => e = f
    BY <1>6, <2>1, <2>2, <2>3 DEF IInv, Remembered
  <2>6. \A b \in Refunds, e \in Containers :
              <<b, "executing">> \in container'[e].busy => paid'[b] = 0
    BY <1>1, <1>3, <1>7, <2>1 DEF IInv, Remembered
  <2>. QED
    BY <1>1, <1>6, <2>1, <2>4, <2>5, <2>6 DEF IInv, Remembered
<1>. QED
  BY <1>6, <1>7, <1>8, <1>9 DEF IInv

--------------------------------------------------------------------------------
\* The operator takes the schema back.

LEMMA Lesser ==
  ASSUME NEW m \in Int, NEW n \in Int
  PROVE  Min({m, n}) = IF m <= n THEN m ELSE n
<1>1. PICK x \in {m, n} : x = (IF m <= n THEN m ELSE n)
  OBVIOUS
<1>2. \A y \in {m, n} : x <= y
  BY <1>1
<1>3. Min({m, n}) \in {m, n} /\ \A y \in {m, n} : Min({m, n}) <= y
  BY <1>2 DEF Min
<1>. QED
  BY <1>1, <1>2, <1>3

LEMMA DowngradeKeeps ==
  ASSUME IInv, NEW target \in 0 .. HeadRevision - 1, Downgrade(target) PROVE IInv'
<1>1. /\ target < db.rev /\ db' = Migrated(db, target) /\ downgrades' = downgrades + 1
      /\ lowest' = Min({lowest, target}) /\ sold' = IF target = 0 THEN 0 ELSE sold
      /\ UNCHANGED <<container, paid, runs, deaths>>
  BY DEF Downgrade
<1>2. /\ HeadRevision = 6 /\ target \in Revisions /\ target \in 0 .. 5 /\ target \in Int /\ db \in Database
      /\ Bare(db) /\ lowest \in Revisions /\ lowest \in 0 .. 6 /\ downgrades \in Nat /\ sold \in Nat
  BY DEF IInv, Typed, HeadRevision, Revisions
<1>3. /\ db' \in Database /\ db'.rev = target /\ Bare(db)'
      /\ db'.stock = IF target < 1 THEN Unseeded ELSE db.stock
      /\ target >= 5 => db'.approval = db.approval /\ db'.refunded = db.refunded
  <2>1. PICK u : u = Migrated(db, target)
    OBVIOUS
  <2>2. /\ u \in Database /\ u.rev = target /\ Bare(u)
        /\ u.stock = IF target < 1 THEN Unseeded ELSE db.stock
        /\ target >= 5 => u.approval = db.approval /\ u.refunded = db.refunded
    BY <1>1, <1>2, <2>1, Downgraded
  <2>3. db' = u
    BY <1>1, <2>1
  <2>4. Bare(db)'
    BY <2>2, <2>3 DEF Bare
  <2>. QED
    BY <2>2, <2>3, <2>4
<1>4. lowest' = IF lowest <= target THEN lowest ELSE target
  BY <1>1, <1>2, Lesser
<1>5. /\ lowest' \in Revisions /\ lowest' # HeadRevision /\ lowest' < 6
      /\ lowest' >= 5 => lowest >= 5 /\ target = 5
  BY <1>2, <1>4
<1>6. Typed'
  BY <1>1, <1>2, <1>3, <1>5 DEF IInv, Typed
<1>7. Forward' /\ Ledger'
  BY <1>2, <1>5 DEF Forward, Ledger
<1>8. Stocked'
  <2>1. CASE target = 0
    BY <1>1, <1>3, <2>1 DEF Stocked
  <2>2. CASE target # 0
    BY <1>1, <1>2, <1>3, <2>2 DEF IInv, Stocked
  <2>. QED
    BY <2>1, <2>2
<1>9. Remembered'
  <2>1. lowest' >= 5 => /\ lowest >= 5 /\ db'.rev = 5 /\ db'.approval = db.approval
                        /\ db'.refunded = db.refunded /\ db.rev >= 5
    BY <1>1, <1>2, <1>3, <1>5 DEF Database, Revisions
  <2>2. lowest' >= 5 => /\ lowest >= 5 /\ db'.rev \in {0, 5, 6}
                        /\ db'.approval = db.approval
                        /\ (IF db'.rev >= 5 THEN db'.refunded ELSE 0)
                             = IF db.rev >= 5 THEN db.refunded ELSE 0
    BY <2>1
  <2>3. paid' = paid /\ \A c \in Containers : container'[c].busy \subseteq container[c].busy
    BY <1>1
  <2>. QED
    BY <2>2, <2>3, StillRemembered DEF IInv
<1>. QED
  BY <1>3, <1>6, <1>7, <1>8, <1>9 DEF IInv

--------------------------------------------------------------------------------
\* The beginning, and every step.

LEMMA IInvInit == Init => IInv
<1>1. SUFFICES ASSUME Init PROVE IInv
  OBVIOUS
<1>2. db = EmptyDatabase /\ lowest = HeadRevision /\ HeadRevision = 6 /\ sold = 0 /\ paid = [a \in Refunds |-> 0]
      /\ runs = [m \in Messages |-> 0] /\ container = [c \in Containers |-> Down]
      /\ downgrades = 0 /\ deaths = 0 /\ OrderTotal \in Nat
  BY <1>1, DeploymentAssumption DEF Init, HeadRevision
<1>3. /\ EmptyDatabase.rev = 0 /\ EmptyDatabase.stock = Unseeded
      /\ EmptyDatabase.refunded = NoColumn /\ EmptyDatabase.approval = [a \in Refunds |-> "none"]
      /\ EmptyDatabase.memories = 0 /\ EmptyDatabase.traces = 0 /\ EmptyDatabase.claimed = {}
  BY DEF EmptyDatabase
<1>4. EmptyDatabase \in Database
  <2>1. [a \in Refunds |-> "none"] \in [Refunds -> Statuses]
    BY DEF Statuses
  <2>. QED
    BY <2>1 DEF EmptyDatabase, Database, Revisions, HeadRevision
<1>5. Typed
  BY <1>2, <1>4, Fresh DEF Typed, Revisions
<1>6. Bare(db)
  BY <1>2, <1>3 DEF Bare
<1>7. Forward
  BY <1>2, <1>3, Fresh DEF Forward
<1>8. Stocked
  BY <1>2, <1>3 DEF Stocked
<1>9. Remembered
  <2>1. \A a \in Refunds : paid[a] = 0 /\ db.approval[a] = "none"
    BY <1>2, <1>3
  <2>2. Total(paid) = 0
    <3>1. PICK p : p = paid
      OBVIOUS
    <3>2. Total(p) = 0
      BY <2>1, <3>1, TotalOfNothing
    <3>. QED
      BY <3>1, <3>2
  <2>3. \A c \in Containers : container[c].busy = {}
    BY <1>2, Fresh
  <2>4. \A a \in Refunds, c \in Containers : ~Claims(c, a)
    BY <2>3 DEF Claims
  <2>. QED
    BY <1>2, <1>3, <2>1, <2>2, <2>3, <2>4 DEF Remembered
<1>10. Ledger
  BY <1>2 DEF Ledger
<1>. QED
  BY <1>5, <1>6, <1>7, <1>8, <1>9, <1>10 DEF IInv

LEMMA IInvStep == IInv /\ [Next]_vars => IInv'
<1>1. SUFFICES ASSUME IInv, [Next]_vars PROVE IInv'
  OBVIOUS
<1>2. CASE UNCHANGED vars
  <2>1. UNCHANGED <<db, Data, lowest>> /\ container' = container /\ downgrades' = downgrades /\ deaths' = deaths
    BY <1>2 DEF vars, Data
  <2>2. Typed' /\ Bare(db)' /\ Forward' /\ Stocked' /\ Ledger'
    BY <1>1, <2>1 DEF IInv, Data, Typed, Bare, Forward, Stocked, Ledger
  <2>3. Remembered'
    BY <1>1, <2>1, StillRemembered DEF IInv, Data, Remembered
  <2>. QED
    BY <2>2, <2>3 DEF IInv
<1>3. ASSUME NEW c \in Containers, Boot(c) PROVE IInv'
  BY <1>1, <1>3, StartKeeps, UpgradeKeeps, LookAtProductsKeeps, SeedKeeps DEF Boot
<1>4. ASSUME NEW c \in Containers, LosesDatabase(c) \/ Die(c) PROVE IInv'
  BY <1>1, <1>4, LosesDatabaseKeeps
<1>5. ASSUME NEW c \in Containers, Sell(c) PROVE IInv'
  BY <1>1, <1>5, SellKeeps
<1>6. ASSUME NEW c \in Containers, NEW a \in Refunds,
             Decide(c, a) \/ ClaimRefund(c, a) \/ PayRefund(c, a) \/ RecordOutcome(c, a)
      PROVE  IInv'
  BY <1>1, <1>6, DecideKeeps, ClaimRefundKeeps, PayRefundKeeps, RecordOutcomeKeeps
<1>7. ASSUME NEW c \in Containers, NEW m \in Messages, Converse(c, m) PROVE IInv'
  BY <1>1, <1>7, ConverseKeeps
<1>8. ASSUME NEW target \in 0 .. HeadRevision - 1, Downgrade(target) PROVE IInv'
  BY <1>1, <1>8, DowngradeKeeps
<1>. QED
  BY <1>1, <1>2, <1>3, <1>4, <1>5, <1>6, <1>7, <1>8 DEF Next

\* Whatever containers do and operators undo, the tables are what the revision says and
\* what they remember is what happened.
THEOREM Inductive == Spec => []IInv
<1>1. Init => IInv
  BY IInvInit
<1>2. IInv /\ [Next]_vars => IInv'
  BY IInvStep
<1>. QED
  BY <1>1, <1>2, PTL DEF Spec

--------------------------------------------------------------------------------

\* However many containers start on one database, and whenever one of them dies or loses
\* the race of the upgrade: none seeds or serves on another schema than the newest, unless
\* the operator has taken the schema back (entrypoint.sh, alembic/env.py).
THEOREM NoneServesHalfASchema == Spec => []ServesAtHead
<1>1. IInv => ServesAtHead
  BY DEF IInv, Forward, ServesAtHead
<1>. QED
  BY <1>1, Inductive, PTL

\* However often a container is started, and however many seed at a time, what is in stock
\* is the seed less what was sold (seed_if_empty).
THEOREM SeedsAddNothing == Spec => []SeededOnce
<1>1. IInv => SeededOnce
  BY DEF IInv, Stocked, SeededOnce
<1>. QED
  BY <1>1, Inductive, PTL

\* Migrations, deaths and restarts make nothing happen twice while the tables that
\* remember it have not been dropped: for any number of refunds and messages.
THEOREM RememberedOnce == Spec => []NothingTwice
<1>1. IInv => NothingTwice
  BY DEF IInv, Remembered, Total, Ledger, NothingTwice
<1>. QED
  BY <1>1, Inductive, PTL

--------------------------------------------------------------------------------
\* What a step may not take away.

Kept(d, e) ==
    /\ e.rev >= d.rev
    /\ \A a \in Refunds :
          /\ d.approval[a] # "none" => e.approval[a] # "none"
          /\ d.approval[a] \in {"rejected", "executed", "failed"} => e.approval[a] = d.approval[a]
    /\ e.refunded >= d.refunded
    /\ e.memories >= d.memories /\ e.traces >= d.traces
    /\ d.claimed \subseteq e.claimed

LEMMA KeepsAsItIs == ASSUME IInv, UNCHANGED db PROVE Kept(db, db')
<1>1. db.rev \in Int /\ db.refunded \in Int /\ db.memories \in Int /\ db.traces \in Int
  BY Rows DEF IInv, Typed, Revisions, HeadRevision, NoColumn
<1>. QED
  BY <1>1 DEF Kept

LEMMA UpgradeForgetsNothing ==
  ASSUME IInv, db' = Migrated(db, HeadRevision) PROVE Kept(db, db')
<1>1. /\ db \in Database /\ Bare(db) /\ db.rev \in 0 .. HeadRevision /\ db.rev \in Int /\ HeadRevision = 6
      /\ db.refunded \in Int /\ db.memories \in Int /\ db.traces \in Int
  BY Rows DEF IInv, Typed, Revisions, HeadRevision, NoColumn
<1>2. PICK u : u = Migrated(db, HeadRevision)
  OBVIOUS
<1>3. /\ u.rev = HeadRevision /\ u.approval = db.approval /\ u.memories = db.memories
      /\ u.traces = db.traces /\ u.claimed = db.claimed
      /\ u.refunded = IF db.rev < 5 THEN 0 ELSE db.refunded
  BY <1>1, <1>2, Upgraded
<1>4. u.refunded >= db.refunded
  BY <1>1, <1>3 DEF Bare, NoColumn
<1>5. Kept(db, u)
  BY <1>1, <1>3, <1>4 DEF Kept
<1>. QED
  BY <1>2, <1>5

\* A row goes the way of its decision.
LEMMA RowForgetsNothing ==
  ASSUME IInv, NEW a \in Refunds, NEW status \in Statuses \ {"none"},
         db.approval[a] \notin {"rejected", "executed", "failed"},
         db' = [db EXCEPT !.approval[a] = status]
  PROVE  Kept(db, db')
<1>1. /\ db \in Database /\ db.approval \in [Refunds -> Statuses]
      /\ db.rev \in Int /\ db.refunded \in Int /\ db.memories \in Int /\ db.traces \in Int
  BY Rows DEF IInv, Typed, Revisions, HeadRevision, NoColumn
<1>2. PICK rows \in [Refunds -> Statuses] : rows = [db.approval EXCEPT ![a] = status]
  BY <1>1
<1>3. db' = [db EXCEPT !.approval = rows]
  BY <1>2
<1>4. /\ db'.rev = db.rev /\ db'.refunded = db.refunded
      /\ db'.approval = rows /\ db'.memories = db.memories /\ db'.traces = db.traces
      /\ db'.claimed = db.claimed
  BY <1>1, <1>3 DEF Database
<1>5. \A b \in Refunds : rows[b] = IF b = a THEN status ELSE db.approval[b]
  BY <1>1, <1>2
<1>. QED
  BY <1>1, <1>4, <1>5 DEF Kept

LEMMA RefundsForgetNothing ==
  ASSUME IInv, NEW c \in Containers, NEW a \in Refunds,
         Decide(c, a) \/ ClaimRefund(c, a) \/ PayRefund(c, a) \/ RecordOutcome(c, a)
  PROVE  Kept(db, db')
<1>1. CASE Decide(c, a)
  <2>1. PICK status \in Statuses : /\ db' = [db EXCEPT !.approval[a] = status]
                                   /\ db.approval[a] \in {"none", "pending"}
                                   /\ status \in {"pending", "approved", "rejected"}
    BY <1>1 DEF Decide, Statuses
  <2>2. status \in Statuses \ {"none"} /\ db.approval[a] \notin {"rejected", "executed", "failed"}
    BY <2>1
  <2>. QED
    BY <2>1, <2>2, RowForgetsNothing
<1>2. CASE ClaimRefund(c, a)
  <2>1. PICK status \in Statuses \ {"none"} : status = "executing"
    BY DEF Statuses
  <2>2. db.approval[a] = "approved" /\ db' = [db EXCEPT !.approval[a] = status]
    BY <1>2, <2>1 DEF ClaimRefund
  <2>. QED
    BY <2>2, RowForgetsNothing
<1>3. CASE PayRefund(c, a)
  <2>1. CASE UNCHANGED db
    BY <2>1, KeepsAsItIs
  <2>2. CASE db.rev >= 5 /\ db' = [db EXCEPT !.refunded = @ + 1]
    <3>1. /\ db \in Database /\ db.refunded \in Int
          /\ db.rev \in Int /\ db.memories \in Int /\ db.traces \in Int
      BY Rows DEF IInv, Typed, Revisions, HeadRevision, NoColumn
    <3>2. /\ db'.rev = db.rev /\ db'.refunded = db.refunded + 1
          /\ db'.approval = db.approval /\ db'.memories = db.memories /\ db'.traces = db.traces
          /\ db'.claimed = db.claimed
      BY <2>2, <3>1 DEF Database
    <3>. QED
      BY <3>1, <3>2 DEF Kept
  <2>. QED
    BY <1>3, <2>1, <2>2 DEF PayRefund
<1>4. CASE RecordOutcome(c, a)
  <2>1. CASE UNCHANGED db
    BY <2>1, KeepsAsItIs
  <2>2. CASE db.approval[a] = "executing" /\ ~UNCHANGED db
    <3>1. PICK status \in Statuses \ {"none"} : db' = [db EXCEPT !.approval[a] = status]
      BY <1>4, <2>2 DEF RecordOutcome, Statuses
    <3>. QED
      BY <2>2, <3>1, RowForgetsNothing
  <2>. QED
    BY <1>4, <2>1, <2>2 DEF RecordOutcome
<1>. QED
  BY <1>1, <1>2, <1>3, <1>4

LEMMA BusinessForgetsNothing ==
  ASSUME IInv, NEW c \in Containers,
         \/ Sell(c)
         \/ \E m \in Messages : Converse(c, m)
         \/ db' = InsertMissing(db)
  PROVE  Kept(db, db')
<1>1. /\ db \in Database /\ db.refunded \in Int /\ db.memories \in {0, 1} /\ db.traces \in {0, 1}
      /\ db.rev \in Int
  BY Rows DEF IInv, Typed, Revisions, HeadRevision, NoColumn
<1>2. CASE UNCHANGED db
  BY <1>2, KeepsAsItIs
<1>3. CASE \E n : db' = [db EXCEPT !.stock = n]
  <2>1. /\ db'.rev = db.rev /\ db'.refunded = db.refunded
        /\ db'.approval = db.approval /\ db'.memories = db.memories /\ db'.traces = db.traces
        /\ db'.claimed = db.claimed
    BY <1>1, <1>3 DEF Database
  <2>. QED
    BY <1>1, <2>1 DEF Kept
<1>4. CASE \E m \in Messages : Converse(c, m)
  <2>1. PICK m \in Messages :
            db' = [db EXCEPT !.claimed = @ \cup {m}, !.memories = 1, !.traces = 1]
    BY <1>4 DEF Converse
  <2>2. /\ db'.rev = db.rev /\ db'.refunded = db.refunded
        /\ db'.approval = db.approval /\ db'.memories = 1 /\ db'.traces = 1
        /\ db'.claimed = db.claimed \cup {m}
    BY <1>1, <2>1 DEF Database
  <2>. QED
    BY <1>1, <2>2 DEF Kept
<1>. QED
  BY <1>2, <1>3, <1>4 DEF Sell, InsertMissing

LEMMA StepsForgetNothing ==
  ASSUME IInv, Next, downgrades' = downgrades PROVE Kept(db, db')
<1>1. ASSUME NEW c \in Containers, Boot(c) PROVE Kept(db, db')
  BY <1>1, KeepsAsItIs, UpgradeForgetsNothing, BusinessForgetsNothing
     DEF Boot, Start, Upgrade, UpgradeFails, LookAtProducts, Seed, Fails
<1>2. ASSUME NEW c \in Containers, LosesDatabase(c) \/ Die(c) PROVE Kept(db, db')
  BY <1>2, KeepsAsItIs DEF LosesDatabase, Die, UpgradeFails, Fails
<1>3. ASSUME NEW c \in Containers, Sell(c) \/ \E m \in Messages : Converse(c, m) PROVE Kept(db, db')
  BY <1>3, BusinessForgetsNothing
<1>4. ASSUME NEW target \in 0 .. HeadRevision - 1, Downgrade(target) PROVE FALSE
  <2>1. downgrades \in Nat /\ downgrades' = downgrades + 1
    BY <1>4 DEF IInv, Typed, Downgrade
  <2>. QED
    BY <2>1
<1>. QED
  BY <1>1, <1>2, <1>3, <1>4, RefundsForgetNothing DEF Next

\* Restarts, upgrades, seeds and all the work of the servers add to what is decided,
\* remembered and claimed: no step but a downgrade takes any of it away (0001 to 0006).
THEOREM NothingForgotten == Spec => OnlyDowngradesForget
<1>1. IInv /\ [Next]_vars =>
          [downgrades' = downgrades =>
              /\ db'.rev >= db.rev
              /\ \A a \in Refunds :
                    /\ db.approval[a] # "none" => db'.approval[a] # "none"
                    /\ db.approval[a] \in {"rejected", "executed", "failed"} =>
                           db'.approval[a] = db.approval[a]
              /\ db'.refunded >= db.refunded
              /\ db'.memories >= db.memories /\ db'.traces >= db.traces
              /\ db.claimed \subseteq db'.claimed]_vars
  BY StepsForgetNothing DEF Kept
<1>. QED
  BY <1>1, Inductive, PTL DEF Spec, OnlyDowngradesForget
================================================================================
