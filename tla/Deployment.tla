-------------------------------- MODULE Deployment --------------------------------
(***************************************************************************)
(* From the start of a container to a server that serves: the migrations   *)
(* (alembic/versions/0001 to 0006), the seed (app/db/seed.py) and the      *)
(* entrypoint that runs them (docker/entrypoint.sh), with several          *)
(* containers on one database, containers that die and are restarted, and  *)
(* an operator who takes the schema back and forth.                        *)
(*                                                                         *)
(* Of what servers do to the data, as much is here as can show that a      *)
(* start or a migration lost it: sales, refunds, memories, WhatsApp claims.*)
(***************************************************************************)
EXTENDS Integers, FiniteSets, FiniteSetsExt

CONSTANTS
    Containers,
    Refunds,        \* approvals of a refund of 1, all of one order
    OrderTotal,     \* what that order cost
    Messages,       \* WhatsApp messages, delivered again and again
    Stock,          \* units of a product in the seed
    MaxDowngrades,  \* how often the operator takes the schema back
    MaxDeaths       \* how often a container dies

ASSUME DeploymentAssumption ==
    /\ IsFiniteSet(Refunds)
    /\ {OrderTotal, Stock, MaxDowngrades, MaxDeaths} \subseteq Nat

VARIABLES
    db,         \* what is committed
    container,  \* container[c]: how far it is
    paid,       \* paid[a]: how often the refund a was paid
    runs,       \* runs[m]: how often the agent ran for the message m
    sold,       \* units sold since the business tables were created
    lowest,     \* the lowest revision the schema was ever taken back to
    downgrades, deaths

vars == <<db, container, paid, runs, sold, lowest, downgrades, deaths>>

HeadRevision == 6
Unseeded == -1
NoColumn == -1

\* A table or column that the schema does not have holds nothing.
EmptyDatabase ==
    [rev |-> 0, stock |-> Unseeded, refunded |-> NoColumn,
     approval |-> [a \in Refunds |-> "none"],
     memories |-> 0, traces |-> 0, claimed |-> {}]

\* A container is down, or at its upgrade, its seed or its server.
\* base: the revision an upgrade started from; empty: what the seed found;
\* busy: the refund a server is executing, and what came of it.
Down == [at |-> "down", base |-> 0, empty |-> FALSE, busy |-> {}]

Init ==
    /\ db = EmptyDatabase
    /\ container = [c \in Containers |-> Down]
    /\ paid = [a \in Refunds |-> 0]
    /\ runs = [m \in Messages |-> 0]
    /\ sold = 0
    /\ lowest = HeadRevision
    /\ downgrades = 0
    /\ deaths = 0

(***************************************************************************)
(* The migrations                                                          *)
(***************************************************************************)

CreateBusinessTables(d) == [d EXCEPT !.rev = 1, !.stock = Unseeded]
DropBusinessTables(d) == [d EXCEPT !.rev = 0, !.stock = Unseeded]

CreateApprovals(d) == [d EXCEPT !.rev = 2, !.approval = [a \in Refunds |-> "none"]]
DropApprovals(d) == [d EXCEPT !.rev = 1, !.approval = [a \in Refunds |-> "none"]]

CreateMemories(d) == [d EXCEPT !.rev = 3, !.memories = 0]
DropMemories(d) == [d EXCEPT !.rev = 2, !.memories = 0]

CreateTraces(d) == [d EXCEPT !.rev = 4, !.traces = 0]
DropTraces(d) == [d EXCEPT !.rev = 3, !.traces = 0]

\* Mutant: the rows of before are rewritten for the new statuses.
AddAndRewrite(d) == [d EXCEPT !.rev = 5, !.refunded = 0, !.approval = [a \in Refunds |->
                       IF d.approval[a] = "none" THEN "none" ELSE "pending"]]

\* The decisions of before stay; no order has been refunded yet.
AddExecution(d) == [d EXCEPT !.rev = 5, !.refunded = 0]

\* Whatever became of an approved refund, only the approval is still known.
Collapsed(d) ==
    [a \in Refunds |-> IF d.approval[a] \in {"executing", "executed", "failed"} THEN "approved"
                       ELSE d.approval[a]]
DropExecution(d) == [d EXCEPT !.rev = 4, !.refunded = NoColumn, !.approval = Collapsed(d)]

CreateLedger(d) == [d EXCEPT !.rev = 6, !.claimed = {}]

\* Mutant: the ledger goes, and the executions with it.
DropLedgerAndMore(d) == [d EXCEPT !.rev = 5, !.claimed = {}, !.refunded = 0, !.approval = Collapsed(d)]

DropLedger(d) == [d EXCEPT !.rev = 5, !.claimed = {}]

Up(d) ==
    CASE d.rev = 0 -> CreateBusinessTables(d)
      [] d.rev = 1 -> CreateApprovals(d)
      [] d.rev = 2 -> CreateMemories(d)
      [] d.rev = 3 -> CreateTraces(d)
      [] d.rev = 4 -> AddExecution(d)
      [] d.rev = 5 -> CreateLedger(d)

DownOne(d) ==
    CASE d.rev = 1 -> DropBusinessTables(d)
      [] d.rev = 2 -> DropApprovals(d)
      [] d.rev = 3 -> DropMemories(d)
      [] d.rev = 4 -> DropTraces(d)
      [] d.rev = 5 -> DropExecution(d)
      [] d.rev = 6 -> DropLedger(d)

\* The migrations one after the other, in one transaction (alembic/env.py).
Migrated(d, target) ==
    IF d.rev <= target THEN FoldSet(LAMBDA step, reached : Up(reached), d, d.rev + 1 .. target)
    ELSE FoldSet(LAMBDA step, reached : DownOne(reached), d, target + 1 .. d.rev)

Data == <<paid, runs, sold>>

(***************************************************************************)
(* A container                                                             *)
(***************************************************************************)

Becomes(c, state) == container' = [container EXCEPT ![c] = state]
Fails(c) == Becomes(c, Down) /\ UNCHANGED db

\* Mutant: restart: no.
StartOnce(c) ==
    /\ container[c].at = "down" /\ deaths = 0
    /\ Becomes(c, [Down EXCEPT !.at = "upgrade", !.base = db.rev])
    /\ UNCHANGED <<db, Data, lowest, downgrades, deaths>>

\* It is started, at first or by its restart policy, and looks at the revision.
Start(c) ==
    /\ container[c].at = "down"
    /\ Becomes(c, [Down EXCEPT !.at = "upgrade", !.base = db.rev])
    /\ UNCHANGED <<db, Data, lowest, downgrades, deaths>>

\* Mutant: the entrypoint goes on after a failed upgrade (no set -e).
GoesOn(c) == Becomes(c, [container[c] EXCEPT !.at = "seed"]) /\ UNCHANGED db

UpgradeFails(c) == Fails(c)

\* alembic upgrade head has nothing to do, or commits everything, or, when another
\* migration came first, nothing: then the container exits.
Upgrade(c) ==
    /\ container[c].at = "upgrade"
    /\ \/ /\ container[c].base \in {db.rev, HeadRevision}
          /\ db' = IF container[c].base = HeadRevision THEN db ELSE Migrated(db, HeadRevision)
          /\ Becomes(c, [Down EXCEPT !.at = "seed"])
       \/ container[c].base \notin {db.rev, HeadRevision} /\ UpgradeFails(c)
    /\ UNCHANGED <<Data, lowest, downgrades, deaths>>

\* It fails as well when the database is away (counted as a death).
LosesDatabase(c) ==
    /\ deaths < MaxDeaths
    /\ container[c].at = "upgrade"
    /\ deaths' = deaths + 1
    /\ UpgradeFails(c)
    /\ UNCHANGED <<Data, lowest, downgrades>>

\* seed_if_empty looks for products, if there is a table of them.
LookAtProducts(c) ==
    /\ container[c].at = "seed" /\ ~container[c].empty
    /\ \/ /\ db.rev >= 1 /\ db.stock = Unseeded
          /\ Becomes(c, [container[c] EXCEPT !.empty = TRUE]) /\ UNCHANGED db
       \/ /\ db.rev >= 1 /\ db.stock # Unseeded
          /\ Becomes(c, [Down EXCEPT !.at = "serve"]) /\ UNCHANGED db
       \/ db.rev < 1 /\ Fails(c)
    /\ UNCHANGED <<Data, lowest, downgrades, deaths>>

\* Mutant: rows that exist are brought back to what the seed says.
OverwriteRows(d) == [d EXCEPT !.stock = Stock]

\* Inserts the rows that are missing.
InsertMissing(d) == IF d.stock = Unseeded THEN [d EXCEPT !.stock = Stock] ELSE d

\* What another seed commits while this one is running it skips or, when it looked too
\* early, violates the unique names and rolls back; and it needs the orders of revision 5.
Seed(c) ==
    /\ container[c].at = "seed" /\ container[c].empty
    /\ \/ /\ db.rev >= 5
          /\ db' = InsertMissing(db)
          /\ Becomes(c, [Down EXCEPT !.at = "serve"])
       \/ /\ db.rev < 5 \/ db.stock # Unseeded
          /\ Fails(c)
    /\ UNCHANGED <<Data, lowest, downgrades, deaths>>

\* The process ends at any time, and with it the transaction it is in.
Die(c) ==
    /\ deaths < MaxDeaths
    /\ container[c].at # "down"
    /\ deaths' = deaths + 1
    /\ Becomes(c, Down)
    /\ UNCHANGED <<db, Data, lowest, downgrades>>

(***************************************************************************)
(* The servers: what needs a table or column that is gone fails, unchanged *)
(***************************************************************************)

Serving(c) == container[c].at = "serve"
Committed == UNCHANGED <<lowest, downgrades, deaths>>

Sell(c) ==
    /\ Serving(c) /\ db.rev >= 5 /\ db.stock > 0
    /\ db' = [db EXCEPT !.stock = @ - 1]
    /\ sold' = sold + 1
    /\ UNCHANGED <<container, paid, runs>> /\ Committed

\* A refund is asked for and approved.
Decide(c, a) ==
    /\ Serving(c) /\ db.rev >= 5 /\ db.stock # Unseeded
    /\ \E step \in {<<"none", "pending">>, <<"pending", "approved">>, <<"pending", "rejected">>} :
           /\ db.approval[a] = step[1]
           /\ db' = [db EXCEPT !.approval[a] = step[2]]
    /\ UNCHANGED <<container, Data>> /\ Committed

\* execute_approval claims it ...
ClaimRefund(c, a) ==
    /\ Serving(c) /\ db.rev >= 5 /\ container[c].busy = {}
    /\ db.approval[a] = "approved"
    /\ db' = [db EXCEPT !.approval[a] = "executing"]
    /\ Becomes(c, [container[c] EXCEPT !.busy = {<<a, "executing">>}])
    /\ UNCHANGED Data /\ Committed

\* ... pays, if there is a column to count it in and the order has that much left ...
PayRefund(c, a) ==
    /\ <<a, "executing">> \in container[c].busy
    /\ \/ /\ db.rev >= 5 /\ db.refunded < OrderTotal
          /\ db' = [db EXCEPT !.refunded = @ + 1]
          /\ paid' = [paid EXCEPT ![a] = @ + 1]
          /\ Becomes(c, [container[c] EXCEPT !.busy = {<<a, "executed">>}])
       \/ /\ db.rev >= 5 => db.refunded >= OrderTotal
          /\ Becomes(c, [container[c] EXCEPT !.busy = {<<a, "failed">>}])
          /\ UNCHANGED <<db, paid>>
    /\ UNCHANGED <<runs, sold>> /\ Committed

\* ... and records the outcome, if the row is still being executed.
RecordOutcome(c, a) ==
    /\ \E outcome \in {"executed", "failed"} :
           /\ <<a, outcome>> \in container[c].busy
           /\ db' = IF db.approval[a] = "executing"
                    THEN [db EXCEPT !.approval[a] = outcome] ELSE db
    /\ Becomes(c, [container[c] EXCEPT !.busy = {}])
    /\ UNCHANGED Data /\ Committed

\* A delivered message is claimed, and the agent runs and remembers something.
Converse(c, m) ==
    /\ Serving(c) /\ db.rev >= 6 /\ m \notin db.claimed
    /\ db' = [db EXCEPT !.claimed = @ \cup {m}, !.memories = 1, !.traces = 1]
    /\ runs' = [runs EXCEPT ![m] = @ + 1]
    /\ UNCHANGED <<container, paid, sold>> /\ Committed

(***************************************************************************)
(* The operator                                                            *)
(***************************************************************************)

\* alembic downgrade, whatever the containers are doing.
Downgrade(target) ==
    /\ downgrades < MaxDowngrades
    /\ target < db.rev
    /\ downgrades' = downgrades + 1
    /\ db' = Migrated(db, target)
    /\ lowest' = Min({lowest, target})
    /\ sold' = IF target = 0 THEN 0 ELSE sold
    /\ UNCHANGED <<container, paid, runs, deaths>>

Boot(c) == Start(c) \/ Upgrade(c) \/ LookAtProducts(c) \/ Seed(c)

Next ==
    \/ \E c \in Containers :
           \/ Boot(c) \/ LosesDatabase(c) \/ Die(c) \/ Sell(c)
           \/ \E a \in Refunds : Decide(c, a) \/ ClaimRefund(c, a)
                                    \/ PayRefund(c, a) \/ RecordOutcome(c, a)
           \/ \E m \in Messages : Converse(c, m)
    \/ \E target \in 0 .. HeadRevision - 1 : Downgrade(target)

\* restart: unless-stopped, and the steps of a start end.
Spec == Init /\ [][Next]_vars /\ \A c \in Containers : WF_vars(Boot(c))

(***************************************************************************)
(* Properties                                                              *)
(***************************************************************************)

\* Unless the operator has taken the schema back, no container serves, or seeds, another
\* schema than the one its code was written for, however many start at a time
\* (entrypoint.sh: alembic upgrade head, set -e).
ServesAtHead ==
    lowest = HeadRevision => \A c \in Containers : container[c].at \in {"seed", "serve"} => db.rev = HeadRevision

\* Starts, restarts and concurrent seeds leave what the business did alone.  Of that only
\* sales are here, neither stock corrections nor what undone orders return: what is in stock
\* is the seed less the units sold (seed_if_empty, "a restart never duplicates rows or
\* overwrites real orders").
SeededOnce == db.stock = IF db.stock = Unseeded THEN Unseeded ELSE Stock - sold

\* Nothing happens twice on the account of a migration as long as the tables that remember
\* it have not been dropped: an order is not refunded beyond its total, nor a refund paid
\* twice, unless the schema was taken below revision 5, and the agent does not run twice
\* for a message unless it was taken below revision 6 (0005, 0006).
NothingTwice ==
    /\ lowest >= 5 => /\ \A a \in Refunds : paid[a] <= 1
                      /\ MapThenSumSet(LAMBDA a : paid[a], Refunds) <= OrderTotal
    /\ lowest >= 6 => \A m \in Messages : runs[m] <= 1

\* No start, restart or upgrade makes the schema older or loses what servers recorded before
\* it: decided and executed refunds, claims, what an order was refunded, memories and traces
\* stay.  That users delete memories is not in this module.
OnlyDowngradesForget ==
    [][downgrades' = downgrades =>
          /\ db'.rev >= db.rev
          /\ \A a \in Refunds :
                /\ db.approval[a] # "none" => db'.approval[a] # "none"
                /\ db.approval[a] \in {"rejected", "executed", "failed"} =>
                       db'.approval[a] = db.approval[a]
          /\ db'.refunded >= db.refunded
          /\ db'.memories >= db.memories /\ db'.traces >= db.traces
          /\ db.claimed \subseteq db'.claimed]_vars

\* However often containers die, lose the race of an upgrade or a seed, or find the
\* schema taken back under them, each of them serves again and again.
EachServes == \A c \in Containers : []<>Serving(c)
================================================================================
