------------------------------ MODULE SalesReport ------------------------------
(***************************************************************************)
(* The dashboard's sales report (app/api/routes.py, get_reports) beside    *)
(* the transactions it reports of.  The report is one session, but at READ *)
(* COMMITTED each of its four statements reads what is committed by then:  *)
(* the orders by status, then the last day, week and month.  It waits for  *)
(* no lock, and one that fails is not shown.                               *)
(***************************************************************************)
EXTENDS OrderTransactions

CONSTANT SeedAge   \* SeedAge[o]: days between seeded order o and the report

ASSUME AgeAssumption == SeedAge \in [OrderIds -> Nat]

VARIABLES
    shown,    \* completed orders counted so far: by status, then window by window
    amended   \* history: orders whose status changed while the report was made

reportVars == <<shown, amended>>

\* daily, weekly, monthly
WindowDays == <<1, 7, 30>>

Completed == {o \in OrderIds : orders[o].status = "completed"}

\* Orders placed since the seed are new, and stay in the windows when they are undone.
Within(o, days) == SeedOrders[o].status = "absent" \/ SeedAge[o] <= days

\* Mutant: the window goes by the date alone.
DatedSince(days) == {o \in Existing : Within(o, days)}

\* orders_since: revenue, items and products of a window are those of these orders.
OrdersSince(days) == {o \in Completed : Within(o, days)}

\* The report counts as one of the calls of the behaviour.
CountByStatus ==
    /\ shown = << >>
    /\ shown' = <<Completed>>
    /\ begun < MaxTransactions
    /\ begun' = begun + 1
    /\ UNCHANGED <<tables, tx, adjusted, amended>>

SalesWindow ==
    /\ Len(shown) \in DOMAIN WindowDays
    /\ shown' = Append(shown, OrdersSince(WindowDays[Len(shown)]))
    /\ UNCHANGED <<vars, amended>>

\* A tool makes a step; what it commits during the report is remembered.
Meanwhile ==
    /\ Next
    /\ amended' = amended \cup {o \in OrderIds : /\ Len(shown) \in DOMAIN WindowDays
                                                 /\ orders'[o].status # orders[o].status}
    /\ UNCHANGED shown

ReportInit ==
    /\ Init
    /\ shown = << >>
    /\ amended = {}

ReportNext == CountByStatus \/ SalesWindow \/ Meanwhile

ReportSpec ==
    /\ ReportInit
    /\ [][ReportNext]_<<vars, reportVars>>
    /\ \A s \in Sessions : WF_vars(Step(s))
--------------------------------------------------------------------------------
\* The figures of one report agree except for what was sold or undone while it was made:
\* an order which one figure counts and another leaves out is too old for that window,
\* or it changed in between (routes.py, get_reports).
ReportAgrees ==
    \A i, j \in DOMAIN shown : \A o \in shown[i] \ shown[j] :
        o \in amended \/ (j > 1 /\ ~Within(o, WindowDays[j - 1]))
================================================================================
