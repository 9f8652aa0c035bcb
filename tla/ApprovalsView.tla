----------------------------- MODULE ApprovalsView -----------------------------
(***************************************************************************)
(* The approvals page of the dashboard                                     *)
(* (frontend/src/components/approvals-view.tsx) over the approvals API.    *)
(*                                                                         *)
(* The page keeps the list it was last answered.  It asks for the list on  *)
(* an interval, when the user wants it, and after a button was answered;   *)
(* these requests overlap, and whichever answer arrives last is shown,     *)
(* however old it is.  A button sends a request of ApprovalExecution; what *)
(* else happens there is other dashboards' doing, or the agent's.  To the  *)
(* page a server that died is a server that answered an error.             *)
(***************************************************************************)
EXTENDS ApprovalExecution, SequencesExt

CONSTANT
    MaxLoads   \* requests for the list that can be under way at a time

ASSUME ViewAssumption == MaxLoads \in Nat

VARIABLES
    shown,      \* status of every approval in the list of the page
    loadError,  \* the page shows an error in place of the list
    asked,      \* how many requests for the list the server has not looked at yet
    answers,    \* lists read by the server and not yet arrived, the oldest first
    busy,       \* busy[b]: the card whose button b, "decide" or "execute", was pressed last
    mine        \* buttons being answered, each with the worker that serves it

list == <<shown, loadError, asked, answers>>
buttons == <<busy, mine>>
page == <<list, buttons>>
viewVars == <<vars, page>>

Statuses == [a \in ApprovalIds |-> rows[a].status]

Buttons == {"decide", "execute"}
Nothing == [a \in ApprovalIds |-> Absent]

ViewInit ==
    /\ Init
    /\ shown = Nothing
    /\ loadError = FALSE
    /\ asked = 0
    /\ answers = << >>
    /\ busy = [b \in Buttons |-> NoApproval]
    /\ mine = {}

(***************************************************************************)
(* The list                                                                *)
(***************************************************************************)

Ask == asked + Len(answers) < MaxLoads /\ asked' = asked + 1

\* Mutant: the page loads the list when it is opened, and not again.
LoadOnce ==
    /\ shown = Nothing
    /\ Ask
    /\ UNCHANGED <<vars, shown, loadError, answers, buttons>>

\* The first load, the interval, and the Refresh button.
Refresh ==
    /\ Ask
    /\ UNCHANGED <<vars, shown, loadError, answers, buttons>>

\* GET /api/approvals?status=all: one transaction reads every approval.
ListApprovals ==
    /\ asked > 0
    /\ asked' = asked - 1
    /\ answers' = Append(answers, Statuses)
    /\ UNCHANGED <<vars, shown, loadError, buttons>>

\* The network, the server or its store fails a request; the list is kept, not shown.
ListFails ==
    /\ asked > 0
    /\ asked' = asked - 1
    /\ loadError' = TRUE
    /\ UNCHANGED <<vars, shown, answers, buttons>>

\* An answer arrives, perhaps before that of an earlier request.
Land(i) ==
    /\ i \in DOMAIN answers
    /\ shown' = answers[i]
    /\ loadError' = FALSE
    /\ answers' = RemoveAt(answers, i)
    /\ UNCHANGED <<vars, asked, buttons>>

(***************************************************************************)
(* The buttons                                                             *)
(***************************************************************************)

Pressed(w, a, b) ==
    /\ busy' = [busy EXCEPT ![b] = a]
    /\ mine' = mine \cup {<<b, w>>}

\* A card offers what the status it shows allows, whatever the row says by now; a card
\* that is busy offers nothing, but another card's button takes its place.
Press(w, a) ==
    /\ ~loadError
    /\ busy["execute"] # a
    /\ \/ /\ shown[a] = "pending" /\ busy["decide"] # a
          /\ \E new \in {"approved", "rejected"} : Decide(w, a, new) \/ DecideFails(w, a, new)
          /\ Pressed(w, a, "decide")
       \/ /\ shown[a] = "approved"
          /\ ReadForExecution(w, a)
          /\ Pressed(w, a, "execute")
    /\ UNCHANGED list

\* finally: whichever card is busy by now.
Freed(b) == busy' = [busy EXCEPT ![b] = NoApproval]

\* The button is answered.  Decided, executed, refused by a conflict or not found: the
\* list is asked for again; after any other error it is not.  (The page waits for that
\* list before it frees the card.)
Answered(w) ==
    /\ \E b \in Buttons : /\ <<b, w>> \in mine
                        /\ mine' = mine \ {<<b, w>>}
                        /\ Freed(b)
    /\ \/ work[w].code \in {"200", "404", "409"} /\ Ask
       \/ work[w].code \notin {"200", "404", "409"} /\ UNCHANGED asked
    /\ Respond(w)
    /\ UNCHANGED <<shown, loadError, answers>>

Others == {w \in Workers : \A b \in Buttons : <<b, w>> \notin mine}

\* The rest of the system, with the answers to others.
Elsewhere ==
    /\ \/ \E a \in ApprovalIds, p \in Payloads : CreatePendingApproval(a, p)
       \/ \E w \in Workers, a \in ApprovalIds : Arrive(w, a)
    /\ UNCHANGED page

Serve(w) ==
    \/ Progress(w) /\ (work[w].pc = "respond" => w \in Others) /\ UNCHANGED page
    \/ Answered(w)

ViewNext ==
    \/ Elsewhere
    \/ \E w \in Workers : Serve(w) \/ \E a \in ApprovalIds : Press(w, a)
    \/ Refresh \/ ListApprovals \/ ListFails
    \/ \E i \in 1 .. MaxLoads : Land(i)

\* The server answers what it was asked, answers arrive, and the interval goes on as
\* long as the page is open and visible.
ViewSpec ==
    /\ ViewInit /\ [][ViewNext]_viewVars
    /\ \A w \in Workers : WF_viewVars(Serve(w))
    /\ WF_viewVars(Refresh)
    /\ WF_viewVars(ListApprovals \/ ListFails)
    /\ WF_viewVars(\E i \in 1 .. MaxLoads : Land(i))

(***************************************************************************)
(* Properties                                                              *)
(***************************************************************************)

\* Statuses an approval with status s may still come to.
Onward(s) ==
    CASE s = Absent -> ALL_STATUSES \cup {Absent}
      [] s = "pending" -> ALL_STATUSES
      [] s = "approved" -> ALL_STATUSES \ {"pending", "rejected"}
      [] s = "executing" -> {"executing", "executed", "failed"}
      [] OTHER -> {s}

\* However answers overtake each other, and whatever buttons are pressed on an old list,
\* the page shows of every approval a status it had on its way to the one it has: a
\* rejected approval never comes to be executable from under a page, and a finished one
\* on the page is final (approvals-view.tsx, refresh).
ScreenIsPast == \A a \in ApprovalIds : rows[a].status \in Onward(shown[a])

\* The page comes to show what the store says and stays with it, even where late answers
\* put an older list back for a while, unless the list fails to load for ever.
ScreenSettles == []<>~loadError => <>[](shown = Statuses)
================================================================================
