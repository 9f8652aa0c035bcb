--------------------------- MODULE ApprovalExecution ---------------------------
(***************************************************************************)
(* The approvals table, the decision endpoints and the deferred executor   *)
(* (app/approval/{manager,repository,executor}.py and the approval         *)
(* endpoints of app/api/routes.py).                                        *)
(*                                                                         *)
(* A worker is one HTTP request being served.  Requests interleave at      *)
(* every database transaction: decisions run on the event loop, executions *)
(* in the threadpool, and several server processes may share the table.    *)
(* A committed transaction is one step.  Three switches add what can go    *)
(* wrong around it: the store refuses a transaction, the answer to a       *)
(* COMMIT is lost, the process dies between two steps.                     *)
(***************************************************************************)
EXTENDS Naturals, Sequences, FiniteSets

CONSTANTS
    ApprovalIds,   \* ids the application may draw for new approvals
    Workers,       \* requests that can be in flight at the same time
    Payloads,      \* JSON snapshots the agent may store
    WellFormed,    \* the payloads _validate_payload_structure accepts
    NoPayload,     \* payload of a row that does not exist
    NoApproval,    \* an idle worker serves no approval
    StoreFaults,   \* may a transaction fail with an SQLAlchemyError?
    LostAcks,      \* may a committed transaction be reported as failed?
    Crashes        \* may the process serving a request die?

ASSUME ConstantsAssumption ==
    /\ WellFormed \subseteq Payloads
    /\ NoPayload \notin Payloads
    /\ NoApproval \notin ApprovalIds
    /\ StoreFaults \in BOOLEAN
    /\ LostAcks \in BOOLEAN
    /\ Crashes \in BOOLEAN

VARIABLES
    rows,      \* the approvals table
    work,      \* what each worker is doing
    applied,   \* applied[a]: payloads whose business transaction committed for a
    timeline   \* timeline[a]: APPROVAL_* events and the state of the executor's trace run

vars == <<rows, work, applied, timeline>>

Absent == "absent"
ALL_STATUSES == {"pending", "approved", "rejected", "executing", "executed", "failed"}
ALLOWED_TRANSITIONS ==
    { <<"pending", "approved">>, <<"pending", "rejected">>,
      <<"approved", "executing">>,
      <<"executing", "executed">>, <<"executing", "failed">> }

\* Timestamps, the result and the error are kept as "set or not".
ApprovalRow ==
    [status : ALL_STATUSES \cup {Absent}, payload : Payloads \cup {NoPayload},
     decided_at : BOOLEAN, execution_started_at : BOOLEAN, executed_at : BOOLEAN,
     execution_result : BOOLEAN, execution_error : BOOLEAN]

NoRow ==
    [status |-> Absent, payload |-> NoPayload, decided_at |-> FALSE,
     execution_started_at |-> FALSE, executed_at |-> FALSE,
     execution_result |-> FALSE, execution_error |-> FALSE]

PendingRow(p) == [NoRow EXCEPT !.status = "pending", !.payload = p]

\* Program points of a request, named for what it does next.
Points == {"idle", "trace_decision", "claim", "conflict", "trace_start", "run_tool",
           "record", "trace_finish", "reread", "respond"}

Codes == {"none", "200", "404", "409", "422", "503"}

Job ==
    [pc : Points, id : ApprovalIds \cup {NoApproval}, snapshot : Payloads \cup {NoPayload},
     outcome : {"none", "success", "refused"}, traced : BOOLEAN,
     code : Codes, seen : ALL_STATUSES \cup {Absent}]

NoJob ==
    [pc |-> "idle", id |-> NoApproval, snapshot |-> NoPayload, outcome |-> "none",
     traced |-> FALSE, code |-> "none", seen |-> Absent]

\* Points at which the worker has claimed its approval and still has to run the
\* tool or to record what the tool answered.
Executing == {"trace_start", "run_tool", "record"}

Events == {"APPROVAL_APPROVED", "APPROVAL_REJECTED", "APPROVAL_EXECUTING",
           "APPROVAL_EXECUTED", "APPROVAL_FAILED"}
Timeline == [events : SUBSET Events, run : {"none", "running", "completed", "failed"}]

Init ==
    /\ rows = [a \in ApprovalIds |-> NoRow]
    /\ work = [w \in Workers |-> NoJob]
    /\ applied = [a \in ApprovalIds |-> << >>]
    /\ timeline = [a \in ApprovalIds |-> [events |-> {}, run |-> "none"]]
--------------------------------------------------------------------------------
\* The worker has its answer: an HTTP code and, for 200 and 409, the status of
\* the approval as the request last read it.
Answer(w, a, code, seen) ==
    work' = [work EXCEPT ![w] = [NoJob EXCEPT !.pc = "respond", !.id = a,
                                              !.code = code, !.seen = seen]]

Goto(w, point) == work' = [work EXCEPT ![w].pc = point]

\* An SQLAlchemyError leaves the handler as 503.
Unavailable(w, a) == Answer(w, a, "503", Absent)

\* The agent requested a sensitive action: one row is inserted, pending.
CreatePendingApproval(a, p) ==
    /\ rows[a].status = Absent
    /\ rows' = [rows EXCEPT ![a] = PendingRow(p)]
    /\ UNCHANGED <<work, applied, timeline>>

\* UPDATE ... SET status = new, decided_at WHERE status = 'pending'
Decided(a, new) == [rows[a] EXCEPT !.status = new, !.decided_at = TRUE]

\* Mutant: an approved request can be decided again.
RedecideApproved(a) == rows[a].status \in {"pending", "approved"}

CanDecide(a) == rows[a].status = "pending"

\* approve and reject: the guarded UPDATE and the row read in the same transaction.
Decide(w, a, new) ==
    /\ work[w].pc = "idle"
    /\ \/ /\ CanDecide(a)
          /\ rows' = [rows EXCEPT ![a] = Decided(a, new)]
          /\ work' = [work EXCEPT ![w] = [NoJob EXCEPT !.pc = "trace_decision", !.id = a,
                                                       !.seen = new]]
       \/ /\ rows[a].status = Absent
          /\ Answer(w, a, "404", Absent)
          /\ UNCHANGED rows
       \/ /\ rows[a].status # Absent /\ ~CanDecide(a)
          /\ Answer(w, a, "409", rows[a].status)
          /\ UNCHANGED rows
    /\ UNCHANGED <<applied, timeline>>

\* The decision transaction fails, or commits without the caller learning it.
DecideFails(w, a, new) ==
    /\ work[w].pc = "idle"
    /\ \/ StoreFaults /\ UNCHANGED rows
       \/ /\ LostAcks /\ CanDecide(a)
          /\ rows' = [rows EXCEPT ![a] = Decided(a, new)]
    /\ Unavailable(w, a)
    /\ UNCHANGED <<applied, timeline>>

\* The decision is traced as a run of its own; a tracing failure is swallowed.
TraceDecision(w) ==
    LET a == work[w].id
        event == IF work[w].seen = "approved" THEN "APPROVAL_APPROVED" ELSE "APPROVAL_REJECTED"
    IN  /\ work[w].pc = "trace_decision"
        /\ \/ timeline' = [timeline EXCEPT ![a].events = @ \cup {event}]
           \/ StoreFaults /\ UNCHANGED timeline
        /\ Answer(w, a, "200", work[w].seen)
        /\ UNCHANGED <<rows, applied>>
--------------------------------------------------------------------------------
\* _validate_payload_structure yields the tool's arguments.
Executable(a) == rows[a].payload \in WellFormed

\* execute_approval reads the row, then checks the allowlist and the payload: the
\* status it read decides nothing, and everything up to here changes no row.
ReadForExecution(w, a) ==
    /\ work[w].pc = "idle"
    /\ \/ rows[a].status = Absent /\ Answer(w, a, "404", Absent)
       \/ /\ rows[a].status # Absent /\ ~Executable(a)
          /\ Answer(w, a, "422", Absent)
       \/ /\ rows[a].status # Absent /\ Executable(a)
          /\ work' = [work EXCEPT ![w] = [NoJob EXCEPT !.pc = "claim", !.id = a,
                                                       !.snapshot = rows[a].payload]]
       \/ StoreFaults /\ Unavailable(w, a)
    /\ UNCHANGED <<rows, applied, timeline>>

\* UPDATE ... SET status = 'executing', execution_started_at WHERE status = 'approved'
Claimed(a) == [rows[a] EXCEPT !.status = "executing", !.execution_started_at = TRUE]

\* Mutants: a claim retries a failed execution, or does not wait for the decision.
ReclaimFailed(a) == rows[a].status \in {"approved", "failed"}
ClaimUndecided(a) == rows[a].status \in {"pending", "approved"}

CanClaim(a) == rows[a].status = "approved"

Claim(w) ==
    LET a == work[w].id
    IN  /\ work[w].pc = "claim"
        /\ \/ /\ CanClaim(a)
              /\ rows' = [rows EXCEPT ![a] = Claimed(a)]
              /\ Goto(w, "trace_start")
           \/ /\ ~CanClaim(a)
              /\ Goto(w, "conflict")
              /\ UNCHANGED rows
        /\ UNCHANGED <<applied, timeline>>

\* The claim transaction raises: 503, with the claim undone or, when only the
\* acknowledgement was lost, in place and owned by nobody.
ClaimFails(w) ==
    LET a == work[w].id
    IN  /\ work[w].pc = "claim"
        /\ \/ StoreFaults /\ UNCHANGED rows
           \/ LostAcks /\ CanClaim(a) /\ rows' = [rows EXCEPT ![a] = Claimed(a)]
        /\ Unavailable(w, a)
        /\ UNCHANGED <<applied, timeline>>

\* rowcount 0: the row is read again, in a new transaction, to word the 409.
Conflict(w) ==
    /\ work[w].pc = "conflict"
    /\ \/ Answer(w, work[w].id, "409", rows[work[w].id].status)
       \/ StoreFaults /\ Unavailable(w, work[w].id)
    /\ UNCHANGED <<rows, applied, timeline>>

\* _trace_start: the run row, then the APPROVAL_EXECUTING event.  If either write
\* fails the execution goes on untraced, and a run row already written stays running.
TraceStart(w) ==
    LET a == work[w].id
    IN  /\ work[w].pc = "trace_start"
        /\ \/ /\ timeline' = [timeline EXCEPT ![a].events = @ \cup {"APPROVAL_EXECUTING"},
                                              ![a].run = "running"]
              /\ work' = [work EXCEPT ![w].pc = "run_tool", ![w].traced = TRUE]
           \/ /\ StoreFaults
              /\ \/ UNCHANGED timeline
                 \/ timeline' = [timeline EXCEPT ![a].run = "running"]
              /\ Goto(w, "run_tool")
        /\ UNCHANGED <<rows, applied>>

\* The business tool runs in a transaction of its own, from the snapshot.  It
\* commits and answers success; or it refuses or raises and changes nothing; or it
\* commits and reports a database error because the acknowledgement was lost.
RunTool(w) ==
    LET a == work[w].id
        commit == applied' = [applied EXCEPT ![a] = Append(@, work[w].snapshot)]
        report(o) == work' = [work EXCEPT ![w].pc = "record", ![w].outcome = o]
    IN  /\ work[w].pc = "run_tool"
        /\ \/ commit /\ report("success")
           \/ UNCHANGED applied /\ report("refused")
           \/ LostAcks /\ commit /\ report("refused")
        /\ UNCHANGED <<rows, timeline>>

\* Mutants: the outcome's own word is stored as the status; every finished
\* execution reads executed; only successes are recorded.
RecordedVerbatim(a, outcome) == [rows[a] EXCEPT !.status = outcome, !.executed_at = TRUE]
RecordedAsExecuted(a, outcome) ==
    [rows[a] EXCEPT !.status = "executed", !.executed_at = TRUE, !.execution_result = TRUE]
RecordedOnSuccess(a, outcome) ==
    IF outcome = "success"
    THEN [rows[a] EXCEPT !.status = "executed", !.executed_at = TRUE, !.execution_result = TRUE]
    ELSE rows[a]

\* UPDATE ... SET status, executed_at, result or error WHERE status = 'executing'
Recorded(a, outcome) ==
    [rows[a] EXCEPT !.status = IF outcome = "success" THEN "executed" ELSE "failed",
                    !.executed_at = TRUE,
                    !.execution_result = @ \/ outcome = "success",
                    !.execution_error = @ \/ outcome # "success"]

\* _record ignores the rowcount: on 0 the handler goes on as if it had recorded.
Record(w) ==
    LET a == work[w].id
    IN  /\ work[w].pc = "record"
        /\ \/ /\ rows[a].status = "executing"
              /\ rows' = [rows EXCEPT ![a] = Recorded(a, work[w].outcome)]
           \/ rows[a].status # "executing" /\ UNCHANGED rows
        /\ Goto(w, "trace_finish")
        /\ UNCHANGED <<applied, timeline>>

\* The outcome cannot be stored: 503, and the row may stay executing for ever,
\* although the business change may be committed.
RecordFails(w) ==
    LET a == work[w].id
    IN  /\ work[w].pc = "record"
        /\ \/ StoreFaults /\ UNCHANGED rows
           \/ /\ LostAcks /\ rows[a].status = "executing"
              /\ rows' = [rows EXCEPT ![a] = Recorded(a, work[w].outcome)]
        /\ Unavailable(w, a)
        /\ UNCHANGED <<applied, timeline>>

\* Mutant: the terminal event does not look at the outcome.
AlwaysExecutedEvent(outcome) == "APPROVAL_EXECUTED"

TerminalEvent(outcome) ==
    IF outcome = "success" THEN "APPROVAL_EXECUTED" ELSE "APPROVAL_FAILED"

\* _trace_finish: the terminal event, then the run is closed; nothing when the
\* execution is untraced.  The first write that fails ends it, swallowed.
TraceFinish(w) ==
    LET a == work[w].id
        event == TerminalEvent(work[w].outcome)
        run == IF work[w].outcome = "success" THEN "completed" ELSE "failed"
    IN  /\ work[w].pc = "trace_finish"
        /\ \/ ~work[w].traced /\ UNCHANGED timeline
           \/ /\ work[w].traced
              /\ \/ timeline' = [timeline EXCEPT ![a].events = @ \cup {event}, ![a].run = run]
                 \/ /\ StoreFaults
                    /\ \/ UNCHANGED timeline
                       \/ timeline' = [timeline EXCEPT ![a].events = @ \cup {event}]
        /\ Goto(w, "reread")
        /\ UNCHANGED <<rows, applied>>

\* The finished approval is read once more and returned.
Reread(w) ==
    LET a == work[w].id
    IN  /\ work[w].pc = "reread"
        /\ \/ Answer(w, a, "200", rows[a].status)
           \/ StoreFaults /\ Unavailable(w, a)
        /\ UNCHANGED <<rows, applied, timeline>>

Respond(w) ==
    /\ work[w].pc = "respond"
    /\ work' = [work EXCEPT ![w] = NoJob]
    /\ UNCHANGED <<rows, applied, timeline>>

\* The process serving the request dies; what is committed stays.
Crash(w) ==
    /\ Crashes
    /\ work[w].pc # "idle"
    /\ work' = [work EXCEPT ![w] = NoJob]
    /\ UNCHANGED <<rows, applied, timeline>>
--------------------------------------------------------------------------------
\* A request that started runs on to its answer without anyone's help.
Progress(w) ==
    \/ TraceDecision(w)
    \/ Claim(w) \/ ClaimFails(w) \/ Conflict(w)
    \/ TraceStart(w) \/ RunTool(w)
    \/ Record(w) \/ RecordFails(w)
    \/ TraceFinish(w) \/ Reread(w) \/ Respond(w)

Arrive(w, a) ==
    \/ \E new \in {"approved", "rejected"} : Decide(w, a, new) \/ DecideFails(w, a, new)
    \/ ReadForExecution(w, a)

Next ==
    \/ \E a \in ApprovalIds, p \in Payloads : CreatePendingApproval(a, p)
    \/ \E w \in Workers, a \in ApprovalIds : Arrive(w, a)
    \/ \E w \in Workers : Progress(w) \/ Crash(w)

Spec == Init /\ [][Next]_vars

\* The event loop and the threadpool keep running what they started.
FairSpec == Spec /\ \A w \in Workers : WF_vars(Progress(w))
--------------------------------------------------------------------------------
TypeOK ==
    /\ rows \in [ApprovalIds -> ApprovalRow]
    /\ work \in [Workers -> Job]
    /\ applied \in [ApprovalIds -> Seq(Payloads)]
    /\ timeline \in [ApprovalIds -> Timeline]

\* A sensitive action takes effect at most once, and the payload that ran is the
\* one stored when the approval was created, whatever requests race.
EffectOnce ==
    \A a \in ApprovalIds : applied[a] \in {<< >>, <<rows[a].payload>>}

\* No business change without an approval a human granted and an executor claimed.
EffectNeedsClaim ==
    \A a \in ApprovalIds :
        applied[a] # << >> => rows[a].status \in {"executing", "executed", "failed"}

\* "executed" is reported of changes that happened only; "failed" of changes that
\* did not, as long as the answers to COMMITs arrive.
OutcomeTruthful ==
    \A a \in ApprovalIds :
        /\ rows[a].status = "executed" => applied[a] # << >>
        /\ rows[a].status = "failed" => applied[a] = << >> \/ LostAcks

\* Of all the requests executing an approval, one at most got past the claim and
\* not yet past the record; while it is there the row reads executing, and a tool
\* not yet run has left no effect.
SoleClaimer ==
    \A w \in Workers : work[w].pc \in Executing =>
        /\ rows[work[w].id].status = "executing"
        /\ \A v \in Workers : work[v].pc \in Executing /\ work[v].id = work[w].id => v = w
        /\ work[w].pc # "record" => applied[work[w].id] = << >>

Coherent(r) ==
    /\ r.decided_at <=> r.status \notin {Absent, "pending"}
    /\ r.execution_started_at <=> r.status \in {"executing", "executed", "failed"}
    /\ r.executed_at <=> r.status \in {"executed", "failed"}
    /\ r.execution_result <=> r.status = "executed"
    /\ r.execution_error <=> r.status = "failed"

\* The columns of a row agree with its status: a decision time once decided, a
\* start time once claimed, and exactly one of result and error once finished.
RowCoherent == \A a \in ApprovalIds : Coherent(rows[a])

\* A 200 carries the status the approval still has: for an execution the recorded
\* outcome, for a decision the decision, which later steps may only carry further.
AnswersHold ==
    \A w \in Workers : work[w].code = "200" =>
        LET now == rows[work[w].id].status
        IN  CASE work[w].seen = "approved" -> now \in ALL_STATUSES \ {"pending", "rejected"}
              [] work[w].seen = "rejected" -> now = "rejected"
              [] OTHER -> work[w].seen \in {"executed", "failed"} /\ now = work[w].seen

\* The observability timeline never says of an approval what its row denies, and
\* the executor's trace run is closed the way its terminal event says.
TimelineTruthful ==
    \A a \in ApprovalIds :
        LET t == timeline[a]
            s == rows[a].status
        IN  /\ "APPROVAL_REJECTED" \in t.events => s = "rejected"
            /\ "APPROVAL_APPROVED" \in t.events => s \notin {Absent, "pending", "rejected"}
            /\ "APPROVAL_EXECUTING" \in t.events => s \in {"executing", "executed", "failed"}
            /\ "APPROVAL_EXECUTED" \in t.events => s = "executed"
            /\ "APPROVAL_FAILED" \in t.events => s = "failed"
            /\ t.run = "completed" => "APPROVAL_EXECUTED" \in t.events
            /\ t.run = "failed" => "APPROVAL_FAILED" \in t.events

\* A row never leaves the transition table, its payload is written once, and the
\* record of a decision or of an outcome is never taken back.
LegalStep(a) ==
    /\ rows'[a].status # rows[a].status =>
          \/ rows[a].status = Absent /\ rows'[a].status = "pending"
          \/ <<rows[a].status, rows'[a].status>> \in ALLOWED_TRANSITIONS
    /\ rows[a].status # Absent => rows'[a].payload = rows[a].payload

LegalSteps == [][\A a \in ApprovalIds : LegalStep(a)]_vars

\* What the module docstring of the executor promises, as one specification.
Lifecycle ==
    INSTANCE ApprovalLifecycle WITH
        status <- [a \in ApprovalIds |-> rows[a].status],
        effects <- [a \in ApprovalIds |-> Len(applied[a])]

ImplementsLifecycle == Lifecycle!LifecycleSpec

\* Without crashes and store failures every claimed execution ends.
ExecutionEnds ==
    \A a \in ApprovalIds :
        rows[a].status = "executing" ~> rows[a].status \in {"executed", "failed"}
================================================================================
