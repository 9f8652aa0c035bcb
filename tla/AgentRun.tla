-------------------------------- MODULE AgentRun --------------------------------
(***************************************************************************)
(* One chat request: the run of the tool-calling agent                     *)
(* (app/agent/agent.py), the client of the model it asks                   *)
(* (app/agent/glm_client.py), the trace that is kept of the run            *)
(* (app/observability/{manager,repository}.py), and the status the request *)
(* is answered with (app/api/routes.py).                                   *)
(*                                                                         *)
(* The loop asks the model, runs the tools the model wants one after the   *)
(* other, hands their results back and asks again, up to a budget of       *)
(* tools.  Every model call and every tool is recorded in a transaction of *)
(* its own, after it happened; what the recorder cannot write is left out. *)
(* Runs share nothing but the store, so one run stands for all of them.    *)
(***************************************************************************)
EXTENDS Subsequences, SequencesExt

CONSTANTS
    Ordinary,            \* tools that are run where the model asks for them
    Sensitive,           \* refund_order, cancel_order, bulk_stock_update
    Unknown,             \* names of no tool, which the model may still ask for
    MaxToolIterations,   \* most tools a run executes (5 in the code)
    MaxBlocks,           \* most content blocks of one response of the model
    MaxFaults,           \* most transactions that fail or lose their answer
    Crashes              \* may the process die in the middle of the run?

Tools == Ordinary \cup Sensitive \cup Unknown

ASSUME ConstantsAssumption ==
    /\ Ordinary \cap Sensitive = {}
    /\ (Ordinary \cup Sensitive) \cap Unknown = {}
    /\ {"model", "run_started", "run_completed", "run_failed"} \cap Tools = {}
    /\ MaxToolIterations \in Nat
    /\ MaxBlocks \in Nat
    /\ {"text", "blank", "broken", "string"} \cap Tools = {}
    /\ MaxFaults \in Nat
    /\ Crashes \in BOOLEAN

VARIABLES
    pc,          \* "start", "call", "tools", "close" or "over"
    iteration,   \* model calls so far
    executed,    \* tools run so far, as the loop counts them
    batch,       \* tools of the last response still to run
    results,     \* result blocks of the batch, not yet given to the model
    seen,        \* result blocks in the messages the model is sent
    effects,     \* tools whose transaction was committed in the store
    happened,    \* model calls and tools of this run, in order
    unrecorded,  \* the step just made, while its event is not yet recorded
    tracing,     \* the recorder's _ok
    row,         \* status of the run's row, "none" without one
    events,      \* the run's event rows, by id
    answer,      \* how the run ended: "text", an exception, or "none" so far
    status,      \* the HTTP status of the answer, "none" so far
    faults       \* transactions that failed or lost their answer

loop == <<pc, iteration, executed, batch, results, seen, answer, status>>
trace == <<tracing, row, events>>
vars == <<loop, effects, happened, unrecorded, trace, faults>>

Event == [what : Tools \cup {"model"}, ok : BOOLEAN, iteration : Nat]
RunEvent(name) == [what |-> name, ok |-> TRUE, iteration |-> 0]

Init ==
    /\ pc = "start"
    /\ iteration = 0
    /\ executed = 0
    /\ batch = << >>
    /\ results = << >>
    /\ seen = << >>
    /\ effects = << >>
    /\ happened = << >>
    /\ unrecorded = << >>
    /\ tracing = TRUE
    /\ row = "none"
    /\ events = << >>
    /\ answer = "none"
    /\ status = "none"
    /\ faults = 0

\* One more transaction is reported as failed.
Fault ==
    /\ faults < MaxFaults
    /\ faults' = faults + 1

(***************************************************************************)
(* The recorder                                                            *)
(***************************************************************************)

Opened ==
    /\ row' = "running"
    /\ events' = <<RunEvent("run_started")>>

\* TraceRecorder.start: a run whose row could not be opened is not traced at all,
\* and a row whose COMMIT was not answered stays open behind its back.
StartTrace ==
    /\ pc = "start"
    /\ pc' = "call"
    /\ \/ Opened /\ UNCHANGED <<tracing, faults>>
       \/ Fault /\ tracing' = FALSE /\ (Opened \/ UNCHANGED <<row, events>>)
    /\ UNCHANGED <<iteration, executed, batch, results, seen, answer, status,
                   effects, happened, unrecorded>>

\* Without an API key no run is begun.
NotConfigured ==
    /\ pc = "start"
    /\ pc' = "over"
    /\ status' = "503"
    /\ UNCHANGED <<iteration, executed, batch, results, seen, answer,
                   effects, happened, unrecorded, trace, faults>>

\* Mutant: without a trace the step is never done with.
NeedsTrace ==
    /\ tracing /\ unrecorded # << >>
    /\ unrecorded' = << >>
    /\ \/ events' = events \o unrecorded /\ UNCHANGED faults
       \/ Fault /\ events' \in {events, events \o unrecorded}
    /\ UNCHANGED <<loop, effects, happened, tracing, row>>

\* TraceRecorder.record: best effort, a failure only costs the event.
Record ==
    /\ unrecorded # << >>
    /\ unrecorded' = << >>
    /\ IF tracing
       THEN \/ events' = events \o unrecorded /\ UNCHANGED faults
            \/ Fault /\ events' \in {events, events \o unrecorded}
       ELSE UNCHANGED <<events, faults>>
    /\ UNCHANGED <<loop, effects, happened, tracing, row>>

\* Mutant: complete() in a finally block, whatever the run ended with.
AlwaysCompleted ==
    /\ row' = "completed"
    /\ events' = Append(events, RunEvent("run_completed"))

\* complete_run, fail_run: a guarded UPDATE of the row, the event with it.
Closed ==
    IF row = "running"
    THEN /\ row' = IF answer = "text" THEN "completed" ELSE "failed"
         /\ events' = Append(events,
                RunEvent(IF answer = "text" THEN "run_completed" ELSE "run_failed"))
    ELSE UNCHANGED <<row, events>>

\* Mutant: whatever the run failed of is put down to the model.
BlameTheModel(ended) == IF ended = "text" THEN "200" ELSE "502"

\* The route knows the errors of the client; others are nobody's.
StatusOf(ended) ==
    CASE ended = "text" -> "200"
      [] ended = "GLMError" -> "502"
      [] OTHER -> "500"

Close ==
    /\ pc = "close"
    /\ unrecorded = << >>
    /\ pc' = "over"
    /\ status' = StatusOf(answer)
    /\ IF tracing
       THEN \/ Closed /\ UNCHANGED faults
            \/ Fault /\ (Closed \/ UNCHANGED <<row, events>>)
       ELSE UNCHANGED <<row, events, faults>>
    /\ UNCHANGED <<iteration, executed, batch, results, seen, answer,
                   effects, happened, unrecorded, tracing>>

(***************************************************************************)
(* The client: what the model may send, and what becomes of it             *)
(***************************************************************************)

\* A block of text, of blanks or of a kind unknown to the client; a use of a tool without
\* its name; a string where a block should be; a use of a tool.
Blocks == Tools \cup {"text", "blank", "broken", "string"}

Responses == UNION {[1 .. n -> Blocks] : n \in 0 .. MaxBlocks}

\* _parse_response: missing fields are errors of the client, a string where an object
\* should be is not (AttributeError); and there is text or a tool in every response.
Parsed(blocks) ==
    CASE "string" \in Range(blocks) -> "Exception"
      [] "broken" \in Range(blocks) -> "GLMError"
      [] Range(blocks) \subseteq {"blank"} -> "GLMError"
      [] OTHER -> "response"

ToolUses(blocks) == Selection(blocks, Tools)

(***************************************************************************)
(* The loop                                                                *)
(***************************************************************************)

\* A step of the loop, and the event that will be recorded of it.
Happens(what, ok, at) ==
    LET event == [what |-> what, ok |-> ok, iteration |-> at]
    IN  /\ happened' = Append(happened, event)
        /\ unrecorded' = <<event>>

Budget == MaxToolIterations - executed

\* Mutant: the budget is only looked at between two responses.
WholeBatch(wanted) == wanted

\* Only the leading tools of a response are run when all would exceed the budget.
Leading(wanted) ==
    IF Len(wanted) <= Budget THEN wanted ELSE SubSeq(wanted, 1, Budget)

CallModel ==
    /\ pc = "call"
    /\ unrecorded = << >>
    /\ iteration' = iteration + 1
    /\ UNCHANGED <<executed, results, seen, status, effects, trace, faults>>

\* Text without tools ends the run.  So does whatever the call after the budget is
\* spent returns: tools it asks for are ignored, a fixed text replaces a missing one.
ModelAnswers ==
    /\ CallModel
    /\ \E blocks \in Responses :
           /\ Parsed(blocks) = "response"
           /\ Budget = 0 \/ ToolUses(blocks) = << >>
    /\ Happens("model", TRUE, iteration')
    /\ pc' = "close"
    /\ answer' = "text"
    /\ UNCHANGED batch

ModelWantsTools ==
    /\ CallModel
    /\ Budget > 0
    /\ \E blocks \in Responses :
           /\ Parsed(blocks) = "response"
           /\ ToolUses(blocks) # << >>
           /\ batch' = Leading(ToolUses(blocks))
    /\ Happens("model", TRUE, iteration')
    /\ pc' = "tools"
    /\ UNCHANGED answer

ModelSendsNonsense ==
    /\ CallModel
    /\ \E blocks \in Responses : Parsed(blocks) # "response" /\ answer' = Parsed(blocks)
    /\ Happens("model", FALSE, iteration')
    /\ pc' = "close"
    /\ UNCHANGED batch

\* A timeout, no connection, a status of 400 or above, or no JSON.
ModelFails ==
    /\ CallModel
    /\ pc' = "close"
    /\ answer' = "GLMError"
    /\ Happens("model", FALSE, iteration')
    /\ UNCHANGED batch

\* Mutant: the loop is left as soon as the budget is spent, before the results
\* become messages.
LeavesEarly(told, ok) ==
    LET result == [tool |-> Head(batch), told |-> told]
    IN  /\ batch' = Tail(batch)
        /\ executed' = executed + 1
        /\ Happens(Head(batch), ok, iteration)
        /\ IF Len(batch) = 1
           THEN /\ pc' = "call"
                /\ seen' = IF executed' = MaxToolIterations THEN seen
                           ELSE seen \o Append(results, result)
                /\ results' = << >>
           ELSE /\ results' = Append(results, result)
                /\ UNCHANGED <<pc, seen>>
        /\ UNCHANGED <<iteration, answer, status>>

\* The head of the batch is run and its result told; after the last one the results
\* become messages and the model is asked again.
Ran(told, ok) ==
    LET result == [tool |-> Head(batch), told |-> told]
    IN  /\ batch' = Tail(batch)
        /\ executed' = executed + 1
        /\ Happens(Head(batch), ok, iteration)
        /\ IF Len(batch) = 1
           THEN /\ pc' = "call"
                /\ seen' = seen \o Append(results, result)
                /\ results' = << >>
           ELSE /\ results' = Append(results, result)
                /\ UNCHANGED <<pc, seen>>
        /\ UNCHANGED <<iteration, answer, status>>

RunTool(tools) ==
    /\ pc = "tools"
    /\ unrecorded = << >>
    /\ Head(batch) \in tools
    /\ UNCHANGED trace

Committed == effects' = Append(effects, Head(batch))

RequestApproval ==
    /\ RunTool(Sensitive)
    /\ Committed
    /\ Ran("done", TRUE)
    /\ UNCHANGED faults

\* create_pending_approval is called outside of any try: input it refuses, because it is
\* no object, ends the run, and so does a transaction that fails.
ApprovalFails ==
    /\ RunTool(Sensitive)
    /\ \/ UNCHANGED <<effects, faults>>
       \/ Fault /\ (Committed \/ UNCHANGED effects)
    /\ pc' = "close"
    /\ answer' = "Exception"
    /\ UNCHANGED <<iteration, executed, batch, results, seen, status, happened, unrecorded>>

UnknownTool ==
    /\ RunTool(Unknown)
    /\ Ran("error", FALSE)
    /\ UNCHANGED <<effects, faults>>

ToolSucceeds ==
    /\ RunTool(Ordinary)
    /\ Committed
    /\ Ran("done", TRUE)
    /\ UNCHANGED faults

\* A refusal is an answer of the tool ({"success": false}), an exception is an error.
\* A tool that only reads is like one that refuses: it answers and changes nothing.
ToolRefuses ==
    /\ RunTool(Ordinary)
    /\ Ran("refused", TRUE)
    /\ UNCHANGED <<effects, faults>>

ToolRaises ==
    /\ RunTool(Ordinary)
    /\ Ran("error", FALSE)
    /\ UNCHANGED <<effects, faults>>

\* A tool turns a failed transaction, even one that was committed, into an answer or
\* an exception.
ToolStoreFails ==
    /\ RunTool(Ordinary)
    /\ Fault
    /\ Committed \/ UNCHANGED effects
    /\ Ran("refused", TRUE) \/ Ran("error", FALSE)

Crash ==
    /\ Crashes
    /\ pc # "over"
    /\ pc' = "over"
    /\ answer' = "none"
    /\ unrecorded' = << >>
    /\ UNCHANGED <<iteration, executed, batch, results, seen, status, effects, happened,
                   trace, faults>>

Step ==
    \/ StartTrace \/ NotConfigured \/ Record \/ Close
    \/ ModelAnswers \/ ModelWantsTools \/ ModelSendsNonsense \/ ModelFails
    \/ RequestApproval \/ ApprovalFails \/ UnknownTool
    \/ ToolSucceeds \/ ToolRefuses \/ ToolRaises \/ ToolStoreFails

Next == Step \/ Crash

Spec == Init /\ [][Next]_vars

\* Model calls time out and transactions end, so a run that is not over takes its
\* next step unless the process dies.
FairSpec == Spec /\ WF_vars(Step)

(***************************************************************************)
(* Properties                                                              *)
(***************************************************************************)

TypeOK ==
    /\ pc \in {"start", "call", "tools", "close", "over"}
    /\ iteration \in 0 .. MaxToolIterations + 1
    /\ executed \in 0 .. MaxToolIterations
    /\ batch \in Seq(Tools)
    /\ \A told \in {results, seen} :
           told \in Seq([tool : Tools, told : {"done", "refused", "error"}])
    /\ effects \in Seq(Ordinary \cup Sensitive)
    /\ happened \in Seq(Event)
    /\ unrecorded \in Seq(Event)
    /\ tracing \in BOOLEAN
    /\ row \in {"none", "running", "completed", "failed"}
    /\ events \in
           Seq(Event \cup {RunEvent(e) : e \in {"run_started", "run_completed", "run_failed"}})
    /\ answer \in {"text", "GLMError", "Exception", "none"}
    /\ status \in {"200", "500", "502", "503", "none"}
    /\ faults \in 0 .. MaxFaults

StepsOf(log) == Selection(log, Event)
ToolsIn(log) == Selection(log, [what : Tools, ok : BOOLEAN, iteration : Nat])
DoneIn(told) == Selection(told, [tool : Tools, told : {"done"}])

NamesOf(told) == [i \in DOMAIN told |-> told[i].tool]

\* Whatever batches the model asks for, a run executes at most MaxToolIterations tools
\* and calls the model at most once more than that; and whenever the model is called,
\* every tool that ran has its result in the messages, in the order they ran
\* (app/agent/agent.py, Agent.run).
BudgetHeld ==
    /\ Len(ToolsIn(happened)) <= MaxToolIterations
    /\ Len(happened) <= 2 * MaxToolIterations + 1
    /\ pc = "call" =>
           NamesOf(seen) = [i \in DOMAIN ToolsIn(happened) |-> ToolsIn(happened)[i].what]

\* The model answers the user knowing what the run did: it was told "done" only of
\* what was committed, and each committed tool it was not told of cost a transaction
\* whose answer was lost - also when the budget ended the run in the middle of what
\* the model wanted.
AnswerKnowsEffects ==
    /\ IsThinned(NamesOf(DoneIn(seen \o results)), effects)
    /\ answer = "text" => Len(effects) - Len(DoneIn(seen)) <= faults

\* The trace shows the run and nothing else: the events between start and end are
\* steps that happened, in that order, with their status and iteration; the row
\* is closed the way the run ended, together with its last event; and each event
\* that is missing from the trace of a finished run cost a failed transaction,
\* unless the trace was given up at the start.
TraceFaithful ==
    /\ IsThinned(StepsOf(events), happened)
    /\ (row = "none") = (events = << >>)
    /\ row # "none" => Head(events) = RunEvent("run_started")
    /\ row = "completed" => answer = "text" /\ Last(events) = RunEvent("run_completed")
    /\ row = "failed" => answer \in {"GLMError", "Exception"} /\ Last(events) = RunEvent("run_failed")
    /\ pc = "over" /\ answer # "none" /\ tracing =>
           Len(happened) + 2 - Len(events) <= faults

\* A run always ends: no sequence of responses, refusals and failures keeps the loop
\* going, and no failure of the recorder stops it.
RunEnds == <>(pc = "over")

\* The client of the API can tell from the status what it may do: 200 is the answer to a
\* run that is over, 502 says that the model failed and nothing else did, and 503 that
\* nothing was done at all, so that asking again repeats nothing (routes.py, chat).
StatusTruthful ==
    /\ status = "200" => answer = "text" /\ Last(happened).ok
    /\ status = "502" => ~Last(happened).ok /\ Last(happened).what = "model"
    /\ status = "503" => effects = << >> /\ happened = << >> /\ row = "none"
================================================================================
