------------------------ MODULE ApprovalExecutionProofs ------------------------
(***************************************************************************)
(* Proofs about ApprovalExecution, for any number of approvals, requests   *)
(* and payloads, with any combination of store faults, lost answers and    *)
(* crashes; and about the page over it, ApprovalsView, for any number of   *)
(* loads of the list under way.                                            *)
(***************************************************************************)
EXTENDS ApprovalsView, TLAPS

--------------------------------------------------------------------------------
\* What the operators that build rows and jobs return.

Seen == ALL_STATUSES \cup {Absent}

\* The idle job is a job, and the row that does not exist yet has the type of a row.
LEMMA NoJobType == NoJob \in Job
  BY DEF NoJob, Job, Points, Codes, Absent

\* The absent row is a row.
LEMMA NoRowType == NoRow \in ApprovalRow
  BY DEF NoRow, ApprovalRow, Absent

\* insert_approval stores a row of the table's type.
LEMMA PendingRowType ==
  ASSUME NEW p \in Payloads
  PROVE  PendingRow(p) \in ApprovalRow
  BY DEF PendingRow, NoRow, ApprovalRow, Absent, ALL_STATUSES

\* decide_approval's UPDATE stores a row of the table's type.
LEMMA DecidedType ==
  ASSUME TypeOK, NEW a \in ApprovalIds, NEW new \in {"approved", "rejected"}
  PROVE  Decided(a, new) \in ApprovalRow
<1>1. rows[a] \in ApprovalRow
  BY DEF TypeOK
<1>. QED
  BY <1>1 DEF Decided, ApprovalRow, ALL_STATUSES

\* claim_for_execution's UPDATE stores a row of the table's type.
LEMMA ClaimedType ==
  ASSUME TypeOK, NEW a \in ApprovalIds
  PROVE  Claimed(a) \in ApprovalRow
<1>1. rows[a] \in ApprovalRow
  BY DEF TypeOK
<1>. QED
  BY <1>1 DEF Claimed, ApprovalRow, ALL_STATUSES

\* record_execution_outcome's UPDATE stores a row of the table's type, whatever the outcome.
LEMMA RecordedType ==
  ASSUME TypeOK, NEW a \in ApprovalIds, NEW outcome
  PROVE  Recorded(a, outcome) \in ApprovalRow
<1>1. rows[a] \in ApprovalRow
  BY DEF TypeOK
<1>2. CASE outcome = "success"
  BY <1>1, <1>2 DEF Recorded, ApprovalRow, ALL_STATUSES
<1>3. CASE outcome # "success"
  BY <1>1, <1>3 DEF Recorded, ApprovalRow, ALL_STATUSES
<1>. QED
  BY <1>2, <1>3

\* A step that rewrites one row, or none, keeps the table's type.
LEMMA RowUpdateType ==
  ASSUME TypeOK, NEW a \in ApprovalIds, NEW r \in ApprovalRow,
         \/ rows' = [rows EXCEPT ![a] = r]
         \/ UNCHANGED rows
  PROVE  rows' \in [ApprovalIds -> ApprovalRow]
  BY DEF TypeOK

RunStates == {"none", "running", "completed", "failed"}

\* What the observability writes do to the timeline.
LEMMA EventType ==
  ASSUME TypeOK, NEW a \in ApprovalIds, NEW e \in Events,
         timeline' = [timeline EXCEPT ![a].events = @ \cup {e}]
  PROVE  timeline' \in [ApprovalIds -> Timeline]
<1>1. [timeline[a] EXCEPT !.events = @ \cup {e}] \in Timeline
  <2>1. timeline[a] \in Timeline
    BY DEF TypeOK
  <2>2. timeline[a].events \cup {e} \in SUBSET Events
    BY <2>1 DEF Timeline
  <2>. QED
    BY <2>1, <2>2 DEF Timeline
<1>. QED
  BY <1>1 DEF TypeOK

\* Opening the executor's run keeps the timeline's type.
LEMMA RunStateType ==
  ASSUME TypeOK, NEW a \in ApprovalIds, NEW r \in RunStates,
         timeline' = [timeline EXCEPT ![a].run = r]
  PROVE  timeline' \in [ApprovalIds -> Timeline]
<1>1. [timeline[a] EXCEPT !.run = r] \in Timeline
  BY DEF TypeOK, Timeline, RunStates
<1>. QED
  BY <1>1 DEF TypeOK

\* Writing an event and the run's state together keeps the timeline's type.
LEMMA EventAndRunType ==
  ASSUME TypeOK, NEW a \in ApprovalIds, NEW e \in Events, NEW r \in RunStates,
         timeline' = [timeline EXCEPT ![a].events = @ \cup {e}, ![a].run = r]
  PROVE  timeline' \in [ApprovalIds -> Timeline]
<1>1. [timeline[a] EXCEPT !.events = @ \cup {e}, !.run = r] \in Timeline
  <2>1. timeline[a] \in Timeline
    BY DEF TypeOK
  <2>2. timeline[a].events \cup {e} \in SUBSET Events
    BY <2>1 DEF Timeline
  <2>. QED
    BY <2>1, <2>2 DEF Timeline, RunStates
<1>. QED
  BY <1>1 DEF TypeOK

\* A job under way serves an approval, and one that will run the tool holds a payload.
Sound(j) ==
    /\ j.pc # "idle" => j.id \in ApprovalIds
    /\ j.pc \in {"claim", "trace_start", "run_tool"} => j.snapshot \in Payloads

Serving == \A w \in Workers : Sound(work[w])

Typed == TypeOK /\ Serving

\* The step gives worker w another job.
Rewrites(w) == \E j \in Job : Sound(j) /\ work' = [work EXCEPT ![w] = j]

\* Rewriting one job soundly keeps every job typed and sound.
LEMMA RewriteTyped ==
  ASSUME Typed, NEW w \in Workers, Rewrites(w)
  PROVE  work' \in [Workers -> Job] /\ Serving'
  BY DEF Typed, TypeOK, Serving, Rewrites, Sound

\* An answered request is a sound job.
LEMMA AnswerRewrites ==
  ASSUME NEW w \in Workers, NEW a \in ApprovalIds, NEW code \in Codes, NEW seen \in Seen,
         Answer(w, a, code, seen)
  PROVE  Rewrites(w)
<1> DEFINE j == [NoJob EXCEPT !.pc = "respond", !.id = a, !.code = code, !.seen = seen]
<1>1. j \in Job /\ Sound(j)
  BY DEF NoJob, Job, Points, Codes, Absent, Seen, Sound
<1>. QED
  BY <1>1 DEF Rewrites, Answer

\* So is one answered 503.
LEMMA UnavailableRewrites ==
  ASSUME NEW w \in Workers, NEW a \in ApprovalIds, Unavailable(w, a)
  PROVE  Rewrites(w)
  BY AnswerRewrites DEF Unavailable, Codes, Seen

\* Going to the next point of the handler keeps a job sound.
LEMMA GotoRewrites ==
  ASSUME Typed, NEW w \in Workers, NEW point \in Points, work[w].pc # "idle",
         point = "trace_start" => work[w].pc = "claim",
         point = "run_tool" => work[w].pc = "trace_start",
         point # "claim", Goto(w, point)
  PROVE  Rewrites(w)
<1> DEFINE j == [work[w] EXCEPT !.pc = point]
<1>1. Sound(work[w]) /\ work[w] \in Job
  BY DEF Typed, TypeOK, Serving
<1>2. j \in Job /\ Sound(j)
  BY <1>1 DEF Job, Sound
<1>. QED
  BY <1>2 DEF Rewrites, Goto

\* The empty table and the idle workers are typed.
LEMMA TypedInit == Init => Typed
  BY NoRowType, NoJobType DEF Init, Typed, TypeOK, Serving, Sound, Timeline, NoJob

\* The steps that admit a request.
LEMMA ArriveTyped ==
  ASSUME Typed, NEW w \in Workers, NEW a \in ApprovalIds, Arrive(w, a)
  PROVE  Typed'
<1>1. rows' \in [ApprovalIds -> ApprovalRow]
  BY DecidedType, RowUpdateType, NoRowType
     DEF Typed, Arrive, Decide, DecideFails, ReadForExecution
<1>2. rows[a].status \in Seen /\ rows[a].payload \in Payloads \cup {NoPayload}
  BY DEF Typed, TypeOK, ApprovalRow, Seen
<1>3. Rewrites(w)
  <2>1. CASE \E new \in {"approved", "rejected"} : Decide(w, a, new)
    <3>1. PICK new \in {"approved", "rejected"} : Decide(w, a, new)
      BY <2>1
    <3>2. CASE CanDecide(a)
      <4> DEFINE j == [NoJob EXCEPT !.pc = "trace_decision", !.id = a, !.seen = new]
      <4>1. j \in Job /\ Sound(j)
        BY DEF NoJob, Job, Points, Codes, Absent, ALL_STATUSES, Sound
      <4>. QED
        BY <3>1, <3>2, <4>1 DEF Rewrites, Decide, CanDecide, Absent
    <3>3. CASE ~CanDecide(a)
      BY <3>1, <3>3, <1>2, AnswerRewrites DEF Decide, Codes, Seen
    <3>. QED
      BY <3>2, <3>3
  <2>2. CASE \E new \in {"approved", "rejected"} : DecideFails(w, a, new)
    BY <2>2, UnavailableRewrites DEF DecideFails
  <2>3. CASE ReadForExecution(w, a)
    <3> DEFINE j == [NoJob EXCEPT !.pc = "claim", !.id = a, !.snapshot = rows[a].payload]
    <3>1. Executable(a) => j \in Job /\ Sound(j)
      BY <1>2, ConstantsAssumption
         DEF NoJob, Job, Points, Codes, Absent, Sound, Executable
    <3>. QED
      BY <2>3, <3>1, AnswerRewrites, UnavailableRewrites
         DEF Rewrites, ReadForExecution, Codes, Seen
  <2>. QED
    BY <2>1, <2>2, <2>3 DEF Arrive
<1>4. UNCHANGED <<applied, timeline>>
  BY DEF Arrive, Decide, DecideFails, ReadForExecution
<1>. QED
  BY <1>1, <1>3, <1>4, RewriteTyped DEF Typed, TypeOK

\* The steps of a request under way.
LEMMA ProgressTyped ==
  ASSUME Typed, NEW w \in Workers, Progress(w) \/ Crash(w)
  PROVE  Typed'
<1> DEFINE a == work[w].id
<1>1. work[w].pc # "idle"
  BY DEF Progress, Crash, TraceDecision, Claim, ClaimFails, Conflict, TraceStart, RunTool,
         Record, RecordFails, TraceFinish, Reread, Respond
<1>2. a \in ApprovalIds
  BY <1>1 DEF Typed, Serving, Sound
<1>3. /\ work[w] \in Job
      /\ Sound(work[w])
      /\ rows[a].status \in Seen
      /\ timeline[a] \in Timeline
  BY <1>2 DEF Typed, TypeOK, Serving, ApprovalRow, Seen
<1>4. rows' \in [ApprovalIds -> ApprovalRow]
  BY <1>2, ClaimedType, RecordedType, RowUpdateType, NoRowType
     DEF Typed, Progress, Crash, TraceDecision, Claim, ClaimFails, Conflict, TraceStart,
         RunTool, Record, RecordFails, TraceFinish, Reread, Respond
<1>5. applied' \in [ApprovalIds -> Seq(Payloads)]
  <2>1. CASE RunTool(w)
    <3>1. work[w].snapshot \in Payloads
      BY <2>1, <1>3 DEF RunTool, Sound
    <3>2. Append(applied[a], work[w].snapshot) \in Seq(Payloads)
      BY <3>1, <1>2 DEF Typed, TypeOK
    <3>. QED
      BY <2>1, <3>2, <1>2 DEF Typed, TypeOK, RunTool
  <2>. QED
    BY <2>1 DEF Typed, TypeOK, Progress, Crash, TraceDecision, Claim, ClaimFails, Conflict,
         TraceStart, Record, RecordFails, TraceFinish, Reread, Respond
<1>6. timeline' \in [ApprovalIds -> Timeline]
  <2>1. CASE TraceDecision(w)
    BY <2>1, <1>2, EventType DEF Typed, TypeOK, TraceDecision, Events
  <2>2. CASE TraceStart(w)
    <3>1. "APPROVAL_EXECUTING" \in Events
      BY DEF Events
    <3>. QED
      BY <2>2, <3>1, <1>2, EventType, RunStateType, EventAndRunType
         DEF Typed, TypeOK, TraceStart, RunStates
  <2>3. CASE TraceFinish(w)
    <3>1. TerminalEvent(work[w].outcome) \in Events
      BY DEF TerminalEvent, Events
    <3>. QED
      BY <2>3, <3>1, <1>2, EventType, EventAndRunType
         DEF Typed, TypeOK, TraceFinish, RunStates
  <2>. QED
    BY <2>1, <2>2, <2>3
       DEF Typed, TypeOK, Progress, Crash, Claim, ClaimFails, Conflict, RunTool, Record,
           RecordFails, Reread, Respond
<1>7. Rewrites(w)
  <2>1. CASE TraceDecision(w) \/ ClaimFails(w) \/ Conflict(w) \/ RecordFails(w) \/ Reread(w)
    BY <2>1, <1>2, <1>3, AnswerRewrites, UnavailableRewrites
       DEF TraceDecision, ClaimFails, Conflict, RecordFails, Reread, Codes, Seen, Job
  <2>2. CASE Claim(w) \/ Record(w) \/ TraceFinish(w)
    BY <2>2, <1>1, GotoRewrites DEF Claim, Record, TraceFinish, Points
  <2>3. CASE TraceStart(w)
    <3> DEFINE j == [work[w] EXCEPT !.pc = "run_tool", !.traced = TRUE]
    <3>1. j \in Job /\ Sound(j)
      BY <1>3, <2>3 DEF Job, Points, Sound, TraceStart
    <3>2. work' = [work EXCEPT ![w] = j] \/ Goto(w, "run_tool")
      BY <2>3 DEF TraceStart
    <3>3. "run_tool" \in Points /\ work[w].pc = "trace_start"
      BY <2>3 DEF Points, TraceStart
    <3>. QED
      BY <3>1, <3>2, <3>3, <1>1, <1>2, GotoRewrites DEF Rewrites
  <2>4. CASE RunTool(w)
    <3> DEFINE j(o) == [work[w] EXCEPT !.pc = "record", !.outcome = o]
    <3>1. \A o \in {"success", "refused"} : j(o) \in Job /\ Sound(j(o))
      BY <1>2, <1>3 DEF Job, Points, Sound
    <3>2. \E o \in {"success", "refused"} : work' = [work EXCEPT ![w] = j(o)]
      BY <2>4 DEF RunTool
    <3>. QED
      BY <3>1, <3>2, <1>2 DEF Rewrites
  <2>5. CASE Respond(w) \/ Crash(w)
    BY <2>5, NoJobType DEF Rewrites, Respond, Crash, NoJob, Sound
  <2>. QED
    BY <2>1, <2>2, <2>3, <2>4, <2>5 DEF Progress
<1>. QED
  BY <1>4, <1>5, <1>6, <1>7, RewriteTyped DEF Typed, TypeOK

\* Every step keeps the state typed.
LEMMA TypedStep == Typed /\ [Next]_vars => Typed'
<1> SUFFICES ASSUME Typed, [Next]_vars PROVE Typed'
  OBVIOUS
<1>1. ASSUME NEW a \in ApprovalIds, NEW p \in Payloads, CreatePendingApproval(a, p)
      PROVE  Typed'
  <2>1. rows' \in [ApprovalIds -> ApprovalRow]
    BY <1>1, PendingRowType, RowUpdateType DEF Typed, CreatePendingApproval
  <2>. QED
    BY <1>1, <2>1 DEF Typed, TypeOK, Serving, Sound, CreatePendingApproval
<1>2. CASE UNCHANGED vars
  BY <1>2 DEF Typed, TypeOK, Serving, Sound, vars
<1>. QED
  BY <1>1, <1>2, ArriveTyped, ProgressTyped DEF Next

\* Every reachable state of the approval component has its type: in particular a
\* request under way serves an existing id and a tool is never run without a payload.
THEOREM TypeCorrect == Spec => []TypeOK
<1>1. Typed => TypeOK
  BY DEF Typed
<1>. QED
  BY TypedInit, TypedStep, <1>1, PTL DEF Spec

--------------------------------------------------------------------------------
\* The inductive invariant behind "at most once".

\* What a request knows of its approval.  One about to claim holds the payload of
\* the row, which is never rewritten; one that claimed also owns the status
\* executing, and knows from its own outcome whether the change took place.
Informed(w) ==
    LET j == work[w]
        a == j.id
    IN  /\ j.pc \in Executing \cup {"claim"} =>
              rows[a].status # Absent /\ j.snapshot = rows[a].payload
        /\ j.pc \in Executing => rows[a].status = "executing"
        /\ j.pc \in {"trace_start", "run_tool"} => applied[a] = << >>
        /\ j.pc = "record" =>
              \/ j.outcome = "success" /\ applied[a] # << >>
              \/ j.outcome = "refused" /\ (applied[a] = << >> \/ LostAcks)

\* No two requests are past the claim of the same approval.
Exclusive ==
    \A v, w \in Workers :
        work[v].pc \in Executing /\ work[w].pc \in Executing /\ work[v].id = work[w].id
            => v = w

Settled == EffectOnce /\ EffectNeedsClaim /\ OutcomeTruthful

IInv == Typed /\ (\A w \in Workers : Informed(w)) /\ Exclusive /\ Settled

Safe == (\A w \in Workers : Informed(w)) /\ Exclusive /\ Settled

\* The fields the guarded UPDATEs set, and the payload they leave alone.
LEMMA RowFields ==
  ASSUME TypeOK, NEW a \in ApprovalIds, NEW new, NEW outcome
  PROVE  /\ Decided(a, new).status = new
         /\ Claimed(a).status = "executing"
         /\ Recorded(a, outcome).status = IF outcome = "success" THEN "executed" ELSE "failed"
         /\ Decided(a, new).payload = rows[a].payload
         /\ Claimed(a).payload = rows[a].payload
         /\ Recorded(a, outcome).payload = rows[a].payload
  BY DEF TypeOK, ApprovalRow, Decided, Claimed, Recorded

\* A request that leaves the protected section, or never entered it, and whose step
\* moves no row but by a decision, disturbs nobody.
LEMMA QuietSafe ==
  ASSUME IInv, NEW w \in Workers, NEW a \in ApprovalIds, NEW j \in Job,
         work' = [work EXCEPT ![w] = j],
         j.pc \notin Executing,
         j.pc = "claim" => rows[j.id].status # Absent /\ j.snapshot = rows[j.id].payload,
         j.pc = "claim" => j.id \in ApprovalIds,
         \/ UNCHANGED rows
         \/ \E new \in {"approved", "rejected"} :
                CanDecide(a) /\ rows' = [rows EXCEPT ![a] = Decided(a, new)],
         UNCHANGED applied
  PROVE  Safe'
<1> DEFINE Kept(b) ==
             /\ rows'[b].payload = rows[b].payload
             /\ \/ rows'[b].status = rows[b].status
                \/ rows[b].status = "pending" /\ rows'[b].status \in {"approved", "rejected"}
<1>1. \A b \in ApprovalIds : Kept(b)
  <2>1. CASE UNCHANGED rows
    BY <2>1
  <2>2. ASSUME NEW new \in {"approved", "rejected"},
               CanDecide(a), rows' = [rows EXCEPT ![a] = Decided(a, new)]
        PROVE  \A b \in ApprovalIds : Kept(b)
    <3>1. Decided(a, new).status = new /\ Decided(a, new).payload = rows[a].payload
      BY RowFields DEF IInv, Typed
    <3>2. \A b \in ApprovalIds : rows'[b] = IF b = a THEN Decided(a, new) ELSE rows[b]
      BY <2>2 DEF IInv, Typed, TypeOK
    <3>. QED
      BY <2>2, <3>1, <3>2 DEF CanDecide
  <2>. QED
    BY <2>1, <2>2
<1>2. \A v \in Workers : v # w => work'[v] = work[v]
  BY DEF IInv, Typed, TypeOK
<1>3. work'[w] = j
  BY DEF IInv, Typed, TypeOK
<1>4. \A v \in Workers : Informed(v)'
  <2> SUFFICES ASSUME NEW v \in Workers PROVE Informed(v)'
    OBVIOUS
  <2>1. CASE v = w
    BY <2>1, <1>1, <1>3 DEF Informed, Executing, Absent
  <2>2. CASE v # w
    <3>1. Informed(v) /\ Sound(work[v])
      BY DEF IInv, Typed, Serving
    <3>. QED
      BY <2>2, <3>1, <1>1, <1>2 DEF Informed, Executing, Absent, Sound
  <2>. QED
    BY <2>1, <2>2
<1>5. Exclusive'
  BY <1>2, <1>3 DEF IInv, Exclusive
<1>6. Settled'
  BY <1>1 DEF IInv, Settled, EffectOnce, EffectNeedsClaim, OutcomeTruthful
<1>. QED
  BY <1>4, <1>5, <1>6 DEF Safe

\* Nobody is past the claim of an approval whose status is not executing.
LEMMA NobodyExecutes ==
  ASSUME IInv, NEW a \in ApprovalIds, rows[a].status # "executing", NEW v \in Workers,
         work[v].pc \in Executing
  PROVE  work[v].id # a
  BY DEF IInv, Informed

\* The claim admits the request that made it, or nobody when its answer was lost.
LEMMA ClaimSafe ==
  ASSUME IInv, NEW w \in Workers, NEW j \in Job,
         work[w].pc = "claim", CanClaim(work[w].id),
         rows' = [rows EXCEPT ![work[w].id] = Claimed(work[w].id)],
         work' = [work EXCEPT ![w] = j],
         \/ j.pc = "trace_start" /\ j.id = work[w].id /\ j.snapshot = work[w].snapshot
         \/ j.pc = "respond",
         UNCHANGED applied
  PROVE  Safe'
<1> DEFINE a == work[w].id
<1>1. a \in ApprovalIds
  BY DEF IInv, Typed, Serving, Sound
<1>2. \A b \in ApprovalIds : rows'[b] = IF b = a THEN Claimed(a) ELSE rows[b]
  BY <1>1 DEF IInv, Typed, TypeOK
<1>3. Claimed(a).status = "executing" /\ Claimed(a).payload = rows[a].payload
  BY <1>1, RowFields DEF IInv, Typed
<1>4. \A v \in Workers : work'[v] = IF v = w THEN j ELSE work[v]
  BY DEF IInv, Typed, TypeOK
<1>5. rows[a].status = "approved" /\ applied[a] = << >>
  BY <1>1 DEF IInv, Settled, EffectOnce, EffectNeedsClaim, CanClaim
<1>6. \A v \in Workers : work[v].pc \in Executing => work[v].id # a
  BY <1>1, <1>5, NobodyExecutes
<1>7. \A v \in Workers : Informed(v)'
  <2> SUFFICES ASSUME NEW v \in Workers PROVE Informed(v)'
    OBVIOUS
  <2>0. Informed(v) /\ Informed(w) /\ Sound(work[v])
    BY DEF IInv, Typed, Serving
  <2>1. CASE v = w
    BY <2>0, <2>1, <1>1, <1>2, <1>3, <1>4, <1>5 DEF Informed, Executing, Absent
  <2>2. CASE v # w
    BY <2>0, <2>2, <1>2, <1>3, <1>4, <1>6 DEF Informed, Executing, Absent, Sound
  <2>. QED
    BY <2>1, <2>2
<1>8. Exclusive'
  BY <1>4, <1>6 DEF IInv, Exclusive, Executing
<1>9. Settled'
  BY <1>2, <1>3, <1>5 DEF IInv, Settled, EffectOnce, EffectNeedsClaim, OutcomeTruthful
<1>. QED
  BY <1>7, <1>8, <1>9 DEF Safe

\* The owner of the status executing records what it knows, and leaves.
LEMMA RecordSafe ==
  ASSUME IInv, NEW w \in Workers, NEW j \in Job,
         work[w].pc = "record",
         rows' = [rows EXCEPT ![work[w].id] = Recorded(work[w].id, work[w].outcome)],
         work' = [work EXCEPT ![w] = j],
         j.pc \notin Executing \cup {"claim"},
         UNCHANGED applied
  PROVE  Safe'
<1> DEFINE a == work[w].id
           r == Recorded(a, work[w].outcome)
<1>1. a \in ApprovalIds
  BY DEF IInv, Typed, Serving, Sound
<1>2. \A b \in ApprovalIds : rows'[b] = IF b = a THEN r ELSE rows[b]
  BY <1>1 DEF IInv, Typed, TypeOK
<1>3. /\ r.payload = rows[a].payload
      /\ r.status = IF work[w].outcome = "success" THEN "executed" ELSE "failed"
  BY <1>1, RowFields DEF IInv, Typed
<1>4. \A v \in Workers : work'[v] = IF v = w THEN j ELSE work[v]
  BY DEF IInv, Typed, TypeOK
<1>5. Informed(w) /\ work[w].pc \in Executing
  BY DEF IInv, Executing
<1>6. \A v \in Workers : v # w /\ work[v].pc \in Executing => work[v].id # a
  BY <1>5 DEF IInv, Exclusive
<1>7. \A v \in Workers : Informed(v)'
  <2> SUFFICES ASSUME NEW v \in Workers PROVE Informed(v)'
    OBVIOUS
  <2>0. Informed(v) /\ Sound(work[v])
    BY DEF IInv, Typed, Serving
  <2>1. CASE v = w
    BY <2>1, <1>4 DEF Informed, Executing
  <2>2. CASE v # w
    BY <2>0, <2>2, <1>2, <1>3, <1>4, <1>6 DEF Informed, Executing, Absent, Sound
  <2>. QED
    BY <2>1, <2>2
<1>8. Exclusive'
  BY <1>4 DEF IInv, Exclusive
<1>9. Settled'
  <2>1. /\ r.status = "executed" => applied[a] # << >>
        /\ r.status = "failed" => applied[a] = << >> \/ LostAcks
        /\ r.status \in {"executed", "failed"}
    BY <1>3, <1>5 DEF Informed
  <2>2. EffectOnce'
    BY <1>2, <1>3 DEF IInv, Settled, EffectOnce
  <2>3. EffectNeedsClaim' /\ OutcomeTruthful'
    BY <2>1, <1>2 DEF IInv, Settled, EffectNeedsClaim, OutcomeTruthful
  <2>. QED
    BY <2>2, <2>3 DEF Settled
<1>. QED
  BY <1>7, <1>8, <1>9 DEF Safe

\* The tool takes effect at a place where there was none, with the row's own payload.
LEMMA RunToolSafe ==
  ASSUME IInv, NEW w \in Workers, RunTool(w)
  PROVE  Safe'
<1> DEFINE a == work[w].id
<1>1. a \in ApprovalIds
  BY DEF IInv, Typed, Serving, Sound, RunTool
<1>2. /\ Informed(w)
      /\ work[w].pc \in Executing
      /\ rows[a].status = "executing"
      /\ work[w].snapshot = rows[a].payload
      /\ applied[a] = << >>
  BY DEF IInv, Informed, Executing, RunTool
<1>3. PICK o \in {"success", "refused"} :
        /\ work' = [work EXCEPT ![w].pc = "record", ![w].outcome = o]
        /\ \/ o = "refused" /\ UNCHANGED applied
           \/ /\ o = "success" \/ LostAcks
              /\ applied' = [applied EXCEPT ![a] = Append(@, work[w].snapshot)]
  BY DEF RunTool
<1>4. \A v \in Workers :
        work'[v] = IF v = w THEN [work[w] EXCEPT !.pc = "record", !.outcome = o] ELSE work[v]
  BY <1>3 DEF IInv, Typed, TypeOK
<1>5. /\ work'[w].pc = "record" /\ work'[w].outcome = o
      /\ work'[w].id = a /\ work'[w].snapshot = rows[a].payload
  BY <1>2, <1>4 DEF IInv, Typed, TypeOK, Job
<1>6. \A b \in ApprovalIds : b # a => applied'[b] = applied[b]
  BY <1>1, <1>3 DEF IInv, Typed, TypeOK
<1>7. \/ o = "refused" /\ applied'[a] = << >>
      \/ (o = "success" \/ LostAcks) /\ applied'[a] = <<rows[a].payload>>
  <2>1. Append(<< >>, rows[a].payload) = <<rows[a].payload>>
    OBVIOUS
  <2>. QED
    BY <2>1, <1>1, <1>2, <1>3 DEF IInv, Typed, TypeOK
<1>8. UNCHANGED rows
  BY DEF RunTool
<1>9. \A v \in Workers : v # w /\ work[v].pc \in Executing => work[v].id # a
  BY <1>2 DEF IInv, Exclusive
<1>10. \A v \in Workers : Informed(v)'
  <2> SUFFICES ASSUME NEW v \in Workers PROVE Informed(v)'
    OBVIOUS
  <2>1. CASE v = w
    <3>1. <<rows[a].payload>> # << >>
      OBVIOUS
    <3>2. \/ o = "success" /\ applied'[a] # << >>
          \/ o = "refused" /\ (applied'[a] = << >> \/ LostAcks)
      BY <1>7, <3>1
    <3>. QED
      BY <2>1, <3>2, <1>2, <1>5, <1>8 DEF Informed, Executing, Absent
  <2>2. CASE v # w
    <3>1. Informed(v) /\ Sound(work[v])
      BY DEF IInv, Typed, Serving
    <3>. QED
      BY <2>2, <3>1, <1>4, <1>6, <1>8, <1>9 DEF Informed, Executing, Sound
  <2>. QED
    BY <2>1, <2>2
<1>11. Exclusive'
  BY <1>2, <1>4, <1>5 DEF IInv, Exclusive
<1>12. Settled'
  <2>1. \A b \in ApprovalIds :
           applied[b] \in {<< >>, <<rows[b].payload>>} => applied'[b] \in {<< >>, <<rows[b].payload>>}
    BY <1>6, <1>7
  <2>. QED
    BY <2>1, <1>2, <1>6, <1>7, <1>8
       DEF IInv, Settled, EffectOnce, EffectNeedsClaim, OutcomeTruthful
<1>. QED
  BY <1>10, <1>11, <1>12 DEF Safe

\* A step of w that stays in the protected section and touches neither table nor effects.
LEMMA TraceStartSafe ==
  ASSUME IInv, NEW w \in Workers, TraceStart(w)
  PROVE  Safe'
<1>1. /\ work[w].pc = "trace_start"
      /\ UNCHANGED <<rows, applied>>
  BY DEF TraceStart
<1>2. /\ work'[w].pc = "run_tool"
      /\ work'[w].id = work[w].id
      /\ work'[w].snapshot = work[w].snapshot
  BY DEF IInv, Typed, TypeOK, Job, TraceStart, Goto
<1>3. \A v \in Workers : v # w => work'[v] = work[v]
  BY DEF IInv, Typed, TypeOK, TraceStart, Goto
<1>4. \A v \in Workers : Informed(v)'
  BY <1>1, <1>2, <1>3 DEF IInv, Informed, Executing
<1>5. Exclusive'
  BY <1>1, <1>2, <1>3 DEF IInv, Exclusive, Executing
<1>6. Settled'
  BY <1>1 DEF IInv, Settled, EffectOnce, EffectNeedsClaim, OutcomeTruthful
<1>. QED
  BY <1>4, <1>5, <1>6 DEF Safe

\* A new row has no effect yet and nobody executes it.
LEMMA CreateSafe ==
  ASSUME IInv, NEW a \in ApprovalIds, NEW p \in Payloads, CreatePendingApproval(a, p)
  PROVE  Safe'
<1>1. /\ rows[a].status = Absent
      /\ \A b \in ApprovalIds : rows'[b] = IF b = a THEN PendingRow(p) ELSE rows[b]
      /\ UNCHANGED <<work, applied>>
  BY DEF IInv, Typed, TypeOK, CreatePendingApproval
<1>2. PendingRow(p).status = "pending"
  BY DEF PendingRow, NoRow
<1>3. applied[a] = << >>
  BY <1>1 DEF IInv, Settled, EffectOnce, EffectNeedsClaim, Absent
<1>4. \A v \in Workers : Informed(v)'
  <2> SUFFICES ASSUME NEW v \in Workers PROVE Informed(v)'
    OBVIOUS
  <2>1. Informed(v) /\ Sound(work[v])
    BY DEF IInv, Typed, Serving
  <2>. QED
    BY <2>1, <1>1 DEF Informed, Executing, Absent, Sound
<1>5. Exclusive'
  BY <1>1 DEF IInv, Exclusive
<1>6. Settled'
  BY <1>1, <1>2, <1>3 DEF IInv, Settled, EffectOnce, EffectNeedsClaim, OutcomeTruthful
<1>. QED
  BY <1>4, <1>5, <1>6 DEF Safe

\* What an answered job, or an idle one, looks like.
LEMMA AnswerQuiet ==
  ASSUME NEW w \in Workers, NEW a \in ApprovalIds, NEW code \in Codes, NEW seen \in Seen,
         Answer(w, a, code, seen)
  PROVE  \E j \in Job : j.pc = "respond" /\ work' = [work EXCEPT ![w] = j]
<1> DEFINE j == [NoJob EXCEPT !.pc = "respond", !.id = a, !.code = code, !.seen = seen]
<1>1. j \in Job /\ j.pc = "respond"
  BY DEF NoJob, Job, Points, Codes, Absent, Seen
<1>. QED
  BY <1>1 DEF Answer

\* Admitting a request, decided or about to claim, disturbs nobody.
LEMMA ArriveSafe ==
  ASSUME IInv, NEW w \in Workers, NEW a \in ApprovalIds, Arrive(w, a)
  PROVE  Safe'
<1>1. rows[a].status \in Seen /\ rows[a].payload \in Payloads \cup {NoPayload}
  BY DEF IInv, Typed, TypeOK, ApprovalRow, Seen
<1>2. UNCHANGED applied
  BY DEF Arrive, Decide, DecideFails, ReadForExecution
<1>3. CASE \E new \in {"approved", "rejected"} : Decide(w, a, new) \/ DecideFails(w, a, new)
  <2>1. \/ UNCHANGED rows
        \/ \E new \in {"approved", "rejected"} :
               CanDecide(a) /\ rows' = [rows EXCEPT ![a] = Decided(a, new)]
    BY <1>3 DEF Decide, DecideFails
  <2>2. \E j \in Job : j.pc \in {"respond", "trace_decision"} /\ work' = [work EXCEPT ![w] = j]
    <3>1. PICK new \in {"approved", "rejected"} : Decide(w, a, new) \/ DecideFails(w, a, new)
      BY <1>3
    <3> DEFINE j == [NoJob EXCEPT !.pc = "trace_decision", !.id = a, !.seen = new]
    <3>2. j \in Job /\ j.pc = "trace_decision"
      BY DEF NoJob, Job, Points, Codes, Absent, ALL_STATUSES
    <3>3. \/ work' = [work EXCEPT ![w] = j]
          \/ Answer(w, a, "404", Absent)
          \/ Answer(w, a, "409", rows[a].status)
          \/ Answer(w, a, "503", Absent)
      BY <3>1 DEF Decide, DecideFails, Unavailable
    <3>. QED
      BY <3>2, <3>3, <1>1, AnswerQuiet DEF Codes, Seen
  <2>. QED
    BY <2>1, <2>2, <1>2, QuietSafe DEF Executing
<1>4. CASE ReadForExecution(w, a)
  <2> DEFINE j == [NoJob EXCEPT !.pc = "claim", !.id = a, !.snapshot = rows[a].payload]
  <2>1. /\ j \in Job
        /\ j.pc = "claim" /\ j.id = a /\ j.snapshot = rows[a].payload
    BY <1>1 DEF NoJob, Job, Points, Codes, Absent
  <2>2. CASE rows[a].status # Absent /\ work' = [work EXCEPT ![w] = j]
    BY <2>1, <2>2, <1>2, <1>4, QuietSafe DEF Executing, ReadForExecution
  <2>3. CASE ~(rows[a].status # Absent /\ work' = [work EXCEPT ![w] = j])
    <3>1. \E code \in Codes : Answer(w, a, code, Absent)
      BY <2>3, <1>4 DEF ReadForExecution, Unavailable, Codes
    <3>2. \E k \in Job : k.pc = "respond" /\ work' = [work EXCEPT ![w] = k]
      BY <3>1, AnswerQuiet DEF Seen
    <3>. QED
      BY <3>2, <1>2, <1>4, QuietSafe DEF Executing, ReadForExecution
  <2>. QED
    BY <2>2, <2>3
<1>. QED
  BY <1>3, <1>4 DEF Arrive

\* No step of a request under way, its death included, breaks the invariant.
LEMMA ProgressSafe ==
  ASSUME IInv, NEW w \in Workers, Progress(w) \/ Crash(w)
  PROVE  Safe'
<1> DEFINE a == work[w].id
<1>1. a \in ApprovalIds
  BY DEF IInv, Typed, Serving, Sound, Progress, Crash, TraceDecision, Claim, ClaimFails,
         Conflict, TraceStart, RunTool, Record, RecordFails, TraceFinish, Reread, Respond
<1>2. work[w] \in Job /\ rows[a].status \in Seen
  BY <1>1 DEF IInv, Typed, TypeOK, ApprovalRow, Seen
<1>3. ASSUME NEW point \in Points
      PROVE  [work[w] EXCEPT !.pc = point] \in Job
  BY <1>2 DEF Job
<1> DEFINE Leaves == \E j \in Job : /\ j.pc \notin Executing \cup {"claim"}
                                    /\ work' = [work EXCEPT ![w] = j]
<1>4. ASSUME NEW code \in Codes, NEW seen \in Seen, Answer(w, a, code, seen)
      PROVE  Leaves
  BY <1>1, <1>4, AnswerQuiet DEF Executing
<1>5. ASSUME NEW point \in Points \ (Executing \cup {"claim"}), Goto(w, point)
      PROVE  Leaves
  <2>1. [work[w] EXCEPT !.pc = point].pc = point
    BY <1>2 DEF Job
  <2>. QED
    BY <2>1, <1>3, <1>5 DEF Goto
<1>6. CASE UNCHANGED <<rows, applied>> /\ Leaves
  BY <1>1, <1>6, QuietSafe
<1>7. CASE TraceDecision(w) \/ Conflict(w) \/ TraceFinish(w) \/ Reread(w)
  <2>1. Leaves
    BY <1>2, <1>4, <1>5, <1>7
       DEF TraceDecision, Conflict, TraceFinish, Reread, Unavailable, Codes, Seen, Job,
           Points, Executing
  <2>. QED
    BY <2>1, <1>6, <1>7 DEF TraceDecision, Conflict, TraceFinish, Reread
<1>8. CASE Respond(w) \/ Crash(w)
  <2>1. Leaves
    BY <1>8, NoJobType DEF Respond, Crash, NoJob, Executing
  <2>. QED
    BY <2>1, <1>6, <1>8 DEF Respond, Crash
<1>9. CASE Claim(w)
  <2>1. CASE CanClaim(a) /\ rows' = [rows EXCEPT ![a] = Claimed(a)] /\ Goto(w, "trace_start")
    <3> DEFINE j == [work[w] EXCEPT !.pc = "trace_start"]
    <3>1. j \in Job /\ j.pc = "trace_start" /\ j.id = a /\ j.snapshot = work[w].snapshot
      BY <1>2 DEF Job, Points
    <3>. QED
      BY <2>1, <3>1, <1>9, ClaimSafe DEF Claim, Goto
  <2>2. CASE Goto(w, "conflict") /\ UNCHANGED rows
    BY <2>2, <1>5, <1>6, <1>9 DEF Claim, Points, Executing
  <2>. QED
    BY <2>1, <2>2, <1>9 DEF Claim
<1>10. CASE ClaimFails(w)
  <2>1. Answer(w, a, "503", Absent)
    BY <1>10 DEF ClaimFails, Unavailable
  <2>2. PICK j \in Job : j.pc = "respond" /\ work' = [work EXCEPT ![w] = j]
    BY <2>1, <1>1, AnswerQuiet DEF Codes, Seen
  <2>3. Leaves
    BY <2>2 DEF Executing
  <2>. QED
    BY <2>2, <2>3, <1>6, <1>10, ClaimSafe DEF ClaimFails
<1>11. CASE Record(w)
  <2>1. Goto(w, "trace_finish")
    BY <1>11 DEF Record
  <2>2. Leaves
    BY <2>1, <1>5 DEF Points, Executing
  <2>. QED
    BY <2>2, <1>6, <1>11, RecordSafe DEF Record
<1>12. CASE RecordFails(w)
  <2>1. Answer(w, a, "503", Absent)
    BY <1>12 DEF RecordFails, Unavailable
  <2>2. Leaves
    BY <2>1, <1>4 DEF Codes, Seen
  <2>. QED
    BY <2>2, <1>6, <1>12, RecordSafe DEF RecordFails
<1>. QED
  BY <1>7, <1>8, <1>9, <1>10, <1>11, <1>12, TraceStartSafe, RunToolSafe DEF Progress

\* The invariant holds of the empty table.
LEMMA IInvInit == Init => IInv
<1> SUFFICES ASSUME Init PROVE IInv
  OBVIOUS
<1>1. \A w \in Workers : work[w].pc = "idle"
  BY DEF Init, NoJob
<1>2. \A a \in ApprovalIds : rows[a].status = Absent /\ applied[a] = << >>
  BY DEF Init, NoRow
<1>. QED
  BY <1>1, <1>2, TypedInit
     DEF IInv, Informed, Exclusive, Executing, Settled, EffectOnce, EffectNeedsClaim,
         OutcomeTruthful, Absent

\* The invariant is inductive.
LEMMA IInvStep == IInv /\ [Next]_vars => IInv'
<1> SUFFICES ASSUME IInv, [Next]_vars PROVE IInv'
  OBVIOUS
<1>1. Typed'
  BY TypedStep DEF IInv
<1>2. CASE UNCHANGED vars
  BY <1>1, <1>2
     DEF IInv, vars, Informed, Exclusive, Settled, EffectOnce, EffectNeedsClaim,
         OutcomeTruthful
<1>3. CASE Next
  <2>1. Safe'
    BY <1>3, CreateSafe, ArriveSafe, ProgressSafe DEF Next
  <2>. QED
    BY <2>1, <1>1 DEF IInv, Safe
<1>. QED
  BY <1>2, <1>3

\* So it holds of every reachable state.
LEMMA Inductive == Spec => []IInv
  BY IInvInit, IInvStep, PTL DEF Spec

\* However many requests race to execute one approval, the change it stands for is
\* committed at most once, and with the payload the approval was created with.
THEOREM EffectAtMostOnce == Spec => []EffectOnce
<1>1. IInv => EffectOnce
  BY DEF IInv, Settled
<1>. QED
  BY <1>1, Inductive, PTL

\* "executed" and "failed" tell the truth about the business change.
THEOREM OutcomeIsTruthful == Spec => []OutcomeTruthful
<1>1. IInv => OutcomeTruthful
  BY DEF IInv, Settled
<1>. QED
  BY <1>1, Inductive, PTL

\* The guarded claim admits one executor, which owns the status until it records.
THEOREM ClaimIsExclusive == Spec => []SoleClaimer
<1>1. IInv => SoleClaimer
  BY DEF IInv, Informed, Exclusive, SoleClaimer, Executing
<1>. QED
  BY <1>1, Inductive, PTL

--------------------------------------------------------------------------------
\* The steps of the table, one by one: what every transaction may do to a row.

\* The only ways a row is ever written.
RowStep(a) ==
    \/ rows[a].status = Absent
       /\ \E p \in Payloads : rows' = [rows EXCEPT ![a] = PendingRow(p)]
    \/ CanDecide(a)
       /\ \E new \in {"approved", "rejected"} : rows' = [rows EXCEPT ![a] = Decided(a, new)]
    \/ CanClaim(a) /\ rows' = [rows EXCEPT ![a] = Claimed(a)]
    \/ /\ rows[a].status = "executing"
       /\ \E outcome \in {"success", "refused"} : rows' = [rows EXCEPT ![a] = Recorded(a, outcome)]

\* Every step of the component writes at most one row, in one of the ways above.
LEMMA RowSteps ==
  ASSUME IInv, Next
  PROVE  UNCHANGED rows \/ \E a \in ApprovalIds : RowStep(a)
<1>1. CASE \E a \in ApprovalIds, p \in Payloads : CreatePendingApproval(a, p)
  BY <1>1 DEF CreatePendingApproval, RowStep
<1>2. CASE \E w \in Workers, a \in ApprovalIds : Arrive(w, a)
  BY <1>2 DEF Arrive, Decide, DecideFails, ReadForExecution, RowStep
<1>3. ASSUME NEW w \in Workers, Progress(w) \/ Crash(w)
      PROVE  UNCHANGED rows \/ \E a \in ApprovalIds : RowStep(a)
  <2>1. CASE Claim(w) \/ ClaimFails(w)
    <3>1. work[w].id \in ApprovalIds
      BY <2>1 DEF IInv, Typed, Serving, Sound, Claim, ClaimFails
    <3>. QED
      BY <2>1, <3>1 DEF Claim, ClaimFails, RowStep
  <2>2. CASE Record(w) \/ RecordFails(w)
    <3>1. work[w].id \in ApprovalIds /\ work[w].outcome \in {"success", "refused"}
      BY <2>2 DEF IInv, Typed, Serving, Sound, Informed, Record, RecordFails
    <3>. QED
      BY <2>2, <3>1 DEF Record, RecordFails, RowStep
  <2>3. CASE ~(Claim(w) \/ ClaimFails(w) \/ Record(w) \/ RecordFails(w))
    BY <1>3, <2>3
       DEF Progress, Crash, TraceDecision, Conflict, TraceStart, RunTool, TraceFinish,
           Reread, Respond
  <2>. QED
    BY <2>1, <2>2, <2>3
<1>. QED
  BY <1>1, <1>2, <1>3 DEF Next

\* A step moves a row's status along the transition table, if at all.
LEMMA Legal ==
  ASSUME IInv, [Next]_vars, NEW b \in ApprovalIds
  PROVE  LegalStep(b)
<1>1. CASE UNCHANGED rows
  BY <1>1 DEF LegalStep
<1>2. ASSUME NEW a \in ApprovalIds, RowStep(a) PROVE LegalStep(b)
  <2>1. CASE b # a
    BY <1>2, <2>1 DEF IInv, Typed, TypeOK, RowStep, LegalStep
  <2>2. CASE b = a
    <3>1. \A r : rows' = [rows EXCEPT ![a] = r] => rows'[a] = r
      BY DEF IInv, Typed, TypeOK
    <3>2. CASE rows[a].status = Absent
      <4>1. PICK p \in Payloads : rows' = [rows EXCEPT ![a] = PendingRow(p)]
        BY <1>2, <3>2 DEF RowStep, CanDecide, CanClaim, Absent
      <4>2. rows'[a].status = "pending"
        BY <3>1, <4>1 DEF PendingRow, NoRow
      <4>. QED
        BY <2>2, <3>2, <4>2 DEF LegalStep
    <3>3. CASE rows[a].status # Absent
      <4>1. rows'[a].payload = rows[a].payload
        <5>1. /\ \A new : Decided(a, new).payload = rows[a].payload
              /\ Claimed(a).payload = rows[a].payload
              /\ \A outcome : Recorded(a, outcome).payload = rows[a].payload
          BY RowFields DEF IInv, Typed
        <5>. QED
          BY <1>2, <3>1, <3>3, <5>1 DEF RowStep
      <4>2. <<rows[a].status, rows'[a].status>> \in ALLOWED_TRANSITIONS
        <5>1. /\ \A new : Decided(a, new).status = new
              /\ Claimed(a).status = "executing"
              /\ \A outcome : Recorded(a, outcome).status \in {"executed", "failed"}
          BY RowFields DEF IInv, Typed
        <5>. QED
          BY <1>2, <3>1, <3>3, <5>1 DEF RowStep, CanDecide, CanClaim, ALLOWED_TRANSITIONS
      <4>. QED
        BY <2>2, <4>1, <4>2 DEF LegalStep
    <3>. QED
      BY <3>2, <3>3
  <2>. QED
    BY <2>1, <2>2
<1>. QED
  BY <1>1, <1>2, RowSteps DEF vars

\* Rows only move along the transition table, and a payload is never rewritten.
THEOREM TransitionsAreLegal == Spec => LegalSteps
<1>1. IInv /\ [Next]_vars => [\A a \in ApprovalIds : LegalStep(a)]_vars
  BY Legal
<1>. QED
  BY <1>1, Inductive, PTL DEF Spec, LegalSteps

\* A row always has the columns its status promises, and no others.
THEOREM RowsAreCoherent == Spec => []RowCoherent
<1>1. Init => RowCoherent
  BY DEF Init, NoRow, RowCoherent, Coherent, Absent
<1>2. IInv /\ RowCoherent /\ [Next]_vars => RowCoherent'
  <2> SUFFICES ASSUME IInv, RowCoherent, [Next]_vars PROVE RowCoherent'
    OBVIOUS
  <2>1. CASE UNCHANGED rows
    BY <2>1 DEF RowCoherent
  <2>2. ASSUME NEW a \in ApprovalIds, RowStep(a) PROVE RowCoherent'
    <3>1. rows[a] \in ApprovalRow /\ Coherent(rows[a])
      BY DEF IInv, Typed, TypeOK, RowCoherent
    <3>2. ASSUME NEW p \in Payloads
          PROVE  Coherent(PendingRow(p))
      BY DEF Coherent, PendingRow, NoRow, Absent
    <3>3. ASSUME NEW new \in {"approved", "rejected"}, CanDecide(a)
          PROVE  Coherent(Decided(a, new))
      BY <3>1, <3>3 DEF Coherent, Decided, CanDecide, ApprovalRow, Absent
    <3>4. ASSUME CanClaim(a)
          PROVE  Coherent(Claimed(a))
      BY <3>1, <3>4 DEF Coherent, Claimed, CanClaim, ApprovalRow, Absent
    <3>5. ASSUME NEW outcome \in {"success", "refused"}, rows[a].status = "executing"
          PROVE  Coherent(Recorded(a, outcome))
      BY <3>1, <3>5 DEF Coherent, Recorded, ApprovalRow, Absent
    <3>6. \E r : Coherent(r) /\ rows' = [rows EXCEPT ![a] = r]
      BY <2>2, <3>2, <3>3, <3>4, <3>5 DEF RowStep
    <3>. QED
      BY <3>6 DEF RowCoherent, IInv, Typed, TypeOK
  <2>. QED
    BY <2>1, <2>2, RowSteps DEF vars
<1>. QED
  BY <1>1, <1>2, Inductive, PTL DEF Spec

--------------------------------------------------------------------------------
\* What is answered, and what is traced, against the row it is about.

\* What a request saw of its approval still stands.
Stands(seen, now) ==
    /\ seen = "approved" => now \in ALL_STATUSES \ {"pending", "rejected"}
    /\ seen = "rejected" => now = "rejected"
    /\ seen \notin {"approved", "rejected"} => seen \in {"executed", "failed"} /\ now = seen

\* What a request that decided or recorded knows of the row until it has answered.
Truthful(w) ==
    LET j == work[w]
        now == rows[j.id].status
    IN  /\ j.code = "200" => j.pc = "respond" /\ Stands(j.seen, now)
        /\ j.pc = "trace_decision" =>
              j.seen \in {"approved", "rejected"} /\ Stands(j.seen, now)
        /\ j.pc = "trace_finish" =>
              now = IF j.outcome = "success" THEN "executed" ELSE "failed"
        /\ j.pc = "reread" => now \in {"executed", "failed"}

\* A legal step of a row leaves true what was seen of it, recorded in it or traced of it.
LEMMA StandsOn ==
  ASSUME IInv, NEW a \in ApprovalIds, LegalStep(a)
  PROVE  /\ \A seen : Stands(seen, rows[a].status) => Stands(seen, rows'[a].status)
         /\ rows[a].status \in {"executed", "failed", "rejected"} =>
               rows'[a].status = rows[a].status
         /\ rows[a].status \in {"approved", "executing", "executed", "failed"} =>
               rows'[a].status \in {"approved", "executing", "executed", "failed"}
         /\ rows[a].status \in {"executing", "executed", "failed"} =>
               rows'[a].status \in {"executing", "executed", "failed"}
  BY DEF LegalStep, ALLOWED_TRANSITIONS, Stands, ALL_STATUSES, Absent

\* So requests that do not step stay truthful.
LEMMA OthersTruthful ==
  ASSUME IInv, [Next]_vars, NEW v \in Workers, Truthful(v), work'[v] = work[v]
  PROVE  Truthful(v)'
<1>1. Sound(work[v]) /\ work[v] \in Job
  BY DEF IInv, Typed, TypeOK, Serving
<1>2. CASE work[v].pc = "idle"
  BY <1>2 DEF Truthful
<1>3. CASE work[v].pc # "idle"
  <2>1. work[v].id \in ApprovalIds
    BY <1>1, <1>3 DEF Sound
  <2>2. LegalStep(work[v].id)
    BY <2>1, Legal
  <2>. QED
    BY <2>1, <2>2, StandsOn DEF Truthful
<1>. QED
  BY <1>2, <1>3

\* The job a request is left with once it is answered.
LEMMA TruthfulAnswer ==
  ASSUME IInv, NEW w \in Workers, NEW a \in ApprovalIds, NEW code \in Codes, NEW seen \in Seen,
         Answer(w, a, code, seen), code = "200" => Stands(seen, rows'[a].status)
  PROVE  Truthful(w)'
<1>1. /\ work'[w].pc = "respond" /\ work'[w].id = a
      /\ work'[w].code = code /\ work'[w].seen = seen
  BY DEF IInv, Typed, TypeOK, Answer, NoJob
<1>. QED
  BY <1>1 DEF Truthful

\* The job of a request that goes on.
LEMMA GoneTo ==
  ASSUME IInv, NEW w \in Workers, NEW point \in Points, Goto(w, point)
  PROVE  /\ work'[w].pc = point /\ work'[w].id = work[w].id
         /\ work'[w].code = work[w].code /\ work'[w].outcome = work[w].outcome
  BY DEF IInv, Typed, TypeOK, Job, Goto

\* A request is admitted knowing only what its own transaction told it.
LEMMA ArriveTruthful ==
  ASSUME IInv, NEW w \in Workers, NEW a \in ApprovalIds, Arrive(w, a)
  PROVE  Truthful(w)'
<1>1. rows[a].status \in Seen
  BY DEF IInv, Typed, TypeOK, ApprovalRow, Seen
<1>2. ASSUME NEW new \in {"approved", "rejected"}, CanDecide(a),
             rows' = [rows EXCEPT ![a] = Decided(a, new)],
             work' = [work EXCEPT ![w] = [NoJob EXCEPT !.pc = "trace_decision", !.id = a,
                                                       !.seen = new]]
      PROVE  Truthful(w)'
  <2>1. /\ work'[w].pc = "trace_decision" /\ work'[w].id = a
        /\ work'[w].code = "none" /\ work'[w].seen = new
    BY <1>2 DEF IInv, Typed, TypeOK, NoJob
  <2>2. rows'[a].status = new
    BY <1>2, RowFields DEF IInv, Typed, TypeOK
  <2>. QED
    BY <2>1, <2>2 DEF Truthful, Stands, ALL_STATUSES
<1>3. ASSUME NEW code \in Codes \ {"200"}, NEW seen \in Seen, Answer(w, a, code, seen)
      PROVE  Truthful(w)'
  BY <1>3, TruthfulAnswer
<1>4. ASSUME work' = [work EXCEPT ![w] = [NoJob EXCEPT !.pc = "claim", !.id = a,
                                                       !.snapshot = rows[a].payload]]
      PROVE  Truthful(w)'
  <2>1. work'[w].pc = "claim" /\ work'[w].code = "none"
    BY <1>4 DEF IInv, Typed, TypeOK, NoJob
  <2>. QED
    BY <2>1 DEF Truthful
<1>5. {"404", "409", "422", "503"} \subseteq Codes \ {"200"} /\ Absent \in Seen
  BY DEF Codes, Seen
<1>6. CASE \E new \in {"approved", "rejected"} : Decide(w, a, new) \/ DecideFails(w, a, new)
  BY <1>1, <1>2, <1>3, <1>5, <1>6 DEF Decide, DecideFails, Unavailable
<1>7. CASE ReadForExecution(w, a)
  BY <1>1, <1>3, <1>4, <1>5, <1>7 DEF ReadForExecution, Unavailable
<1>. QED
  BY <1>6, <1>7 DEF Arrive

\* A request under way learns the truth from its own transactions: the status it decided,
\* the outcome it recorded, the status it read last.
LEMMA ProgressTruthful ==
  ASSUME IInv, NEW w \in Workers, Truthful(w), Progress(w) \/ Crash(w)
  PROVE  Truthful(w)'
<1> DEFINE a == work[w].id
<1>1. work[w].pc # "idle" /\ a \in ApprovalIds
  BY DEF IInv, Typed, Serving, Sound, Progress, Crash, TraceDecision, Claim, ClaimFails,
         Conflict, TraceStart, RunTool, Record, RecordFails, TraceFinish, Reread, Respond
<1>2. work[w] \in Job /\ rows[a].status \in Seen /\ work[w].seen \in Seen
  BY <1>1 DEF IInv, Typed, TypeOK, ApprovalRow, Seen, Job
<1>3. {"404", "409", "422", "503"} \subseteq Codes \ {"200"} /\ "200" \in Codes /\ Absent \in Seen
  BY DEF Codes, Seen
<1>4. ASSUME Unavailable(w, a) PROVE Truthful(w)'
  BY <1>1, <1>3, <1>4, TruthfulAnswer DEF Unavailable
<1>5. CASE TraceDecision(w)
  <2>1. /\ Answer(w, a, "200", work[w].seen)
        /\ Stands(work[w].seen, rows'[a].status)
    BY <1>5 DEF TraceDecision, Truthful
  <2>. QED
    BY <2>1, <1>1, <1>2, <1>3, TruthfulAnswer
<1>6. CASE Claim(w) \/ TraceStart(w)
  <2>1. work[w].pc \in {"claim", "trace_start"} /\ work[w].code # "200"
    BY <1>6 DEF Claim, TraceStart, Truthful
  <2>2. work'[w].pc \in {"trace_start", "conflict", "run_tool"} /\ work'[w].code = work[w].code
    <3>1. CASE \E point \in {"trace_start", "conflict", "run_tool"} : Goto(w, point)
      BY <3>1, GoneTo DEF Points
    <3>2. CASE work' = [work EXCEPT ![w].pc = "run_tool", ![w].traced = TRUE]
      BY <1>2, <3>2 DEF IInv, Typed, TypeOK, Job
    <3>. QED
      BY <1>6, <3>1, <3>2 DEF Claim, TraceStart
  <2>. QED
    BY <2>1, <2>2 DEF Truthful
<1>7. CASE Conflict(w)
  BY <1>1, <1>2, <1>3, <1>4, <1>7, TruthfulAnswer DEF Conflict
<1>8. CASE RunTool(w)
  <2>1. work[w].code # "200"
    BY <1>8 DEF RunTool, Truthful
  <2>2. work'[w].pc = "record" /\ work'[w].code = work[w].code
    BY <1>2, <1>8 DEF IInv, Typed, TypeOK, Job, RunTool
  <2>. QED
    BY <2>1, <2>2 DEF Truthful
<1>9. CASE Record(w)
  <2>1. /\ rows[a].status = "executing" /\ Goto(w, "trace_finish") /\ work[w].code # "200"
        /\ rows' = [rows EXCEPT ![a] = Recorded(a, work[w].outcome)]
    BY <1>9 DEF IInv, Informed, Executing, Record, Truthful
  <2>2. rows'[a].status = IF work[w].outcome = "success" THEN "executed" ELSE "failed"
    <3>1. TypeOK /\ rows'[a] = Recorded(a, work[w].outcome)
      BY <2>1, <1>1 DEF IInv, Typed, TypeOK
    <3>. QED
      BY <3>1, <1>1, RowFields
  <2>. QED
    BY <2>1, <2>2, GoneTo DEF Truthful, Points
<1>10. CASE TraceFinish(w)
  <2>1. /\ rows'[a].status \in {"executed", "failed"} /\ Goto(w, "reread")
        /\ work[w].code # "200"
    BY <1>10 DEF TraceFinish, Truthful
  <2>. QED
    BY <2>1, GoneTo DEF Truthful, Points
<1>11. CASE Reread(w)
  <2>1. rows[a].status \in {"executed", "failed"} /\ UNCHANGED rows
    BY <1>11 DEF Reread, Truthful
  <2>2. Stands(rows[a].status, rows'[a].status)
    BY <2>1 DEF Stands
  <2>. QED
    BY <2>1, <2>2, <1>1, <1>2, <1>3, <1>4, <1>11, TruthfulAnswer DEF Reread
<1>12. CASE Respond(w) \/ Crash(w)
  <2>1. work'[w].pc = "idle" /\ work'[w].code = "none"
    BY <1>12 DEF IInv, Typed, TypeOK, Respond, Crash, NoJob
  <2>. QED
    BY <2>1 DEF Truthful
<1>. QED
  BY <1>4, <1>5, <1>6, <1>7, <1>8, <1>9, <1>10, <1>11, <1>12
     DEF Progress, ClaimFails, RecordFails

\* Only the worker that steps has another job afterwards.
LEMMA OneWorker ==
  ASSUME IInv, NEW w \in Workers, NEW v \in Workers, v # w,
         Progress(w) \/ Crash(w) \/ \E a \in ApprovalIds : Arrive(w, a)
  PROVE  work'[v] = work[v]
  BY DEF IInv, Typed, TypeOK, Progress, Crash, Arrive, Decide, DecideFails, ReadForExecution,
         TraceDecision, Claim, ClaimFails, Conflict, TraceStart, RunTool, Record, RecordFails,
         TraceFinish, Reread, Respond, Answer, Unavailable, Goto

\* Every request stays truthful.
LEMMA TruthfulStep ==
  ASSUME IInv, \A w \in Workers : Truthful(w), [Next]_vars
  PROVE  \A w \in Workers : Truthful(w)'
<1>1. CASE UNCHANGED work
  BY <1>1, OthersTruthful
<1>2. ASSUME NEW w \in Workers,
             Progress(w) \/ Crash(w) \/ \E a \in ApprovalIds : Arrive(w, a)
      PROVE  \A v \in Workers : Truthful(v)'
  <2>1. Truthful(w)'
    BY <1>2, ArriveTruthful, ProgressTruthful
  <2>2. \A v \in Workers : v # w => Truthful(v)'
    BY <1>2, OneWorker, OthersTruthful
  <2>. QED
    BY <2>1, <2>2
<1>. QED
  BY <1>1, <1>2 DEF Next, vars, CreatePendingApproval

\* A 200 names the decision taken or the outcome recorded, and nothing that happens to the
\* approval before the answer arrives makes it wrong.
THEOREM AnswersStand == Spec => []AnswersHold
<1>1. Init => \A w \in Workers : Truthful(w)
  BY DEF Init, NoJob, Truthful
<1>2. (\A w \in Workers : Truthful(w)) => AnswersHold
  BY DEF Truthful, Stands, AnswersHold
<1>3. IInv /\ (\A w \in Workers : Truthful(w)) /\ [Next]_vars => (\A w \in Workers : Truthful(w))'
  BY TruthfulStep
<1>. QED
  BY <1>1, <1>2, <1>3, Inductive, PTL DEF Spec

\* What the timeline of one approval may say when its row reads s.
Told(t, s) ==
    /\ "APPROVAL_REJECTED" \in t.events => s = "rejected"
    /\ "APPROVAL_APPROVED" \in t.events => s \notin {Absent, "pending", "rejected"}
    /\ "APPROVAL_EXECUTING" \in t.events => s \in {"executing", "executed", "failed"}
    /\ "APPROVAL_EXECUTED" \in t.events => s = "executed"
    /\ "APPROVAL_FAILED" \in t.events => s = "failed"
    /\ t.run = "completed" => "APPROVAL_EXECUTED" \in t.events
    /\ t.run = "failed" => "APPROVAL_FAILED" \in t.events

\* An event that is true when it is written, with the run left alone, opened, or closed
\* the way the event says.
LEMMA TellMore ==
  ASSUME NEW t \in Timeline, NEW s, Told(t, s), NEW e \in Events, NEW r \in RunStates,
         e = "APPROVAL_REJECTED" => s = "rejected",
         e = "APPROVAL_APPROVED" => s \notin {Absent, "pending", "rejected"},
         e = "APPROVAL_EXECUTING" => s \in {"executing", "executed", "failed"},
         e = "APPROVAL_EXECUTED" => s = "executed",
         e = "APPROVAL_FAILED" => s = "failed",
         \/ r = t.run \/ r = "running"
         \/ r = "completed" /\ e = "APPROVAL_EXECUTED"
         \/ r = "failed" /\ e = "APPROVAL_FAILED"
  PROVE  Told([t EXCEPT !.events = @ \cup {e}, !.run = r], s)
<1> DEFINE u == [t EXCEPT !.events = @ \cup {e}, !.run = r]
<1>1. u.events = t.events \cup {e} /\ u.run = r
  BY DEF Timeline
<1>. HIDE DEF u
<1>. QED
  BY <1>1 DEF Told

\* Nothing that happens to a row makes what was traced of it wrong.
LEMMA ToldOn ==
  ASSUME IInv, NEW a \in ApprovalIds, LegalStep(a), NEW t, Told(t, rows[a].status)
  PROVE  Told(t, rows'[a].status)
<1>1. rows[a].status \in Seen
  BY DEF IInv, Typed, TypeOK, ApprovalRow, Seen
<1>. QED
  BY <1>1 DEF Told, LegalStep, ALLOWED_TRANSITIONS, Absent, Seen, ALL_STATUSES

\* A trace write of a request that knows the truth, or part of it, keeps the timeline true.
LEMMA TraceKeeps ==
  ASSUME IInv, NEW w \in Workers, Truthful(w), NEW a \in ApprovalIds, a = work[w].id,
         TraceDecision(w) \/ TraceStart(w) \/ TraceFinish(w),
         Told(timeline[a], rows[a].status)
  PROVE  /\ Told(timeline'[a], rows[a].status)
         /\ \A b \in ApprovalIds : b # a => timeline'[b] = timeline[b]
<1> DEFINE t == timeline[a]
           s == rows[a].status
           Writes(e, r) == timeline' = [timeline EXCEPT ![a].events = @ \cup {e}, ![a].run = r]
<1>1. t \in Timeline /\ timeline \in [ApprovalIds -> Timeline] /\ work[w] \in Job
  BY DEF IInv, Typed, TypeOK
<1>2. t.run \in RunStates
  BY <1>1 DEF Timeline, RunStates
<1>3. ASSUME NEW e \in Events, NEW r \in RunStates, Writes(e, r)
      PROVE  /\ timeline'[a] = [t EXCEPT !.events = @ \cup {e}, !.run = r]
             /\ \A b \in ApprovalIds : b # a => timeline'[b] = timeline[b]
  BY <1>1, <1>3
<1>4. ASSUME NEW e, timeline' = [timeline EXCEPT ![a].events = @ \cup {e}]
      PROVE  Writes(e, t.run)
  <2>1. [t EXCEPT !.events = @ \cup {e}] = [t EXCEPT !.events = @ \cup {e}, !.run = t.run]
    BY <1>1 DEF Timeline
  <2>. QED
    BY <1>1, <1>4, <2>1
<1>5. CASE UNCHANGED timeline
  BY <1>5
<1>6. CASE TraceDecision(w) /\ timeline' # timeline
  <2>1. PICK e \in {"APPROVAL_APPROVED", "APPROVAL_REJECTED"} :
          /\ timeline' = [timeline EXCEPT ![a].events = @ \cup {e}]
          /\ e = "APPROVAL_APPROVED" <=> work[w].seen = "approved"
    BY <1>6 DEF TraceDecision
  <2>2. /\ work[w].seen \in {"approved", "rejected"} /\ Stands(work[w].seen, s)
        /\ e \in Events /\ Writes(e, t.run)
    BY <1>4, <1>6, <2>1 DEF TraceDecision, Truthful, Events
  <2>3. /\ e = "APPROVAL_REJECTED" => s = "rejected"
        /\ e = "APPROVAL_APPROVED" => s \notin {Absent, "pending", "rejected"}
    BY <2>1, <2>2 DEF Stands, ALL_STATUSES, Absent
  <2>4. Told([t EXCEPT !.events = @ \cup {e}, !.run = t.run], s)
    <3>1. t \in Timeline /\ Told(t, s) /\ t.run \in RunStates /\ e \in Events
      BY <1>1, <1>2, <2>2
    <3>2. e \notin {"APPROVAL_EXECUTING", "APPROVAL_EXECUTED", "APPROVAL_FAILED"}
      BY <2>1
    <3>. HIDE DEF t, s
    <3>. QED
      BY <2>3, <3>1, <3>2, TellMore
  <2>. QED
    BY <1>2, <1>3, <2>2, <2>4
<1>7. CASE TraceStart(w) /\ timeline' # timeline
  <2>1. s = "executing"
    BY <1>7 DEF IInv, Informed, Executing, TraceStart
  <2>2. CASE timeline' = [timeline EXCEPT ![a].run = "running"]
    <3>1. /\ timeline'[a] = [t EXCEPT !.run = "running"]
          /\ \A b \in ApprovalIds : b # a => timeline'[b] = timeline[b]
      BY <1>1, <2>2
    <3>2. timeline'[a].events = t.events /\ timeline'[a].run = "running"
      BY <1>1, <3>1 DEF Timeline
    <3>. QED
      BY <3>1, <3>2 DEF Told
  <2>3. CASE Writes("APPROVAL_EXECUTING", "running")
    <3>1. "APPROVAL_EXECUTING" \in Events /\ "running" \in RunStates
      BY DEF Events, RunStates
    <3>2. Told([t EXCEPT !.events = @ \cup {"APPROVAL_EXECUTING"}, !.run = "running"], s)
      <4>1. t \in Timeline /\ Told(t, s)
        BY <1>1
      <4>. HIDE DEF t, s
      <4>. QED
        BY <2>1, <3>1, <4>1, TellMore
    <3>. QED
      BY <1>3, <2>3, <3>1, <3>2
  <2>. QED
    BY <1>7, <2>2, <2>3 DEF TraceStart
<1>8. CASE TraceFinish(w) /\ timeline' # timeline
  <2> DEFINE o == work[w].outcome
             e == TerminalEvent(o)
             r == IF o = "success" THEN "completed" ELSE "failed"
  <2>1. /\ s = IF o = "success" THEN "executed" ELSE "failed"
        /\ e = IF o = "success" THEN "APPROVAL_EXECUTED" ELSE "APPROVAL_FAILED"
        /\ e \in Events /\ r \in RunStates
    BY <1>8 DEF Truthful, TraceFinish, TerminalEvent, Events, RunStates
  <2>2. Writes(e, r) \/ timeline' = [timeline EXCEPT ![a].events = @ \cup {e}]
    BY <1>8 DEF TraceFinish
  <2>3. \E q \in {r, t.run} : Writes(e, q)
    BY <1>4, <2>2
  <2>4. PICK q \in {r, t.run} : Writes(e, q)
    BY <2>3
  <2>5. q \in RunStates /\ (q = r \/ q = t.run)
    BY <1>2, <2>1
  <2>6. Told([t EXCEPT !.events = @ \cup {e}, !.run = q], s)
    <3>1. t \in Timeline /\ Told(t, s)
      BY <1>1
    <3>. HIDE DEF t, s, e
    <3>. QED
      BY <2>1, <2>5, <3>1, TellMore
  <2>. HIDE DEF e, r
  <2>. QED
    BY <1>3, <2>1, <2>4, <2>5, <2>6
<1>. QED
  BY <1>5, <1>6, <1>7, <1>8

\* Nothing else writes to the timeline.
LEMMA TimelineQuiet ==
  ASSUME [Next]_vars, ~\E w \in Workers : TraceDecision(w) \/ TraceStart(w) \/ TraceFinish(w)
  PROVE  UNCHANGED timeline
  BY DEF Next, vars, CreatePendingApproval, Arrive, Decide, DecideFails, ReadForExecution,
         Progress, Crash, Claim, ClaimFails, Conflict, RunTool, Record, RecordFails, Reread,
         Respond

\* The observability timeline of an approval never says what its row denies, whichever of
\* its writes fail, and however late they come.
THEOREM TimelineTellsTheTruth == Spec => []TimelineTruthful
<1> DEFINE K == (\A w \in Workers : Truthful(w)) /\ TimelineTruthful
<1>1. Init => K
  <2>1. Init => \A w \in Workers : Truthful(w)
    BY DEF Init, NoJob, Truthful
  <2>. QED
    BY <2>1 DEF Init, TimelineTruthful
<1>2. IInv /\ K /\ [Next]_vars => K'
  <2> SUFFICES ASSUME IInv, K, [Next]_vars PROVE K'
    OBVIOUS
  <2>1. \A a \in ApprovalIds : Told(timeline[a], rows[a].status)
    BY DEF TimelineTruthful, Told
  <2>2. ASSUME NEW a \in ApprovalIds PROVE Told(timeline'[a], rows[a].status)
    <3>1. CASE UNCHANGED timeline
      BY <2>1, <3>1
    <3>2. ASSUME NEW w \in Workers, TraceDecision(w) \/ TraceStart(w) \/ TraceFinish(w)
          PROVE  Told(timeline'[a], rows[a].status)
      <4>1. work[w].id \in ApprovalIds
        BY <3>2 DEF IInv, Typed, Serving, Sound, TraceDecision, TraceStart, TraceFinish
      <4>2. Truthful(w)
        OBVIOUS
      <4>. QED
        BY <2>1, <3>2, <4>1, <4>2, TraceKeeps
    <3>. QED
      BY <3>1, <3>2, TimelineQuiet
  <2>3. \A a \in ApprovalIds : Told(timeline'[a], rows'[a].status)
    <3>1. ASSUME NEW a \in ApprovalIds PROVE Told(timeline'[a], rows'[a].status)
      BY <2>2, Legal, ToldOn
    <3>. QED
      BY <3>1
  <2>4. TimelineTruthful'
    BY <2>3 DEF TimelineTruthful, Told
  <2>. QED
    BY <2>4, TruthfulStep
<1>. QED
  BY <1>1, <1>2, Inductive, PTL DEF Spec

--------------------------------------------------------------------------------
\* The refinement.

\* What the abstract specification sees of a state.
StatusOf == [a \in ApprovalIds |-> rows[a].status]
EffectsOf == [a \in ApprovalIds |-> Len(applied[a])]

\* An approval has taken effect zero times or once.
LEMMA EffectCounts ==
  ASSUME EffectOnce, NEW a \in ApprovalIds
  PROVE  /\ applied[a] = << >> => EffectsOf[a] = 0
         /\ applied[a] # << >> => EffectsOf[a] = 1
<1>1. Len(<<rows[a].payload>>) = 1 /\ Len(<< >>) = 0
  OBVIOUS
<1>. QED
  BY <1>1 DEF EffectOnce, EffectsOf

\* A transaction on the table is a step of the lifecycle.
LEMMA TransactionImplements ==
  ASSUME IInv, IInv', NEW a \in ApprovalIds, RowStep(a), UNCHANGED applied
  PROVE  Lifecycle!LifecycleNext
<1>1. UNCHANGED EffectsOf
  BY DEF EffectsOf
<1>3. StatusOf[a] = rows[a].status
  BY DEF StatusOf
<1>4. CASE rows[a].status = Absent /\ \E p \in Payloads : rows' = [rows EXCEPT ![a] = PendingRow(p)]
  <2>1. StatusOf' = [StatusOf EXCEPT ![a] = "pending"]
    <3>1. \A p \in Payloads : PendingRow(p).status = "pending"
      BY DEF PendingRow, NoRow
    <3>. QED
      BY <3>1, <1>4 DEF IInv, Typed, TypeOK, StatusOf
  <2>2. Lifecycle!Request(a)
    BY <2>1, <1>1, <1>3, <1>4 DEF Lifecycle!Request, Lifecycle!Absent, Absent, StatusOf, EffectsOf
  <2>. QED
    BY <2>2 DEF Lifecycle!LifecycleNext
<1>5. ASSUME NEW new \in {"approved", "rejected"}, CanDecide(a),
             rows' = [rows EXCEPT ![a] = Decided(a, new)]
      PROVE  Lifecycle!LifecycleNext
  <2>1. StatusOf' = [StatusOf EXCEPT ![a] = new]
    <3>1. Decided(a, new).status = new
      BY RowFields DEF IInv, Typed
    <3>. QED
      BY <3>1, <1>5 DEF IInv, Typed, TypeOK, StatusOf
  <2>2. Lifecycle!Move(a, new) /\ new \in Lifecycle!ALL_STATUSES
    BY <2>1, <1>1, <1>3, <1>5
       DEF Lifecycle!Move, Lifecycle!ALL_STATUSES, Lifecycle!ALLOWED_TRANSITIONS, CanDecide,
           StatusOf, EffectsOf
  <2>. QED
    BY <2>2 DEF Lifecycle!LifecycleNext
<1>6. CASE CanClaim(a) /\ rows' = [rows EXCEPT ![a] = Claimed(a)]
  <2>1. StatusOf' = [StatusOf EXCEPT ![a] = "executing"]
    <3>1. Claimed(a).status = "executing"
      BY RowFields DEF IInv, Typed
    <3>. QED
      BY <3>1, <1>6 DEF IInv, Typed, TypeOK, StatusOf
  <2>2. Lifecycle!Move(a, "executing") /\ "executing" \in Lifecycle!ALL_STATUSES
    BY <2>1, <1>1, <1>3, <1>6
       DEF Lifecycle!Move, Lifecycle!ALL_STATUSES, Lifecycle!ALLOWED_TRANSITIONS, CanClaim,
           StatusOf, EffectsOf
  <2>. QED
    BY <2>2 DEF Lifecycle!LifecycleNext
<1>7. ASSUME NEW outcome \in {"success", "refused"}, rows[a].status = "executing",
             rows' = [rows EXCEPT ![a] = Recorded(a, outcome)]
      PROVE  Lifecycle!LifecycleNext
  <2> DEFINE new == IF outcome = "success" THEN "executed" ELSE "failed"
  <2>1. StatusOf' = [StatusOf EXCEPT ![a] = new]
    <3>1. Recorded(a, outcome).status = new
      BY RowFields DEF IInv, Typed
    <3>. QED
      BY <3>1, <1>7 DEF IInv, Typed, TypeOK, StatusOf
  <2>2. rows'[a].status = new
    BY <2>1 DEF IInv, Typed, TypeOK, StatusOf
  <2>3. /\ new = "executed" => applied[a] # << >>
        /\ new = "failed" => applied[a] = << >> \/ LostAcks
    BY <2>2 DEF IInv, Settled, OutcomeTruthful
  <2>4. /\ new = "executed" => EffectsOf[a] = 1
        /\ new = "failed" => EffectsOf[a] = 0 \/ LostAcks
    BY <2>3, EffectCounts DEF IInv, Settled
  <2>5. Lifecycle!Finish(a)
    BY <2>1, <2>4, <1>1, <1>3, <1>7 DEF Lifecycle!Finish, StatusOf, EffectsOf
  <2>. QED
    BY <2>5 DEF Lifecycle!LifecycleNext
<1>. QED
  BY <1>4, <1>5, <1>6, <1>7 DEF RowStep

\* A tool that commits is the lifecycle's TakeEffect; one that does not is a stutter.
LEMMA ToolImplements ==
  ASSUME IInv, IInv', NEW w \in Workers, RunTool(w)
  PROVE  [Lifecycle!LifecycleNext]_<<StatusOf, EffectsOf>>
<1>0. PICK a \in ApprovalIds : a = work[w].id
  BY DEF IInv, Typed, Serving, Sound, RunTool
<1>1. /\ a \in ApprovalIds
      /\ rows[a].status = "executing"
      /\ applied[a] = << >>
      /\ UNCHANGED rows
  BY <1>0 DEF IInv, Informed, Executing, RunTool
<1>2. CASE UNCHANGED applied
  BY <1>1, <1>2 DEF StatusOf, EffectsOf
<1>3. CASE applied' = [applied EXCEPT ![a] = Append(@, work[w].snapshot)]
  <2>1. EffectsOf' = [EffectsOf EXCEPT ![a] = 1]
    <3>1. Len(Append(<< >>, work[w].snapshot)) = 1
      OBVIOUS
    <3>. QED
      BY <3>1, <1>1, <1>3 DEF IInv, Typed, TypeOK, EffectsOf
  <2>2. EffectsOf[a] = 0
    BY <1>1, EffectCounts DEF IInv, Settled
  <2>3. Lifecycle!TakeEffect(a)
    BY <2>1, <2>2, <1>1 DEF Lifecycle!TakeEffect, StatusOf, EffectsOf
  <2>. QED
    BY <2>3, <1>1 DEF Lifecycle!LifecycleNext
<1>4. UNCHANGED applied \/ applied' = [applied EXCEPT ![a] = Append(@, work[w].snapshot)]
  BY <1>0 DEF RunTool
<1>. QED
  BY <1>2, <1>3, <1>4

\* The table, the requests and the executor together do nothing the abstract
\* lifecycle does not allow.
THEOREM Implementation == Spec => ImplementsLifecycle
<1>1. Init => Lifecycle!LifecycleInit
  <2> SUFFICES ASSUME Init PROVE Lifecycle!LifecycleInit
    OBVIOUS
  <2>1. \A a \in ApprovalIds : rows[a].status = Absent /\ Len(applied[a]) = 0
    BY DEF Init, NoRow
  <2>. QED
    BY <2>1 DEF Lifecycle!LifecycleInit, Lifecycle!Absent, Absent
<1>2. IInv /\ IInv' /\ [Next]_vars => [Lifecycle!LifecycleNext]_(Lifecycle!lifecycleVars)
  <2> SUFFICES ASSUME IInv, IInv', [Next]_vars
               PROVE  [Lifecycle!LifecycleNext]_<<StatusOf, EffectsOf>>
    BY DEF Lifecycle!lifecycleVars, StatusOf, EffectsOf
  <2>1. CASE UNCHANGED vars
    BY <2>1 DEF vars, StatusOf, EffectsOf
  <2>2. CASE Next /\ \E w \in Workers : RunTool(w)
    BY <2>2, ToolImplements
  <2>3. CASE Next /\ ~\E w \in Workers : RunTool(w)
    <3>1. UNCHANGED applied
      BY <2>3
         DEF Next, CreatePendingApproval, Arrive, Decide, DecideFails, ReadForExecution,
             Progress, Crash, TraceDecision, Claim, ClaimFails, Conflict, TraceStart,
             Record, RecordFails, TraceFinish, Reread, Respond
    <3>2. CASE UNCHANGED rows
      BY <3>1, <3>2 DEF StatusOf, EffectsOf
    <3>. QED
      BY <3>1, <3>2, <2>3, RowSteps, TransactionImplements
  <2>. QED
    BY <2>1, <2>2, <2>3
<1>. QED
  BY <1>1, <1>2, Inductive, PTL DEF Spec, ImplementsLifecycle, Lifecycle!LifecycleSpec
--------------------------------------------------------------------------------
\* The page.

\* What the page does to the approvals is what ApprovalExecution says can happen to them.
LEMMA ViewStep == [ViewNext]_viewVars => [Next]_vars
<1> SUFFICES ASSUME [ViewNext]_viewVars PROVE [Next]_vars
  OBVIOUS
<1>1. CASE Elsewhere
  BY <1>1 DEF Elsewhere, Next
<1>2. ASSUME NEW w \in Workers, Serve(w) PROVE [Next]_vars
  BY <1>2 DEF Serve, Answered, Progress, Next
<1>3. ASSUME NEW w \in Workers, NEW a \in ApprovalIds, Press(w, a) PROVE [Next]_vars
  BY <1>3 DEF Press, Arrive, Next
<1>4. CASE Refresh \/ ListApprovals \/ ListFails \/ \E i \in 1 .. MaxLoads : Land(i)
  BY <1>4 DEF Refresh, ListApprovals, ListFails, Land
<1>5. CASE UNCHANGED viewVars
  BY <1>5 DEF viewVars
<1>. QED
  BY <1>1, <1>2, <1>3, <1>4, <1>5 DEF ViewNext

\* The page adds nothing to what the approvals, their requests and their traces can do:
\* what holds of ApprovalExecution holds behind the page too.
THEOREM PageImplementsExecution == ViewSpec => Spec
<1>1. ViewInit => Init
  BY DEF ViewInit
<1>. QED
  BY <1>1, ViewStep, PTL DEF ViewSpec, Spec

\* A list the page shows, or will show, says of every approval what it was, or is.
Past(view) == \A a \in ApprovalIds : rows[a].status \in Onward(view[a])

ViewInv ==
    /\ shown \in [ApprovalIds -> Seen] /\ Past(shown)
    /\ answers \in Seq([ApprovalIds -> Seen]) /\ \A i \in DOMAIN answers : Past(answers[i])

\* The list the page opens with, and a list the server reads, are about the present.
LEMMA Present ==
  ASSUME IInv
  PROVE  Statuses \in [ApprovalIds -> Seen] /\ Past(Statuses)
<1>1. ASSUME NEW a \in ApprovalIds PROVE rows[a].status \in Seen
  BY DEF IInv, Typed, TypeOK, ApprovalRow, Seen
<1>2. \A s \in Seen : s \in Onward(s)
  BY DEF Onward, Seen, ALL_STATUSES, Absent
<1>. QED
  BY <1>1, <1>2 DEF Past, Statuses

\* What was past stays past: a row only goes where Onward allows.
LEMMA PastStaysPast ==
  ASSUME IInv, [Next]_vars, NEW view \in [ApprovalIds -> Seen], Past(view)
  PROVE  Past(view)'
<1>1. ASSUME NEW a \in ApprovalIds PROVE rows'[a].status \in Onward(view[a])
  <2>1. view[a] \in Seen /\ rows[a].status \in Onward(view[a]) /\ LegalStep(a)
    BY Legal DEF Past
  <2>. QED
    BY <2>1 DEF LegalStep, ALLOWED_TRANSITIONS, Onward, Seen, ALL_STATUSES, Absent
<1>. QED
  BY <1>1 DEF Past

\* The answers that have not arrived are among those that had not.
LEMMA Overtaken ==
  ASSUME NEW S, NEW q \in Seq(S), NEW i \in DOMAIN q
  PROVE  /\ RemoveAt(q, i) \in Seq(S)
         /\ \A j \in DOMAIN RemoveAt(q, i) : \E k \in DOMAIN q : RemoveAt(q, i)[j] = q[k]
<1>1. RemoveAt(q, i) = SubSeq(q, 1, i - 1) \o SubSeq(q, i + 1, Len(q))
  BY DEF RemoveAt
<1>2. /\ SubSeq(q, 1, i - 1) \in Seq(S)
      /\ SubSeq(q, i + 1, Len(q)) \in Seq(S)
  OBVIOUS
<1>3. \A j \in DOMAIN SubSeq(q, 1, i - 1) : SubSeq(q, 1, i - 1)[j] = q[j] /\ j \in DOMAIN q
  OBVIOUS
<1>4. \A j \in DOMAIN SubSeq(q, i + 1, Len(q)) :
         SubSeq(q, i + 1, Len(q))[j] = q[i + j] /\ i + j \in DOMAIN q
  OBVIOUS
<1> DEFINE front == SubSeq(q, 1, i - 1)
           back == SubSeq(q, i + 1, Len(q))
<1>5. \A s, t \in Seq(S) : \A j \in DOMAIN (s \o t) :
         \/ j \in DOMAIN s /\ (s \o t)[j] = s[j]
         \/ j - Len(s) \in DOMAIN t /\ (s \o t)[j] = t[j - Len(s)]
  OBVIOUS
<1>6. front \o back \in Seq(S)
  BY <1>2
<1>7. ASSUME NEW j \in DOMAIN (front \o back) PROVE \E k \in DOMAIN q : (front \o back)[j] = q[k]
  <2>1. \/ j \in DOMAIN front /\ (front \o back)[j] = front[j]
        \/ j - Len(front) \in DOMAIN back /\ (front \o back)[j] = back[j - Len(front)]
    <3>. HIDE DEF front, back
    <3>. QED
      BY <1>2, <1>5 DEF front, back
  <2>. HIDE DEF front, back
  <2>. QED
    BY <1>3, <1>4, <2>1 DEF front, back
<1>. HIDE DEF front, back
<1>. QED
  BY <1>1, <1>6, <1>7 DEF front, back

\* The page's lists are about the past, and stay so.
LEMMA ViewInvStep == ViewInv /\ IInv /\ [ViewNext]_viewVars => ViewInv'
<1> SUFFICES ASSUME ViewInv, IInv, [ViewNext]_viewVars PROVE ViewInv'
  OBVIOUS
<1> DEFINE PastNext(view) == \A a \in ApprovalIds : rows'[a].status \in Onward(view[a])
<1>1. \A view \in [ApprovalIds -> Seen] : Past(view) => PastNext(view)
  <2>1. ASSUME NEW view \in [ApprovalIds -> Seen], Past(view) PROVE PastNext(view)
    BY <2>1, ViewStep, PastStaysPast DEF Past
  <2>. QED
    BY <2>1
<1>2. \A i \in DOMAIN answers : answers[i] \in [ApprovalIds -> Seen] /\ PastNext(answers[i])
  BY <1>1 DEF ViewInv
<1>3. shown \in [ApprovalIds -> Seen] /\ PastNext(shown)
  BY <1>1 DEF ViewInv
<1>4. CASE UNCHANGED <<shown, answers>>
  BY <1>2, <1>3, <1>4 DEF ViewInv, Past
<1>5. CASE ListApprovals
  <2>1. UNCHANGED <<rows, shown>> /\ answers' = Append(answers, Statuses)
    BY <1>5 DEF ListApprovals, vars
  <2>2. Statuses \in [ApprovalIds -> Seen] /\ PastNext(Statuses)
    BY <1>1, Present
  <2>3. answers \in Seq([ApprovalIds -> Seen])
    BY DEF ViewInv
  <2>4. answers' \in Seq([ApprovalIds -> Seen])
    BY <2>1, <2>2, <2>3
  <2>5. ASSUME NEW i \in DOMAIN answers' PROVE PastNext(answers'[i])
    <3>1. (i \in DOMAIN answers /\ answers'[i] = answers[i]) \/ answers'[i] = Statuses
      BY <2>1, <2>2, <2>3, <2>5
    <3>. QED
      BY <1>2, <2>2, <3>1
  <2>. QED
    BY <1>3, <2>1, <2>4, <2>5 DEF ViewInv, Past
<1>6. ASSUME NEW i \in 1 .. MaxLoads, Land(i) PROVE ViewInv'
  <2>1. i \in DOMAIN answers /\ shown' = answers[i] /\ answers' = RemoveAt(answers, i)
    BY <1>6 DEF Land
  <2>2. /\ answers' \in Seq([ApprovalIds -> Seen])
        /\ \A j \in DOMAIN answers' : \E k \in DOMAIN answers : answers'[j] = answers[k]
    BY <2>1, Overtaken DEF ViewInv
  <2>. QED
    BY <1>2, <2>1, <2>2 DEF ViewInv, Past
<1>7. CASE Elsewhere
  BY <1>4, <1>7 DEF Elsewhere, page, list
<1>8. ASSUME NEW w \in Workers, Serve(w) PROVE ViewInv'
  BY <1>4, <1>8 DEF Serve, Answered, page, list
<1>9. ASSUME NEW w \in Workers, NEW a \in ApprovalIds, Press(w, a) PROVE ViewInv'
  BY <1>4, <1>9 DEF Press, list
<1>10. CASE Refresh \/ ListFails
  BY <1>4, <1>10 DEF Refresh, ListFails
<1>. QED
  BY <1>4, <1>5, <1>6, <1>7, <1>8, <1>9, <1>10 DEF ViewNext, viewVars, page, list

\* However answers overtake each other, and whatever buttons are pressed on an old list,
\* the page shows of every approval a status on its way to the one it has.
THEOREM ScreenShowsThePast == ViewSpec => []ScreenIsPast
<1>1. ViewInit /\ IInv => ViewInv
  <2> SUFFICES ASSUME ViewInit, IInv PROVE ViewInv
    OBVIOUS
  <2>1. \A a \in ApprovalIds : rows[a].status = Absent
    BY DEF ViewInit, Init, NoRow
  <2>2. Nothing = Statuses
    BY <2>1 DEF Nothing, Statuses
  <2>3. answers = << >> /\ << >> \in Seq([ApprovalIds -> Seen]) /\ DOMAIN << >> = {}
    BY DEF ViewInit
  <2>. QED
    BY <2>2, <2>3, Present DEF ViewInit, ViewInv
<1>2. ViewInv => ScreenIsPast
  BY DEF ViewInv, Past, ScreenIsPast
<1>3. ViewSpec => []IInv
  BY PageImplementsExecution, Inductive, PTL
<1>. QED
  BY <1>1, <1>2, <1>3, ViewInvStep, PTL DEF ViewSpec
================================================================================
