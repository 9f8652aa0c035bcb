----------------------------- MODULE AgentRunProofs -----------------------------
(***************************************************************************)
(* Proofs about AgentRun: for any tools, budget and responses of the       *)
(* model, and however many transactions fail.                              *)
(***************************************************************************)
EXTENDS AgentRun, InductionLemmas, SequenceTheorems

\* Each model call but the last led to a tool, and what is left of a batch fits the budget.
Paced ==
    /\ executed <= MaxToolIterations
    /\ iteration <= executed + 1
    /\ pc \in {"start", "call"} => iteration <= executed
    /\ pc = "tools" => Len(batch) > 0 /\ executed + Len(batch) <= MaxToolIterations

Counted ==
    /\ Len(ToolsIn(happened)) = executed
    /\ Len(happened) = executed + iteration

NamesIn(log) == [i \in DOMAIN ToolsIn(log) |-> ToolsIn(log)[i].what]

\* Each tool that ran has a result, which the model has or gets with its next call.
ToldAll ==
    /\ NamesOf(seen \o results) = NamesIn(happened)
    /\ pc = "call" \/ answer = "text" => results = << >>

\* What the model has been told, or is told next, is done.
ToldRight ==
    /\ IsThinned(NamesOf(DoneIn(seen \o results)), effects)
    /\ Len(effects) <= Len(DoneIn(seen \o results)) + faults

\* Before the first step, and after the last.
Bounds ==
    /\ pc = "start" =>
           /\ happened = << >> /\ effects = << >> /\ events = << >> /\ row = "none" /\ tracing
           /\ results = << >>
    /\ pc \in {"start", "over"} => unrecorded = << >>
    /\ pc \in {"start", "call", "tools"} => answer = "none"
    /\ pc # "over" => status = "none"
    /\ pc = "close" => answer # "none"

\* How the run ended, and what the client was told of it.
Ended ==
    /\ answer = "text" => happened # << >> /\ Last(happened).ok
    /\ answer = "GLMError" =>
           happened # << >> /\ ~Last(happened).ok /\ Last(happened).what = "model"
    /\ status = "200" => answer = "text"
    /\ status = "502" => answer = "GLMError"
    /\ status = "503" => effects = << >> /\ happened = << >> /\ row = "none"

\* What the trace has of the run, and what it lacks.
Traced ==
    /\ Len(unrecorded) <= 1
    /\ IsThinned(StepsOf(events) \o unrecorded, happened)
    /\ (row = "none") = (events = << >>)
    /\ row # "none" => Head(events) = RunEvent("run_started")
    /\ row = "completed" =>
           pc = "over" /\ answer = "text" /\ Last(events) = RunEvent("run_completed")
    /\ row = "failed" =>
           /\ pc = "over" /\ answer \in {"GLMError", "Exception"}
           /\ Last(events) = RunEvent("run_failed")
    /\ tracing /\ pc \in {"call", "tools", "close"} =>
           /\ row = "running"
           /\ Len(happened) + 1 <= Len(events) + Len(unrecorded) + faults
    /\ tracing /\ pc = "over" /\ answer # "none" => Len(happened) + 2 <= Len(events) + faults

IInv == TypeOK /\ Paced /\ Counted /\ ToldAll /\ ToldRight /\ Bounds /\ Ended /\ Traced

--------------------------------------------------------------------------------
\* What the properties read off the histories, when a history grows by one.

Use == [what : Tools, ok : BOOLEAN, iteration : Nat]
Result == [tool : Tools, told : {"done", "refused", "error"}]
RunNames == {"run_started", "run_completed", "run_failed"}
Logged == Event \cup {RunEvent(e) : e \in RunNames}

\* A sequence that grows.
LEMMA OneMore ==
  ASSUME NEW T, NEW s \in Seq(T), NEW x \in T
  PROVE  /\ Append(s, x) \in Seq(T) /\ Append(s, x) # << >>
         /\ Len(s) \in Nat /\ Len(Append(s, x)) = Len(s) + 1
         /\ Last(Append(s, x)) = x
         /\ s # << >> => Head(Append(s, x)) = Head(s)
         /\ s \o <<x>> = Append(s, x) /\ s \o << >> = s
  BY AppendProperties, LenProperties DEF Last

\* A model call is no tool; every other step is.
LEMMA ToolsGrow ==
  ASSUME NEW log \in Seq(Event), NEW e \in Event
  PROVE  /\ ToolsIn(log) \in Seq(Use)
         /\ e.what = "model" => ToolsIn(Append(log, e)) = ToolsIn(log)
         /\ e.what # "model" => e \in Use /\ ToolsIn(Append(log, e)) = Append(ToolsIn(log), e)
<1>1. ToolsIn(Append(log, e)) = IF e \in Use THEN Append(ToolsIn(log), e) ELSE ToolsIn(log)
  BY SelectionGrows DEF ToolsIn, Use
<1>2. ToolsIn(log) \in Seq(Use)
  BY SelectionType DEF ToolsIn, Use
<1>3. e.what = "model" => e \notin Use
  BY ConstantsAssumption DEF Use
<1>4. e.what # "model" => e \in Use
  BY DEF Event, Use
<1>. QED
  BY <1>1, <1>2, <1>3, <1>4

\* The names of the tools grow with them.
LEMMA NamesGrow ==
  ASSUME NEW log \in Seq(Event), NEW e \in Event
  PROVE  /\ e.what = "model" => NamesIn(Append(log, e)) = NamesIn(log)
         /\ e.what # "model" => NamesIn(Append(log, e)) = Append(NamesIn(log), e.what)
<1>1. e.what = "model" => NamesIn(Append(log, e)) = NamesIn(log)
  BY ToolsGrow DEF NamesIn
<1>2. ASSUME e.what # "model"
      PROVE  NamesIn(Append(log, e)) = Append(NamesIn(log), e.what)
  <2>1. PICK used \in Seq(Use) : used = ToolsIn(log)
    BY ToolsGrow
  <2>2. PICK more \in Seq(Use) : more = Append(used, e) /\ e \in Use
    BY ToolsGrow, <1>2, <2>1, AppendProperties
  <2>3. ToolsIn(Append(log, e)) = more
    BY ToolsGrow, <1>2, <2>1, <2>2
  <2>4. [i \in DOMAIN more |-> more[i].what] = Append([i \in DOMAIN used |-> used[i].what], e.what)
    BY <2>2 DEF Use
  <2>. QED
    BY <2>1, <2>3, <2>4 DEF NamesIn
<1>. QED
  BY <1>1, <1>2

\* Each result names a tool.
LEMMA ResultNames ==
  ASSUME NEW told \in Seq(Result)
  PROVE  NamesOf(told) \in Seq(Tools) /\ Len(NamesOf(told)) = Len(told)
<1>1. PICK n \in Nat : n = Len(told) /\ DOMAIN told = 1 .. n
  BY LenProperties
<1>2. \A i \in 1 .. n : told[i] \in Result
  BY <1>1, ElementOfSeq
<1>3. PICK names \in [1 .. n -> Tools] : names = NamesOf(told)
  BY <1>1, <1>2 DEF NamesOf, Result
<1>4. names \in Seq(Tools) /\ Len(names) = n
  BY <1>3
<1>. QED
  BY <1>1, <1>3, <1>4

\* The names of the results grow with them.
LEMMA ResultsGrow ==
  ASSUME NEW told \in Seq(Result), NEW r \in Result
  PROVE  NamesOf(Append(told, r)) = Append(NamesOf(told), r.tool)
<1>1. PICK more \in Seq(Result) : more = Append(told, r)
  BY AppendProperties
<1>2. [i \in DOMAIN more |-> more[i].tool] = Append([i \in DOMAIN told |-> told[i].tool], r.tool)
  BY <1>1 DEF Result
<1>. QED
  BY <1>1, <1>2 DEF NamesOf

Done == [tool : Tools, told : {"done"}]

LEMMA DoneType ==
  ASSUME NEW told \in Seq(Result)
  PROVE  DoneIn(told) \in Seq(Result)
<1>1. DoneIn(told) \in Seq(Done)
  BY SelectionType DEF DoneIn, Done
<1>2. Done \subseteq Result
  BY DEF Result, Done
<1>. QED
  BY <1>1, <1>2, SeqMonotonic

\* Of the results, those that say "done" are selected.
LEMMA DoneGrows ==
  ASSUME NEW told \in Seq(Result), NEW r \in Result
  PROVE  /\ r.told = "done" => DoneIn(Append(told, r)) = Append(DoneIn(told), r)
         /\ r.told # "done" => DoneIn(Append(told, r)) = DoneIn(told)
<1>1. DoneIn(Append(told, r)) = IF r \in Done THEN Append(DoneIn(told), r) ELSE DoneIn(told)
  BY SelectionGrows DEF DoneIn, Done
<1>2. r \in Done <=> r.told = "done"
  BY DEF Result, Done
<1>. QED
  BY <1>1, <1>2

\* The events of the run's own are no steps of it.
LEMMA StepsGrow ==
  ASSUME NEW log \in Seq(Logged)
  PROVE  /\ StepsOf(log) \in Seq(Event)
         /\ \A e \in Event : e \in Logged /\ StepsOf(Append(log, e)) = Append(StepsOf(log), e)
         /\ \A name \in RunNames : /\ RunEvent(name) \in Logged
                                   /\ StepsOf(Append(log, RunEvent(name))) = StepsOf(log)
<1>1. StepsOf(log) \in Seq(Event)
  BY SelectionType DEF StepsOf
<1>2. ASSUME NEW e \in Event
      PROVE  e \in Logged /\ StepsOf(Append(log, e)) = Append(StepsOf(log), e)
  <2>1. e \in Logged
    BY DEF Logged
  <2>. QED
    BY <2>1, SelectionGrows DEF StepsOf
<1>3. ASSUME NEW name \in RunNames
      PROVE  /\ RunEvent(name) \in Logged
             /\ StepsOf(Append(log, RunEvent(name))) = StepsOf(log)
  <2>1. RunEvent(name) \in Logged
    BY DEF Logged
  <2>2. RunEvent(name).what \notin Tools \cup {"model"}
    BY ConstantsAssumption DEF RunEvent, RunNames
  <2>3. RunEvent(name) \notin Event
    BY <2>2 DEF Event
  <2>. QED
    BY <2>1, <2>3, SelectionGrows DEF StepsOf
<1>. QED
  BY <1>1, <1>2, <1>3
--------------------------------------------------------------------------------
\* Any call of the model, and any run of a tool, whatever comes of it.

Occurs(e) == happened' = Append(happened, e) /\ unrecorded' = <<e>>

AsksModel(e) ==
    /\ pc = "call" /\ unrecorded = << >>
    /\ e.what = "model" /\ Occurs(e)
    /\ iteration' = iteration + 1
    /\ \/ pc' = "close" /\ answer' = "text" /\ e.ok /\ batch' = batch
       \/ pc' = "close" /\ answer' \in {"GLMError", "Exception"} /\ ~e.ok /\ batch' = batch
       \/ /\ pc' = "tools" /\ answer' = answer /\ e.ok
          /\ batch' \in Seq(Tools) /\ Len(batch') > 0 /\ Len(batch') <= Budget
    /\ UNCHANGED <<executed, results, seen, status, effects, trace, faults>>

\* The results grow by r, in the hands of the loop or among the messages.
Tells(r) ==
    \/ /\ pc' = "call" /\ Len(batch) = 1
       /\ seen' = seen \o Append(results, r) /\ results' = << >>
    \/ /\ pc' = "tools" /\ Len(batch) # 1
       /\ seen' = seen /\ results' = Append(results, r)

Affects(tool) == tool \in Ordinary \cup Sensitive /\ effects' = Append(effects, tool)

RunsTool(e, r) ==
    /\ pc = "tools" /\ unrecorded = << >>
    /\ e.what = Head(batch) /\ Occurs(e)
    /\ r.tool = Head(batch) /\ Tells(r)
    /\ batch' = Tail(batch)
    /\ executed' = executed + 1
    /\ \/ r.told = "done" /\ Affects(Head(batch)) /\ faults' = faults
       \/ r.told # "done" /\ effects' = effects /\ (faults' = faults \/ Fault)
       \/ r.told # "done" /\ Affects(Head(batch)) /\ Fault
    /\ UNCHANGED <<iteration, answer, status, trace>>

\* What is run of a response are tools, and no more than the budget allows.
LEMMA LeadingFits ==
  ASSUME TypeOK, Budget > 0, NEW blocks \in Responses, ToolUses(blocks) # << >>
  PROVE  /\ Leading(ToolUses(blocks)) \in Seq(Tools)
         /\ Len(Leading(ToolUses(blocks))) > 0 /\ Len(Leading(ToolUses(blocks))) <= Budget
<1>1. Budget \in Nat
  BY ConstantsAssumption DEF TypeOK, Budget
<1>2. blocks \in Seq(Blocks)
  BY ConstantsAssumption DEF Responses
<1>3. PICK wanted \in Seq(Tools) : wanted = ToolUses(blocks)
  BY <1>2, SelectionType DEF ToolUses
<1>4. Len(wanted) \in Nat /\ Len(wanted) > 0 /\ \A i \in 1 .. Len(wanted) : wanted[i] \in Tools
  BY <1>3, EmptySeq, ElementOfSeq, LenProperties
<1>5. CASE Len(wanted) <= Budget
  BY <1>3, <1>4, <1>5 DEF Leading
<1>6. CASE Len(wanted) > Budget
  <2>1. PICK n \in Nat : n = Budget
    BY <1>1
  <2>2. \A i \in 1 .. n : wanted[i] \in Tools
    BY <1>4, <1>6, <2>1
  <2>3. SubSeq(wanted, 1, n) \in Seq(Tools) /\ Len(SubSeq(wanted, 1, n)) = n
    BY <2>1, <2>2, SubSeqProperties
  <2>4. Leading(wanted) = SubSeq(wanted, 1, n)
    BY <1>4, <1>6, <2>1 DEF Leading
  <2>. QED
    BY <1>3, <2>1, <2>3, <2>4
<1>. QED
  BY <1>1, <1>4, <1>5, <1>6

\* Whatever the model answers, it is asked.
LEMMA ModelSteps ==
  ASSUME TypeOK, ModelAnswers \/ ModelWantsTools \/ ModelSendsNonsense \/ ModelFails
  PROVE  \E e \in Event : AsksModel(e)
<1> DEFINE E(ok) == [what |-> "model", ok |-> ok, iteration |-> iteration']
<1>1. ASSUME CallModel PROVE E(TRUE) \in Event /\ E(FALSE) \in Event
  BY <1>1 DEF CallModel, TypeOK, Event
<1>2. CASE ModelAnswers
  BY <1>1, <1>2 DEF ModelAnswers, CallModel, Happens, AsksModel, Occurs
<1>3. CASE ModelWantsTools
  <2>1. PICK blocks \in Responses :
            ToolUses(blocks) # << >> /\ batch' = Leading(ToolUses(blocks))
    BY <1>3 DEF ModelWantsTools
  <2>2. batch' \in Seq(Tools) /\ Len(batch') > 0 /\ Len(batch') <= Budget
    BY <1>3, <2>1, LeadingFits DEF ModelWantsTools
  <2>. QED
    BY <1>1, <1>3, <2>2 DEF ModelWantsTools, CallModel, Happens, AsksModel, Occurs
<1>4. CASE ModelSendsNonsense
  <2>1. answer' \in {"GLMError", "Exception"}
    BY <1>4 DEF ModelSendsNonsense, Parsed
  <2>. QED
    BY <1>1, <1>4, <2>1 DEF ModelSendsNonsense, CallModel, Happens, AsksModel, Occurs
<1>5. CASE ModelFails
  BY <1>1, <1>5 DEF ModelFails, CallModel, Happens, AsksModel, Occurs
<1>. QED
  BY <1>2, <1>3, <1>4, <1>5

\* Whatever comes of a tool, the loop goes on with it.
LEMMA RanIs ==
  ASSUME TypeOK, Paced, pc = "tools", unrecorded = << >>,
         NEW told \in {"done", "refused", "error"}, NEW ok \in BOOLEAN, Ran(told, ok)
  PROVE  \E e \in Event, r \in Result :
            /\ e.what = Head(batch) /\ Occurs(e)
            /\ r.tool = Head(batch) /\ r.told = told /\ Tells(r)
            /\ batch' = Tail(batch)
            /\ executed' = executed + 1
            /\ UNCHANGED <<iteration, answer, status>>
<1>1. Head(batch) \in Tools
  BY HeadTailProperties DEF TypeOK, Paced
<1>2. PICK e \in Event : e = [what |-> Head(batch), ok |-> ok, iteration |-> iteration]
  <2>1. iteration \in Nat
    BY ConstantsAssumption DEF TypeOK
  <2>. QED
    BY <1>1, <2>1 DEF Event
<1>3. PICK r \in Result : r = [tool |-> Head(batch), told |-> told]
  BY <1>1 DEF Result
<1>4. e.what = Head(batch) /\ r.tool = Head(batch) /\ r.told = told
  BY <1>2, <1>3
<1>5. Occurs(e)
  BY <1>2 DEF Ran, Happens, Occurs
<1>6. Tells(r)
  BY <1>3 DEF Ran, Tells
<1>. QED
  BY <1>4, <1>5, <1>6 DEF Ran

LEMMA ToolSteps ==
  ASSUME TypeOK, Paced,
         RequestApproval \/ UnknownTool \/ ToolSucceeds \/ ToolRefuses \/ ToolRaises
            \/ ToolStoreFails
  PROVE  \E e \in Event, r \in Result : RunsTool(e, r)
<1> USE DEF RunTool, Committed, RunsTool, Affects
<1>1. CASE RequestApproval
  BY <1>1, RanIs DEF RequestApproval
<1>2. CASE UnknownTool
  BY <1>2, RanIs DEF UnknownTool
<1>3. CASE ToolSucceeds
  BY <1>3, RanIs DEF ToolSucceeds
<1>4. CASE ToolRefuses
  BY <1>4, RanIs DEF ToolRefuses
<1>5. CASE ToolRaises
  BY <1>5, RanIs DEF ToolRaises
<1>6. CASE ToolStoreFails
  BY <1>6, RanIs DEF ToolStoreFails
<1>. QED
  BY <1>1, <1>2, <1>3, <1>4, <1>5, <1>6
--------------------------------------------------------------------------------
\* The steps.

\* A step of the loop that is still to be recorded.
LEMMA StepOccurs ==
  ASSUME IInv, unrecorded = << >>, NEW e \in Event, Occurs(e), events' = events
  PROVE  /\ happened' \in Seq(Event) /\ unrecorded' \in Seq(Event)
         /\ Len(unrecorded') = 1 /\ Len(unrecorded) = 0
         /\ Len(happened) \in Nat /\ Len(happened') = Len(happened) + 1
         /\ happened' # << >> /\ Last(happened') = e
         /\ IsThinned(StepsOf(events') \o unrecorded', happened')
<1>1. PICK log \in Seq(Event), steps \in Seq(Event) : log = happened /\ steps = StepsOf(events)
  BY StepsGrow DEF IInv, TypeOK, Logged, RunNames
<1>2. IsThinned(steps, log)
  BY <1>1, OneMore DEF IInv, Traced
<1>3. PICK one \in Seq(Event) : one = <<e>> /\ Len(one) = 1
  <2>1. <<e>> \in Seq(Event) /\ Len(<<e>>) = 1
    OBVIOUS
  <2>. QED
    BY <2>1
<1>4. happened' = Append(log, e) /\ unrecorded' = one
  BY <1>1, <1>3 DEF Occurs
<1>5. StepsOf(events') \o unrecorded' = Append(steps, e)
  BY <1>1, <1>3, <1>4, OneMore
<1>6. IsThinned(Append(steps, e), Append(log, e))
  BY <1>2, ThinnedAlike
<1>. QED
  BY <1>1, <1>3, <1>4, <1>5, <1>6, OneMore

LEMMA AskingKeeps ==
  ASSUME IInv, NEW e \in Event, AsksModel(e)
  PROVE  IInv'
<1> USE DEF IInv
<1>1. /\ happened' \in Seq(Event) /\ unrecorded' \in Seq(Event)
      /\ Len(unrecorded') = 1 /\ Len(unrecorded) = 0
      /\ Len(happened) \in Nat /\ Len(happened') = Len(happened) + 1
      /\ happened' # << >> /\ Last(happened') = e
      /\ IsThinned(StepsOf(events') \o unrecorded', happened')
  BY StepOccurs DEF AsksModel, trace
<1>2. /\ iteration \in Nat /\ executed \in Nat /\ MaxToolIterations \in Nat
      /\ iteration' = iteration + 1 /\ executed' = executed
      /\ iteration <= executed /\ executed <= MaxToolIterations
  BY ConstantsAssumption DEF TypeOK, Paced, AsksModel
<1>3. ToolsIn(happened') = ToolsIn(happened) /\ NamesIn(happened') = NamesIn(happened)
  BY ToolsGrow, NamesGrow DEF TypeOK, AsksModel, Occurs
<1>4. TypeOK'
  BY <1>1, <1>2 DEF TypeOK, AsksModel, trace
<1>5. Paced'
  BY <1>2 DEF Paced, AsksModel, Budget
<1>6. Counted'
  BY <1>1, <1>2, <1>3 DEF Counted
<1>7. ToldAll'
  BY <1>3 DEF ToldAll, AsksModel
<1>8. ToldRight'
  BY DEF ToldRight, AsksModel
<1>9. Bounds'
  BY DEF Bounds, AsksModel
<1>10. Ended'
  BY <1>1 DEF Ended, Bounds, AsksModel
<1>11. Traced'
  BY <1>1 DEF Traced, Bounds, TypeOK, AsksModel, trace
<1>. QED
  BY <1>4, <1>5, <1>6, <1>7, <1>8, <1>9, <1>10, <1>11
\* One more result, wherever it is kept.
LEMMA ResultTold ==
  ASSUME seen \in Seq(Result), results \in Seq(Result), NEW r \in Result, Tells(r)
  PROVE  /\ seen' \in Seq(Result) /\ results' \in Seq(Result)
         /\ seen \o results \in Seq(Result)
         /\ seen' \o results' = Append(seen \o results, r)
<1>1. PICK told, more \in Seq(Result) : told = seen \o results /\ more = Append(results, r)
  BY ConcatProperties, AppendProperties
<1>2. seen \o more = Append(told, r)
  <2>1. <<r>> \in Seq(Result)
    OBVIOUS
  <2>2. more = results \o <<r>> /\ Append(told, r) = told \o <<r>>
    BY <1>1, OneMore
  <2>. QED
    BY <1>1, <2>1, <2>2, ConcatAssociative
<1>3. CASE seen' = seen \o more /\ results' = << >>
  <2>1. seen' \in Seq(Result) /\ results' \in Seq(Result)
    BY <1>1, <1>3, ConcatProperties, EmptySeq
  <2>2. seen' \o results' = seen'
    BY <1>3, <2>1, ConcatEmptySeq
  <2>. QED
    BY <1>1, <1>2, <1>3, <2>1, <2>2
<1>4. CASE seen' = seen /\ results' = more
  BY <1>1, <1>2, <1>4
<1>. QED
  BY <1>1, <1>3, <1>4 DEF Tells

\* What is told of a tool is what became of it.
LEMMA RightlyTold ==
  ASSUME NEW told \in Seq(Result), NEW r \in Result, NEW done \in Seq(Tools),
         IsThinned(NamesOf(DoneIn(told)), done)
  PROVE  /\ Len(DoneIn(told)) \in Nat
         /\ r.told = "done" =>
               /\ IsThinned(NamesOf(DoneIn(Append(told, r))), Append(done, r.tool))
               /\ Len(DoneIn(Append(told, r))) = Len(DoneIn(told)) + 1
         /\ r.told # "done" =>
               /\ IsThinned(NamesOf(DoneIn(Append(told, r))), done)
               /\ IsThinned(NamesOf(DoneIn(Append(told, r))), Append(done, r.tool))
               /\ Len(DoneIn(Append(told, r))) = Len(DoneIn(told))
<1>1. PICK right \in Seq(Result) : right = DoneIn(told)
  BY DoneType
<1>2. PICK names \in Seq(Tools) : names = NamesOf(right)
  BY ResultNames
<1>3. r.tool \in Tools
  BY DEF Result
<1>4. IsThinned(Append(names, r.tool), Append(done, r.tool)) /\ IsThinned(names, Append(done, r.tool))
  BY <1>1, <1>2, <1>3, ThinnedAlike, ThinnedOfMore
<1>5. CASE r.told = "done"
  <2>1. DoneIn(Append(told, r)) = Append(right, r)
    BY <1>1, <1>5, DoneGrows
  <2>2. NamesOf(Append(right, r)) = Append(names, r.tool)
    BY <1>2, ResultsGrow
  <2>3. Len(right) \in Nat /\ Len(Append(right, r)) = Len(right) + 1
    BY OneMore
  <2>. QED
    BY <1>1, <1>4, <1>5, <2>1, <2>2, <2>3
<1>6. CASE r.told # "done"
  BY <1>1, <1>2, <1>4, <1>6, DoneGrows, LenProperties
<1>. QED
  BY <1>5, <1>6

LEMMA RunningKeeps ==
  ASSUME IInv, NEW e \in Event, NEW r \in Result, RunsTool(e, r)
  PROVE  IInv'
<1> USE DEF IInv
<1>1. /\ happened' \in Seq(Event) /\ unrecorded' \in Seq(Event)
      /\ Len(unrecorded') = 1 /\ Len(unrecorded) = 0
      /\ Len(happened) \in Nat /\ Len(happened') = Len(happened) + 1
      /\ happened' # << >> /\ Last(happened') = e
      /\ IsThinned(StepsOf(events') \o unrecorded', happened')
  BY StepOccurs DEF RunsTool, trace
<1>2. /\ iteration \in Nat /\ executed \in Nat /\ MaxToolIterations \in Nat
      /\ iteration' = iteration /\ executed' = executed + 1
      /\ iteration <= executed + 1 /\ executed + Len(batch) <= MaxToolIterations
      /\ Len(batch) \in Nat /\ Len(batch) > 0
  BY ConstantsAssumption, LenProperties DEF TypeOK, Paced, RunsTool
<1>3. /\ Head(batch) \in Tools /\ batch' \in Seq(Tools) /\ Len(batch') = Len(batch) - 1
  BY <1>2, HeadTailProperties, EmptySeq DEF TypeOK, RunsTool
<1>4. Head(batch) # "model"
  BY <1>3, ConstantsAssumption
<1>5. PICK told \in Seq(Result) : told = seen \o results /\ seen' \o results' = Append(told, r)
  BY ResultTold DEF TypeOK, RunsTool, Result
<1>6. /\ e.what = Head(batch)
      /\ happened' = Append(happened, e)
      /\ ToolsIn(happened) \in Seq(Use) /\ e \in Use
      /\ ToolsIn(happened') = Append(ToolsIn(happened), e)
      /\ NamesIn(happened') = Append(NamesIn(happened), Head(batch))
  BY <1>4, ToolsGrow, NamesGrow DEF TypeOK, RunsTool, Occurs
<1>7. TypeOK'
  <2>1. seen' \in Seq(Result) /\ results' \in Seq(Result)
    BY ResultTold DEF TypeOK, RunsTool, Result
  <2>2. effects' \in Seq(Ordinary \cup Sensitive)
    <3>1. effects \in Seq(Ordinary \cup Sensitive)
      BY DEF TypeOK
    <3>2. CASE effects' = effects
      BY <3>1, <3>2
    <3>3. CASE Affects(Head(batch))
      BY <3>1, <3>3, AppendProperties DEF Affects
    <3>. QED
      BY <3>2, <3>3 DEF RunsTool
  <2>3. faults' \in 0 .. MaxFaults
    BY ConstantsAssumption DEF TypeOK, RunsTool, Fault
  <2>4. executed' \in 0 .. MaxToolIterations
    BY <1>2
  <2>5. pc' \in {"call", "tools"}
    BY DEF RunsTool, Tells
  <2>. QED
    BY <1>1, <1>2, <1>3, <2>1, <2>2, <2>3, <2>4, <2>5 DEF TypeOK, RunsTool, trace, Result
<1>8. Paced'
  BY <1>2, <1>3 DEF Paced, RunsTool, Tells
<1>9. Counted'
  <2>1. Len(ToolsIn(happened')) = Len(ToolsIn(happened)) + 1
    BY <1>6, OneMore
  <2>. QED
    BY <1>1, <1>2, <2>1 DEF Counted
<1>10. ToldAll'
  <2>1. NamesOf(Append(told, r)) = Append(NamesOf(told), r.tool)
    BY ResultsGrow
  <2>2. NamesOf(told) = NamesIn(happened)
    BY <1>5 DEF ToldAll
  <2>3. NamesOf(seen' \o results') = NamesIn(happened')
    BY <1>5, <1>6, <2>1, <2>2 DEF RunsTool
  <2>4. pc' = "call" \/ answer' = "text" => results' = << >>
    BY DEF RunsTool, Tells, Bounds
  <2>. QED
    BY <2>3, <2>4 DEF ToldAll
<1>11. ToldRight'
  <2>1. PICK done \in Seq(Tools) : done = effects
    BY SeqMonotonic DEF TypeOK, Tools
  <2>2. Len(done) \in Nat /\ Len(Append(done, r.tool)) = Len(done) + 1
    BY <2>1, LenProperties, AppendProperties, <1>3 DEF RunsTool
  <2>3. IsThinned(NamesOf(DoneIn(told)), done) /\ Len(done) <= Len(DoneIn(told)) + faults
    BY <1>5, <2>1 DEF ToldRight
  <2>4. faults \in Nat
    BY ConstantsAssumption DEF TypeOK
  <2>5. /\ IsThinned(NamesOf(DoneIn(seen' \o results')), effects')
        /\ Len(effects') <= Len(DoneIn(seen' \o results')) + faults'
    <3> DEFINE now == DoneIn(Append(told, r))
    <3>0. /\ seen' \o results' = Append(told, r) /\ r.tool = Head(batch) /\ Len(DoneIn(told)) \in Nat
          /\ r.told = "done" =>
                IsThinned(NamesOf(now), Append(done, r.tool)) /\ Len(now) = Len(DoneIn(told)) + 1
          /\ r.told # "done" =>
                /\ IsThinned(NamesOf(now), done) /\ IsThinned(NamesOf(now), Append(done, r.tool))
                /\ Len(now) = Len(DoneIn(told))
      BY <1>5, <2>3, RightlyTold DEF RunsTool
    <3>. HIDE DEF now
    <3>8. DoneIn(seen' \o results') = now
      BY <3>0 DEF now
    <3>1. CASE r.told = "done" /\ effects' = Append(effects, Head(batch)) /\ faults' = faults
      BY <2>1, <2>2, <2>3, <2>4, <3>0, <3>1, <3>8
    <3>2. CASE r.told # "done" /\ effects' = effects /\ faults' \in {faults, faults + 1}
      BY <2>1, <2>2, <2>3, <2>4, <3>0, <3>2, <3>8
    <3>3. CASE r.told # "done" /\ effects' = Append(effects, Head(batch)) /\ faults' = faults + 1
      BY <2>1, <2>2, <2>3, <2>4, <3>0, <3>3, <3>8
    <3>. QED
      BY <3>1, <3>2, <3>3 DEF RunsTool, Affects, Fault
  <2>. QED
    BY <2>5 DEF ToldRight
<1>12. Bounds'
  BY DEF Bounds, RunsTool, Tells
<1>13. Ended'
  BY <1>1 DEF Ended, Bounds, RunsTool
<1>14. Traced'
  <2>1. faults \in Nat /\ faults' \in Nat /\ faults' >= faults
    BY ConstantsAssumption DEF TypeOK, RunsTool, Fault
  <2>2. Len(events) \in Nat
    BY LenProperties DEF TypeOK
  <2>. QED
    BY <1>1, <2>1, <2>2 DEF Traced, Bounds, RunsTool, Tells, trace
<1>. QED
  BY <1>7, <1>8, <1>9, <1>10, <1>11, <1>12, <1>13, <1>14
\* A step that tells the model nothing has at most lost an answer.
LEMMA NothingTold ==
  ASSUME TypeOK, ToldRight, seen' = seen, results' = results, faults' \in Nat,
         \/ effects' = effects /\ faults' >= faults
         \/ \E tool : Affects(tool) /\ faults' >= faults + 1
  PROVE  ToldRight'
<1>1. PICK told \in Seq(Result) : told = seen \o results
  BY ConcatProperties DEF TypeOK, Result
<1>2. PICK right \in Seq(Result) : right = DoneIn(told)
  BY <1>1, DoneType
<1>3. PICK names \in Seq(Tools) : names = NamesOf(right)
  BY ResultNames
<1>4. PICK done \in Seq(Tools) : done = effects
  BY SeqMonotonic DEF TypeOK, Tools
<1>5. /\ IsThinned(names, done) /\ Len(done) <= Len(right) + faults
      /\ Len(done) \in Nat /\ Len(right) \in Nat /\ faults \in Nat
  BY <1>1, <1>2, <1>3, <1>4, LenProperties, ConstantsAssumption DEF ToldRight, TypeOK
<1>6. NamesOf(DoneIn(seen' \o results')) = names /\ DoneIn(seen' \o results') = right
  BY <1>1, <1>2, <1>3
<1>7. CASE effects' = done /\ faults' >= faults
  BY <1>5, <1>6, <1>7 DEF ToldRight
<1>8. ASSUME NEW tool \in Ordinary \cup Sensitive, effects' = Append(done, tool),
             faults' >= faults + 1
      PROVE  ToldRight'
  <2>1. tool \in Tools
    BY DEF Tools
  <2>2. IsThinned(names, effects') /\ Len(effects') = Len(done) + 1
    BY <1>5, <1>8, <2>1, ThinnedOfMore, OneMore
  <2>. QED
    BY <1>5, <1>6, <1>8, <2>2 DEF ToldRight
<1>. QED
  BY <1>4, <1>7, <1>8 DEF Affects

\* The row and its first event.
LEMMA OpenedTrace ==
  ASSUME happened = << >>, Opened
  PROVE  /\ events' \in Seq(Logged) /\ Len(events') = 1 /\ events' # << >>
         /\ Head(events') = RunEvent("run_started")
         /\ StepsOf(events') = << >>
<1>1. PICK none \in Seq(Logged) : none = << >>
  <2>1. << >> \in Seq(Logged)
    OBVIOUS
  <2>. QED
    BY <2>1
<1>2. RunEvent("run_started") \in Logged
  BY StepsGrow, <1>1 DEF RunNames
<1>3. events' = Append(none, RunEvent("run_started"))
  BY <1>1 DEF Opened
<1>4. StepsOf(events') = StepsOf(none)
  BY <1>1, <1>3, StepsGrow DEF RunNames
<1>5. StepsOf(none) = << >>
  BY <1>1, SelectionOfNothing DEF StepsOf
<1>6. Head(events') = RunEvent("run_started")
  BY DEF Opened
<1>7. events' \in Seq(Logged) /\ Len(events') = 1 /\ events' # << >>
  BY <1>1, <1>2, <1>3, OneMore
<1>. QED
  BY <1>4, <1>5, <1>6, <1>7

LEMMA StartingKeeps == ASSUME IInv, StartTrace PROVE IInv'
<1> USE DEF IInv
<1>1. /\ pc = "start" /\ happened = << >> /\ events = << >> /\ results = << >> /\ row = "none"
      /\ unrecorded = << >> /\ tracing /\ answer = "none" /\ status = "none"
  BY DEF StartTrace, Bounds
<1>2. /\ pc' = "call" /\ iteration' = iteration /\ executed' = executed /\ batch' = batch
      /\ results' = results /\ seen' = seen /\ answer' = answer /\ status' = status
      /\ effects' = effects /\ happened' = happened /\ unrecorded' = unrecorded
  BY DEF StartTrace
<1>3. events \in Seq(Logged) /\ StepsOf(events) = << >>
  BY <1>1, SelectionOfNothing DEF StepsOf, TypeOK, Logged, RunNames
<1>4. \/ /\ row' = "running" /\ events' \in Seq(Logged) /\ Len(events') = 1 /\ events' # << >>
         /\ Head(events') = RunEvent("run_started") /\ StepsOf(events') = << >>
      \/ ~tracing' /\ row' = row /\ events' = events
  BY <1>1, OpenedTrace DEF StartTrace, Opened
<1>5. tracing' \in BOOLEAN /\ faults' \in 0 .. MaxFaults /\ faults' \in Nat
  <2>1. tracing' \in BOOLEAN
    BY DEF StartTrace, TypeOK
  <2>2. faults' \in 0 .. MaxFaults /\ faults' \in Nat
    BY ConstantsAssumption DEF StartTrace, TypeOK, Fault
  <2>. QED
    BY <2>1, <2>2
<1>6. faults' >= faults /\ faults \in Nat
  BY ConstantsAssumption DEF StartTrace, TypeOK, Fault
<1>7. TypeOK'
  BY <1>1, <1>2, <1>3, <1>4, <1>5 DEF TypeOK, Logged, RunNames
<1>8. Paced' /\ Counted' /\ ToldAll'
  BY <1>1, <1>2 DEF Paced, Counted, ToldAll
<1>9. ToldRight'
  BY <1>2, <1>5, <1>6, NothingTold
<1>10. Bounds' /\ Ended'
  BY <1>1, <1>2 DEF Bounds, Ended
<1>11. Traced'
  <2>1. IsThinned(StepsOf(events') \o unrecorded', happened')
    BY <1>1, <1>2, <1>3, <1>4 DEF Traced
  <2>2. Len(<< >>) = 0
    OBVIOUS
  <2>. QED
    BY <1>1, <1>2, <1>4, <1>5, <2>1, <2>2 DEF Traced
<1>. QED
  BY <1>7, <1>8, <1>9, <1>10, <1>11
LEMMA NotConfiguredKeeps == ASSUME IInv, NotConfigured PROVE IInv'
<1> USE DEF IInv, NotConfigured, trace
<1>1. /\ happened = << >> /\ effects = << >> /\ row = "none" /\ answer = "none"
      /\ unrecorded = << >> /\ results = << >>
  BY DEF Bounds
<1>2. TypeOK'
  BY DEF TypeOK
<1>3. Paced' /\ Counted' /\ ToldAll'
  BY <1>1 DEF Paced, Counted, ToldAll
<1>4. ToldRight'
  BY ConstantsAssumption, NothingTold DEF TypeOK
<1>5. Bounds' /\ Ended'
  BY <1>1 DEF Bounds, Ended
<1>6. Traced'
  BY <1>1 DEF Traced
<1>. QED
  BY <1>2, <1>3, <1>4, <1>5, <1>6

\* What a step leaves alone.
Loop == <<pc, iteration, executed, batch, results, seen, answer, status, effects, happened>>

\* The event of the last step is added to those before, or left out.
LEMMA EventRecorded ==
  ASSUME IInv, unrecorded # << >>, events' \in {events, events \o unrecorded},
         unrecorded' = << >>, happened' = happened
  PROVE  /\ events' \in Seq(Logged) /\ unrecorded' \in Seq(Event)
         /\ Len(unrecorded) = 1 /\ Len(unrecorded') = 0 /\ Len(events) \in Nat
         /\ events' = events \o unrecorded =>
               Len(events') = Len(events) + 1 /\ events' # << >>
         /\ events # << >> => events' # << >> /\ Head(events') = Head(events)
         /\ IsThinned(StepsOf(events') \o unrecorded', happened')
<1> USE DEF IInv
<1>1. PICK log \in Seq(Logged), all \in Seq(Event) : log = events /\ all = happened
  BY DEF TypeOK, Logged, RunNames
<1>2. Len(unrecorded) = 1 /\ unrecorded \in Seq(Event)
  <2>1. Len(unrecorded) <= 1 /\ unrecorded \in Seq(Event)
    BY DEF TypeOK, Traced
  <2>2. \A n \in Nat \ {0} : n <= 1 => n = 1
    OBVIOUS
  <2>3. Len(unrecorded) \in Nat \ {0}
    BY <2>1, EmptySeq
  <2>. QED
    BY <2>1, <2>2, <2>3
<1>3. PICK e \in Event : unrecorded = <<e>>
  BY <1>2
<1>4. e \in Logged
  BY StepsGrow, <1>1
<1>5. PICK steps \in Seq(Event) : steps = StepsOf(log)
  BY StepsGrow
<1>6. IsThinned(Append(steps, e), all)
  <2>1. IsThinned(steps \o unrecorded, all)
    BY <1>1, <1>5 DEF Traced
  <2>2. steps \o unrecorded = Append(steps, e)
    BY <1>3, OneMore
  <2>. QED
    BY <2>1, <2>2
<1>7. events \o unrecorded = Append(log, e)
  BY <1>1, <1>3, <1>4, OneMore
<1>8. unrecorded' \in Seq(Event) /\ Len(unrecorded') = 0
  BY EmptySeq
<1>9. CASE events' = events
  <2>1. StepsOf(events') \o unrecorded' = steps
    BY <1>1, <1>5, <1>9, OneMore, <1>3
  <2>2. IsThinned(steps, all)
    BY <1>6, ThinnedFurther
  <2>3. events \o unrecorded # events
    BY <1>1, <1>4, <1>7, OneMore
  <2>. QED
    BY <1>1, <1>2, <1>8, <1>9, <2>1, <2>2, <2>3, LenProperties
<1>10. CASE events' = events \o unrecorded
  <2>1. PICK more \in Seq(Event) : more = Append(steps, e)
    BY AppendProperties
  <2>2. StepsOf(events') \o unrecorded' = more
    BY <1>4, <1>5, <1>7, <1>10, <2>1, StepsGrow, OneMore
  <2>3. /\ events' \in Seq(Logged) /\ events' # << >> /\ Len(log) \in Nat
        /\ Len(events') = Len(log) + 1 /\ (log # << >> => Head(events') = Head(log))
    BY <1>4, <1>7, <1>10, OneMore
  <2>4. IsThinned(StepsOf(events') \o unrecorded', happened')
    BY <1>1, <1>6, <2>1, <2>2
  <2>. QED
    BY <1>1, <1>2, <1>8, <2>3, <2>4
<1>. QED
  BY <1>9, <1>10

LEMMA RecordingKeeps == ASSUME IInv, Record PROVE IInv'
<1> USE DEF IInv
<1>1. /\ unrecorded # << >> /\ unrecorded' = << >> /\ UNCHANGED Loop
      /\ tracing' = tracing /\ row' = row /\ pc \notin {"start", "over"}
      /\ events' \in {events, events \o unrecorded}
      /\ faults \in Nat /\ faults' \in Nat /\ faults' \in 0 .. MaxFaults /\ faults' >= faults
  BY ConstantsAssumption DEF Record, loop, Loop, Bounds, TypeOK, Fault
<1>2. /\ events' \in Seq(Logged) /\ unrecorded' \in Seq(Event)
      /\ Len(unrecorded) = 1 /\ Len(unrecorded') = 0 /\ Len(events) \in Nat
      /\ events' = events \o unrecorded => Len(events') = Len(events) + 1 /\ events' # << >>
      /\ events # << >> => events' # << >> /\ Head(events') = Head(events)
      /\ IsThinned(StepsOf(events') \o unrecorded', happened')
  BY <1>1, EventRecorded DEF Loop
<1>3. TypeOK'
  BY <1>1, <1>2 DEF TypeOK, Loop, Logged, RunNames
<1>4. Paced' /\ Counted' /\ ToldAll'
  BY <1>1 DEF Paced, Counted, ToldAll, Loop
<1>5. ToldRight'
  BY <1>1, NothingTold DEF Loop
<1>6. Bounds' /\ Ended'
  BY <1>1 DEF Bounds, Ended, Loop
<1>7. Traced'
  <2>1. row \notin {"completed", "failed"}
    BY <1>1 DEF Traced
  <2>2. tracing => /\ row = "running" /\ events # << >>
                   /\ Len(happened) + 1 <= Len(events) + Len(unrecorded) + faults
    BY <1>1 DEF Traced, TypeOK
  <2>3. tracing => /\ events' # << >> /\ Head(events') = Head(events)
                   /\ Len(happened) + 1 <= Len(events') + Len(unrecorded') + faults'
    <3>1. CASE tracing /\ events' = events \o unrecorded /\ faults' = faults
      BY <1>2, <2>2, <3>1
    <3>2. CASE tracing /\ events' \in {events, events \o unrecorded} /\ faults' = faults + 1
      BY <1>1, <1>2, <2>2, <3>2
    <3>. QED
      BY <3>1, <3>2 DEF Record, Fault
  <2>4. ~tracing => events' = events
    BY DEF Record
  <2>. QED
    BY <1>1, <1>2, <2>1, <2>2, <2>3, <2>4 DEF Traced, Loop
<1>. QED
  BY <1>3, <1>4, <1>5, <1>6, <1>7
\* The row is closed with its last event.
LEMMA ClosedTrace ==
  ASSUME IInv, pc = "close", unrecorded = << >>, row = "running", Closed, NEW name,
         name = IF answer = "text" THEN "run_completed" ELSE "run_failed"
  PROVE  /\ row' = IF answer = "text" THEN "completed" ELSE "failed"
         /\ events' \in Seq(Logged) /\ events' # << >>
         /\ Len(events) \in Nat /\ Len(events') = Len(events) + 1
         /\ Last(events') = RunEvent(name) /\ Head(events') = RunEvent("run_started")
         /\ StepsOf(events') = StepsOf(events)
<1> USE DEF IInv
<1>1. PICK log \in Seq(Logged) : log = events
  BY DEF TypeOK, Logged, RunNames
<1>2. events # << >> /\ Head(events) = RunEvent("run_started")
  BY DEF Traced
<1>3. name \in RunNames
  BY DEF RunNames
<1>4. events' = Append(events, RunEvent(name))
     /\ row' = IF answer = "text" THEN "completed" ELSE "failed"
  BY DEF Closed
<1>5. RunEvent(name) \in Logged /\ StepsOf(events') = StepsOf(events)
  BY <1>1, <1>3, <1>4, StepsGrow
<1>. QED
  BY <1>1, <1>2, <1>4, <1>5, OneMore

LEMMA ClosingKeeps == ASSUME IInv, Close PROVE IInv'
<1> USE DEF IInv
<1>1. /\ pc = "close" /\ unrecorded = << >> /\ pc' = "over" /\ status' = StatusOf(answer)
      /\ iteration' = iteration /\ executed' = executed /\ batch' = batch /\ results' = results
      /\ seen' = seen /\ answer' = answer /\ effects' = effects /\ happened' = happened
      /\ unrecorded' = unrecorded /\ tracing' = tracing
  BY DEF Close
<1>2. answer \in {"text", "GLMError", "Exception"} /\ status = "none"
  BY <1>1 DEF TypeOK, Bounds
<1>3. /\ faults \in Nat /\ faults' \in Nat /\ faults' \in 0 .. MaxFaults /\ faults' >= faults
      /\ Len(events) \in Nat
  BY ConstantsAssumption, LenProperties DEF Close, TypeOK, Fault
<1>4. row \in {"none", "running"} /\ (tracing => row = "running")
  BY <1>1 DEF TypeOK, Traced
<1>5. /\ status' = "200" => answer = "text"
      /\ status' = "502" => answer = "GLMError"
      /\ status' \in {"200", "500", "502"}
  BY <1>1, <1>2 DEF StatusOf
<1>6. Paced' /\ Counted' /\ ToldAll'
  BY <1>1 DEF Paced, Counted, ToldAll
<1>7. ToldRight'
  BY <1>1, <1>3, NothingTold
<1>8. Bounds' /\ Ended'
  BY <1>1, <1>2, <1>5 DEF Bounds, Ended
<1>9. CASE tracing /\ Closed
  <2>1. PICK name : name = IF answer = "text" THEN "run_completed" ELSE "run_failed"
    OBVIOUS
  <2>2. /\ row' = IF answer = "text" THEN "completed" ELSE "failed"
        /\ events' \in Seq(Logged) /\ events' # << >>
        /\ Len(events') = Len(events) + 1
        /\ Last(events') = RunEvent(name) /\ Head(events') = RunEvent("run_started")
        /\ StepsOf(events') = StepsOf(events)
    BY <1>1, <1>4, <1>9, <2>1, ClosedTrace
  <2>3. TypeOK'
    BY <1>1, <1>3, <1>5, <2>2 DEF TypeOK, Logged, RunNames
  <2>4. IsThinned(StepsOf(events') \o unrecorded', happened')
    BY <1>1, <2>2 DEF Traced
  <2>5. Len(happened) + 2 <= Len(events') + faults' \/ ~tracing
    <3>1. Len(<< >>) = 0
      OBVIOUS
    <3>2. Len(happened) \in Nat
      BY LenProperties DEF TypeOK
    <3>. QED
      BY <1>1, <1>3, <2>2, <3>1, <3>2 DEF Traced
  <2>6. Traced'
    BY <1>1, <1>2, <2>1, <2>2, <2>4, <2>5 DEF Traced
  <2>. QED
    BY <1>6, <1>7, <1>8, <2>3, <2>6
<1>10. CASE row' = row /\ events' = events /\ (tracing => faults' = faults + 1)
  <2>1. TypeOK'
    BY <1>1, <1>3, <1>5, <1>10 DEF TypeOK
  <2>2. IsThinned(StepsOf(events') \o unrecorded', happened')
    BY <1>1, <1>10 DEF Traced
  <2>3. tracing => Len(happened) + 2 <= Len(events') + faults'
    <3>1. Len(<< >>) = 0
      OBVIOUS
    <3>2. Len(happened) \in Nat
      BY LenProperties DEF TypeOK
    <3>. QED
      BY <1>1, <1>3, <1>10, <3>1, <3>2 DEF Traced
  <2>4. Traced'
    BY <1>1, <1>2, <1>4, <1>10, <2>2, <2>3 DEF Traced
  <2>. QED
    BY <1>6, <1>7, <1>8, <2>1, <2>4
<1>. QED
  BY <1>9, <1>10 DEF Close, Fault, trace

\* A failed approval ends the run; what it committed the model is not told.
LEMMA ApprovalFailureKeeps == ASSUME IInv, ApprovalFails PROVE IInv'
<1> USE DEF IInv, ApprovalFails, RunTool, trace
<1>1. /\ pc' = "close" /\ answer' = "Exception" /\ answer = "none" /\ status = "none"
      /\ unrecorded = << >>
  BY DEF Bounds
<1>2. /\ faults \in Nat /\ faults' \in Nat /\ faults' \in 0 .. MaxFaults
      /\ (faults' = faults /\ effects' = effects) \/ faults' = faults + 1
  BY ConstantsAssumption DEF TypeOK, Fault
<1>3. effects' = effects \/ Affects(Head(batch))
  BY DEF Committed, Affects
<1>4. TypeOK'
  <2>1. effects' \in Seq(Ordinary \cup Sensitive)
    <3>1. effects \in Seq(Ordinary \cup Sensitive)
      BY DEF TypeOK
    <3>2. CASE effects' = effects
      BY <3>1, <3>2
    <3>3. CASE Affects(Head(batch))
      BY <3>1, <3>3, AppendProperties DEF Affects
    <3>. QED
      BY <1>3, <3>2, <3>3
  <2>. QED
    BY <1>1, <1>2, <2>1 DEF TypeOK
<1>5. Paced' /\ Counted' /\ ToldAll'
  BY <1>1 DEF Paced, Counted, ToldAll
<1>6. ToldRight'
  BY <1>2, <1>3, NothingTold
<1>7. Bounds' /\ Ended'
  BY <1>1 DEF Bounds, Ended
<1>8. Traced'
  <2>1. Len(events) \in Nat /\ Len(happened) \in Nat /\ Len(<< >>) = 0
    BY LenProperties, EmptySeq DEF TypeOK
  <2>. QED
    BY <1>1, <1>2, <2>1 DEF Traced
<1>. QED
  BY <1>4, <1>5, <1>6, <1>7, <1>8

\* A crash takes the event of the last step with it.
LEMMA CrashKeeps == ASSUME IInv, Crash PROVE IInv'
<1> USE DEF IInv, Crash, trace
<1>1. TypeOK'
  BY EmptySeq DEF TypeOK
<1>2. Paced' /\ Counted'
  BY DEF Paced, Counted
<1>3. ToldAll'
  BY DEF ToldAll
<1>4. ToldRight'
  BY ConstantsAssumption, NothingTold DEF TypeOK
<1>5. Bounds' /\ Ended'
  BY DEF Bounds, Ended
<1>6. IsThinned(StepsOf(events') \o unrecorded', happened')
  <2>1. CASE unrecorded = << >>
    BY <2>1 DEF Traced
  <2>2. CASE unrecorded # << >>
    BY <2>2, EventRecorded
  <2>. QED
    BY <2>1, <2>2
<1>7. Traced'
  <2>1. Len(<< >>) = 0
    OBVIOUS
  <2>. QED
    BY <1>6, <2>1 DEF Traced
<1>. QED
  BY <1>1, <1>2, <1>3, <1>4, <1>5, <1>7
--------------------------------------------------------------------------------
\* The invariant.

LEMMA StutteringKeeps == ASSUME IInv, UNCHANGED vars PROVE IInv'
<1> USE DEF IInv, vars, loop, trace
<1>1. TypeOK' /\ Paced'
  BY DEF TypeOK, Paced
<1>2. Counted' /\ ToldAll' /\ ToldRight'
  BY DEF Counted, ToldAll, ToldRight
<1>3. Bounds' /\ Ended'
  BY DEF Bounds, Ended
<1>4. Traced'
  BY DEF Traced
<1>. QED
  BY <1>1, <1>2, <1>3, <1>4

LEMMA IInvInit == ASSUME Init PROVE IInv
<1> USE DEF Init
<1>1. TypeOK
  BY ConstantsAssumption DEF TypeOK
<1>2. PICK none \in Seq({}) : none = << >> /\ Len(none) = 0 /\ none \o none = none
  <2>1. << >> \in Seq({}) /\ Len(<< >>) = 0 /\ << >> \o << >> = << >>
    OBVIOUS
  <2>. QED
    BY <2>1
<1>3. ToolsIn(none) = none /\ DoneIn(none) = none /\ StepsOf(none) = none
  BY <1>2, SelectionOfNothing DEF ToolsIn, DoneIn, StepsOf
<1>4. NamesOf(none) = none /\ NamesIn(none) = none
  BY <1>2, <1>3 DEF NamesOf, NamesIn
<1>5. IsThinned(none, none)
  BY <1>2, NothingIsThinned
<1>6. /\ happened = none /\ seen = none /\ results = none /\ effects = none /\ events = none
      /\ unrecorded = none
  BY <1>2
<1>7. Paced
  BY ConstantsAssumption DEF Paced
<1>8. Counted
  BY <1>2, <1>3, <1>6 DEF Counted
<1>9. ToldAll
  BY <1>2, <1>4, <1>6 DEF ToldAll
<1>10. ToldRight
  BY <1>2, <1>3, <1>4, <1>5, <1>6 DEF ToldRight
<1>11. Bounds /\ Ended
  BY DEF Bounds, Ended
<1>12. Traced
  BY <1>2, <1>3, <1>5, <1>6 DEF Traced
<1>. QED
  BY <1>1, <1>7, <1>8, <1>9, <1>10, <1>11, <1>12 DEF IInv

LEMMA IInvStep == ASSUME IInv, [Next]_vars PROVE IInv'
<1>1. CASE ModelAnswers \/ ModelWantsTools \/ ModelSendsNonsense \/ ModelFails
  BY <1>1, ModelSteps, AskingKeeps DEF IInv
<1>2. CASE RequestApproval \/ UnknownTool \/ ToolSucceeds \/ ToolRefuses \/ ToolRaises
              \/ ToolStoreFails
  BY <1>2, ToolSteps, RunningKeeps DEF IInv
<1>3. CASE StartTrace
  BY <1>3, StartingKeeps
<1>4. CASE NotConfigured
  BY <1>4, NotConfiguredKeeps
<1>5. CASE Record
  BY <1>5, RecordingKeeps
<1>6. CASE Close
  BY <1>6, ClosingKeeps
<1>7. CASE ApprovalFails
  BY <1>7, ApprovalFailureKeeps
<1>8. CASE Crash
  BY <1>8, CrashKeeps
<1>9. CASE UNCHANGED vars
  BY <1>9, StutteringKeeps
<1>. QED
  BY <1>1, <1>2, <1>3, <1>4, <1>5, <1>6, <1>7, <1>8, <1>9 DEF Next, Step

\* Whatever the model answers and whatever fails, the run, its results and its trace fit.
THEOREM Inductive == Spec => []IInv
<1>1. Init => IInv
  BY IInvInit
<1>2. IInv /\ [Next]_vars => IInv'
  BY IInvStep
<1>. QED
  BY <1>1, <1>2, PTL DEF Spec

--------------------------------------------------------------------------------

\* Whatever the model asks for, and whatever fails, the run is what it is declared to be.
THEOREM TypeCorrect == Spec => []TypeOK
<1>1. IInv => TypeOK
  BY DEF IInv
<1>. QED
  BY <1>1, Inductive, PTL

\* However many tools the model asks for in a response, no more than MaxToolIterations
\* are run, and the model is asked again only with the result of each tool that ran
\* (app/agent/agent.py, Agent.run).
THEOREM BudgetIsHeld == Spec => []BudgetHeld
<1>1. ASSUME IInv PROVE BudgetHeld
  <2> USE <1>1 DEF IInv
  <2>1. iteration \in Nat /\ executed \in Nat /\ MaxToolIterations \in Nat
    BY ConstantsAssumption DEF TypeOK
  <2>2. Len(ToolsIn(happened)) <= MaxToolIterations
    BY <2>1 DEF Counted, Paced
  <2>3. Len(happened) <= 2 * MaxToolIterations + 1
    BY <2>1 DEF Counted, Paced
  <2>4. ASSUME pc = "call" PROVE NamesOf(seen) = NamesIn(happened)
    <3>1. seen \o results = seen
      BY <2>4, ConcatEmptySeq DEF ToldAll, TypeOK
    <3>. QED
      BY <3>1 DEF ToldAll
  <2>. QED
    BY <2>2, <2>3, <2>4 DEF BudgetHeld, NamesIn
<1>. QED
  BY <1>1, Inductive, PTL

\* The model is never told that something was done which was not, and it answers without
\* knowing of something done only if the answer of a transaction was lost
\* (app/agent/agent.py, Agent._run_tool).
THEOREM EffectsAreKnown == Spec => []AnswerKnowsEffects
<1>1. ASSUME IInv PROVE AnswerKnowsEffects
  <2> USE <1>1 DEF IInv
  <2>1. ASSUME answer = "text" PROVE Len(effects) - Len(DoneIn(seen)) <= faults
    <3>1. seen \in Seq(Result)
      BY DEF TypeOK, Result
    <3>2. seen \o results = seen
      BY <2>1, <3>1, ConcatEmptySeq DEF ToldAll
    <3>3. Len(effects) \in Nat /\ Len(DoneIn(seen)) \in Nat /\ faults \in Nat
      BY <3>1, DoneType, LenProperties, ConstantsAssumption DEF TypeOK
    <3>. QED
      BY <3>2, <3>3 DEF ToldRight
  <2>. QED
    BY <2>1 DEF ToldRight, AnswerKnowsEffects
<1>. QED
  BY <1>1, Inductive, PTL

\* What the recorder keeps of a run is a part of it, in its order, closed the way the run
\* ended; and no more is missing than transactions failed
\* (app/observability/manager.py, TraceRecorder).
THEOREM TraceIsFaithful == Spec => []TraceFaithful
<1>1. ASSUME IInv PROVE TraceFaithful
  <2> USE <1>1 DEF IInv
  <2>1. PICK steps \in Seq(Event), all \in Seq(Event) : steps = StepsOf(events) /\ all = happened
    <3>1. events \in Seq(Logged)
      BY DEF TypeOK, Logged, RunNames
    <3>. QED
      BY <3>1, StepsGrow DEF TypeOK
  <2>2. IsThinned(steps \o unrecorded, all) /\ unrecorded \in Seq(Event) /\ Len(unrecorded) <= 1
    BY <2>1 DEF TypeOK, Traced
  <2>3. IsThinned(steps, all)
    <3>1. CASE unrecorded = << >>
      BY <2>2, <3>1, ConcatEmptySeq
    <3>2. CASE unrecorded # << >>
      <4>1. \A n \in Nat \ {0} : n <= 1 => n = 1
        OBVIOUS
      <4>2. Len(unrecorded) = 1 /\ unrecorded \in Seq(Event)
        BY <2>2, <3>2, <4>1, EmptySeq
      <4>3. PICK e \in Event : unrecorded = <<e>>
        <5>1. PICK e \in Event : e = unrecorded[1]
          <6>1. 1 \in 1 .. Len(unrecorded)
            BY <4>2
          <6>2. unrecorded[1] \in Event
            BY <4>2, <6>1, ElementOfSeq
          <6>. QED
            BY <6>2
        <5>2. <<e>> \in Seq(Event) /\ Len(<<e>>) = 1 /\ <<e>>[1] = e
          OBVIOUS
        <5>. QED
          BY <4>2, <5>1, <5>2, SeqEqual
      <4>4. IsThinned(Append(steps, e), all)
        BY <2>2, <4>3, OneMore
      <4>. QED
        BY <4>4, ThinnedFurther
    <3>. QED
      BY <3>1, <3>2
  <2>4. ASSUME pc = "over", answer # "none", tracing
        PROVE  Len(happened) + 2 - Len(events) <= faults
    <3>1. Len(happened) \in Nat /\ Len(events) \in Nat /\ faults \in Nat
      BY LenProperties, ConstantsAssumption DEF TypeOK
    <3>. QED
      BY <2>4, <3>1 DEF Traced
  <2>. QED
    BY <2>1, <2>3, <2>4 DEF TraceFaithful, Traced
<1>. QED
  BY <1>1, Inductive, PTL

\* Only a run that the model ended with a text is answered 200, only one that ended with a
\* failure of the model 502, and behind a 503 nothing has happened (routes.py, chat).
THEOREM StatusIsTruthful == Spec => []StatusTruthful
<1>1. IInv => StatusTruthful
  BY DEF IInv, Ended, StatusTruthful
<1>. QED
  BY <1>1, Inductive, PTL
================================================================================
