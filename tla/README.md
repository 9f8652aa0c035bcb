# Verification of DibantuAI

TLA+ specifications of the parts of DibantuAI that decide money, stock, messages, memories
and knowledge: the approval store with its executor and its dashboard page, the business
transactions and the report about them, the agent's tool loop and its trace, the WhatsApp
webhook, the agent's memory, the knowledge store, and the start of the server with its
migrations. TLC checks them on small instances; TLAPS proves the safety results of every
component, and three refinements, for every value of the constants.

## The system

| Component | State it keeps | Operations | Hard behaviours |
| --- | --- | --- | --- |
| Approvals (`app/approval`, endpoints in `app/api/routes.py`) | `approvals` rows: status, payload, times, result or error | create, approve, reject, execute (claim, tool, record) | racing decisions and executions, death between claim and record, lost COMMIT answers |
| Business transactions (`app/tools`, `app/db`) | `products.stock_quantity`, `orders` with items, `customers` aggregates | create_order, update_stock, bulk_stock_update, refund_order, cancel_order | row locks and their order, unlocked reads, numbers drawn before the INSERT |
| WhatsApp webhook (`app/whatsapp`) | `whatsapp_events` rows, background tasks | claim, run the agent, send the chunks, mark | redelivery, duplicates, concurrent workers, partial failure of a batch |
| Agent loop (`app/agent`) | the conversation of one request | call the model, run tools, ask for approvals | budget spent in the middle of a batch, errors after a tool took effect |
| Observability (`app/observability`) | `agent_runs`, `agent_events` | start, record, complete, fail; all best effort | runs left running |
| Knowledge (`app/rag`) | a Chroma collection with one row per passage, the provider recorded with it | ingest (read the files, compare, delete, add), search | overlapping ingests, edits and deaths in the middle, a store that is emptied under a search |
| Memory (`app/memory`) | `agent_memories`, the owner a run is bound to | save, search, list, get, update, delete | owners of concurrent runs, two statements of a delete, what a limit leaves out |
| Deployment (`alembic`, `app/db/seed.py`, `docker/entrypoint.sh`) | the schema revision, the seeded rows | upgrade, seed, serve, downgrade | several containers at once, deaths, a schema taken back under a running server |
| Dashboard (`frontend`) | lists polled from the API | decide, execute, refresh | answers out of order, buttons on an old list |

The agent loop calls the business tools directly for `create_order` and `update_stock`.
A refund, a cancellation or a bulk correction becomes a pending approval instead; a human
decides it over the API, and an execute request runs the tool once. The webhook runs the
agent for each message that it is the first to claim. All of them share one PostgreSQL
database through `session_scope`: a committed transaction is the unit of what other
requests can see. Tracing is written along the way and never stops the caller.

What makes each component correct: an approved action takes effect at most once and its
row says what happened; stock is never negative and nothing is lost or counted twice; a
message is run at most once and, once acknowledged, is not dropped; a run's trace agrees
with its outcome; after an ingest each document is stored whole and in one edition; a
memory is only seen and changed by its owner; a server serves the schema it was written
for, and no start or upgrade forgets what the business did.

## Modules

| Module | What it is |
| --- | --- |
| `ApprovalLifecycle` | abstract: statuses and at most one effect per approval |
| `ApprovalExecution` | the approvals table, the decision endpoints, `execute_approval` and its trace |
| `ApprovalExecutionProofs` | theorems about `ApprovalExecution` and `ApprovalsView` |
| `Shop` | abstract: whole sales, corrections, refunds and cancellations on stock and orders |
| `OrderTransactions` | the business tools statement by statement, over READ COMMITTED row locks |
| `SalesReport` | composes: the four statements of the report beside `OrderTransactions` |
| `OrderTransactionsProofs` | theorems about `OrderTransactions` and `SalesReport` |
| `ApprovalsView` | composes: the approvals page of the dashboard over `ApprovalExecution` |
| `Correspondence` | abstract: a message is run once and gets one reply, in order |
| `ReplyText` | pure: from the agent's Markdown to the chunks of text that are sent |
| `WhatsAppLedger` | settings, deliveries, claims, background runs, replies and the ledger |
| `WhatsAppLedgerProofs` | theorems about `WhatsAppLedger` |
| `Subsequences` | pure: what remains of a sequence when elements are left out |
| `AgentRun` | one chat request: the agent loop, the GLM client, the trace, the HTTP status |
| `AgentRunProofs` | theorems about `AgentRun` |
| `AgentMemory` | memories and owner scopes of concurrent runs and API calls |
| `AgentMemoryProofs` | theorems about `AgentMemory` |
| `Chunker` | pure: a document cut into passages |
| `KnowledgeIngest` | concurrent ingests, edits and deaths over the vector store |
| `KnowledgeIngestProofs` | theorems about `Chunker` and `KnowledgeIngest` |
| `Deployment` | migrations, seed and entrypoint of several containers |
| `DeploymentProofs` | theorems about `Deployment` |
| `InductionLemmas` | lemmas the proofs share: least elements, sums over a set, subsequences, sequences put together, loops |
| `MC...` | instances for TLC |

**ApprovalExecution.** `rows` is the `approvals` table (timestamps, result and error are
kept as "set or not"), `work[w]` the program point and locals of a request, `applied[a]`
the payloads whose business transaction committed, `timeline[a]` the approval's events and
the executor's trace run. One action is one committed transaction with the control flow up
to the next: `Decide` is the guarded UPDATE and the re-read of `_decide`; an execution
goes `ReadForExecution`, `Claim` (or `Conflict`), `TraceStart`, `RunTool`, `Record`,
`TraceFinish`, `Reread`, `Respond`. The `...Fails` actions are the SQLAlchemyError paths,
with and without the commit having taken effect.

**OrderTransactions.** `stock`, `orders` and `customers` are the committed tables; `tx[s]`
is the open transaction of a session: its request, the products it still has to lock, the
locks it holds, the customer as it read it, the number it drew. Writes reach the tables
at the COMMIT only, which is exact at READ COMMITTED because what is read unlocked is read
by other transactions in its committed version. `Asks`, `LockProduct` and `LockOrder` are
the `FOR UPDATE` statements in the order the code issues them; `ReadCustomer` and
`ReadNumber` take no lock; inserts of one key wait for each other. PostgreSQL's deadlock
detection aborts a member of a circle (`DeadlockVictim`). The tables hold whole cents, but
a refund may have any fraction of one: it is compared as it is, and rounded when it is
written (`ToCents`). Whole cents and the rounding tell only whether a fraction is none,
less than half, half or more, so amounts of refunds are in quarters of a cent.

**SalesReport** adds `shown`, the orders each statement of `get_reports` counted, and
`amended`, a history of the orders whose status changed meanwhile. A seeded order has an
age in days; what is placed later is new.

**ApprovalsView** adds the list on the screen, requests and answers under way, and which
card is busy with which worker. The page is open and visible; a server that dies is to it
a server that answered an error; a card is freed when its button is answered, which is a
little earlier than in the code, where the new list is awaited first (so the model has
more presses than the page).

**WhatsAppLedger.** `ledger` is `whatsapp_events`, `job[r]` a webhook request with the
messages it still has to claim and those it has to handle, `runs`, `parts` and `inbox`
record what the agent and the customer saw. `Claim` is one INSERT ... ON CONFLICT DO
NOTHING; `ClaimFails` is the 503, which forgets everything the request claimed;
`Acknowledge` is the 200 after which the background tasks run one by one: `StartRun`,
`FinishRun`, `SendText` for each chunk, `Mark`. A send that fails is marked (`SendFails`);
one that raises what `process_message` does not catch ends the request and drops what it
still had to handle (`SendEscapes`; `dropped` remembers these messages). Meta may deliver
any envelope at any time.
`Answer` is the order of the endpoint's refusals (JSON, signature, envelope, integration
off); `Dismiss` are the 200s that have nothing to do. `replies` holds what the agent
answers and its chunks, computed by `ReplyText`: lists, headings and tables line by line
(`FormatReply`), then the cut at the last paragraph, line or limit (`ChunkText`). A
character is a number, so that every letter of a reply can be told from every other.

**AgentRun.** `pc`, `iteration`, `executed` and `batch` are the locals of `Agent.run`;
`seen` is the `tool_result` blocks in `messages` and `results` those of the batch being
run; `tracing` is the recorder's `_ok`, `row` and `events` the rows of `agent_runs` and
`agent_events`; `effects` is what tools and approval requests committed. A response is a
sequence of blocks; `Parsed` is `_parse_response`, whose outcome decides between
`ModelAnswers`, `ModelWantsTools` and `ModelSendsNonsense`; `ModelFails` is every failure
of the HTTP call. `RequestApproval` and `ApprovalFails` are the sensitive branch of
`_run_tool`, `UnknownTool` and the `Tool...` actions its other outcomes. `Record` writes
the event of the last step, in a transaction of its own that may fail. `StatusOf` is the
`except` clauses of the endpoint. Runs share nothing but the store, so one is modelled.

**AgentMemory.** `rows` is `agent_memories`, `bound[r]` the context variable of
`owner_scope` as request `r` sees it. `StartRun` reads the context block and binds the
owner, the tools of the run use `bound`, the endpoints the key they are sent. A delete is
two steps (`FindForTool` or `FindForApi`, then `DeleteFound`), as its SELECT and DELETE
are two statements; all else is one transaction. `answer` is what the last step told whom.
A search takes the memories it may choose from (`OwnerMemories`, `Scored`), ranks them
(`Ranked`: best overlap first, newest first among equals) and cuts (`FirstOf`).

**KnowledgeIngest.** `store` is the Chroma collection; `ingest[i]` is the program
point and locals of an ingest. An ingest reads all files, opens the
collection (`_verify_provider`), then per document compares, deletes and adds. The hash of
a text is the text. `Chunker` is `chunk_document` on lines of characters: sections,
paragraphs, sentences, hard cuts, packing, and the overlap that is carried over.

**Deployment.** `db` is what is committed: the revision, and of each table as much as shows
whether it was lost. A migration is a function of `db` (`CreateApprovals`,
`DropExecution`, ...), an upgrade all missing ones in one transaction (`Migrated`). A
container goes `Start`, `Upgrade`, `LookAtProducts`, `Seed`, and serves; it may die at any
point and is restarted. The operator may downgrade at any time.

## Runs

| Run | Instance | Shows |
| --- | --- | --- |
| `approval_faults` | 2 approvals, 2 requests, 3 payloads, every fault | one effect with the stored payload, truthful outcomes, answers and timelines, the abstract lifecycle |
| `approval_liveness` | the page over 1 approval, 2 workers, 2 loads under way | the screen shows a past of the store, settles on it, and a claimed execution ends |
| `order_tools` | 2 products, 2 customers, 3 sessions, 4 calls, faults | stock never negative (`TypeOK`), every unit accounted for, refunds within the total, `Shop` |
| `order_locks` | 3 sessions, 3 calls, one of which may be a report; lists in both orders | a circle of waiting always has an unsorted list in it; the figures of a report agree; every call ends |
| `order_lost_update` | 2 sessions, 2 calls | *violated*: a sale and a refund lose one update of `total_spent` |
| `whatsapp_faults` | 2 messages, posts of every form, 3 settings, 2 requests, every fault | one run and one reply per message, a message in one pair of hands, replies that keep their content and arrive whole, `Correspondence` (terminal statuses are never overwritten) |
| `whatsapp_liveness` | 3 messages, 2 overlapping batches, 2 requests | every message closes, but for those an exception of a send dropped |
| `whatsapp_lost_message` | 2 messages, failing claims | *violated*: a message is acknowledged and never run |
| `agent_trace` | budget of 3, up to 3 blocks a response, 2 faults, a crash | the budget, what the model knows when it answers, the trace, the status, and that the run ends |
| `memory_owners` | 2 requests, 2 owners and a padded key, 2 rows, 1 fault | owners kept apart, deletes told once, searches complete, no secrets stored (`TypeOK`) |
| `knowledge_ingest` | 2 files, 2 ingests, 1 edit, 1 death; every document of 6 characters | an ingest catches up, one edition per document under one provider, passages cover the document |
| `deploy` | 2 containers, 2 refunds, 1 message, 1 downgrade, 1 death | serving at head, nothing twice, nothing forgotten but by a downgrade, every container serves again |

**Bounds.** Two requests are enough for every race here, since a claim, a decision and a
ledger row are each taken by one request against one other; there is no bound on how many
requests follow each other, nor on redeliveries, as a worker that answered is reused. Two
approvals show that rows do not interfere. Three payloads are two well formed ones, to
tell which one ran, and one that is refused. `OrderTransactions` bounds the tool calls of
a behaviour (`MaxTransactions`): two that conflict plus two that come before or after. Two
products make a circle of locks possible, stock of 2 and 1 makes sales compete, a product
3 that is not in the catalogue makes one fail. Refunds of 0.25, 2 and 2.75 cents include
one that is rounded to nothing and one that is rounded up to all that is left of an order. A report counts as one of the calls, so it meets two of them.
A budget of 3 with responses of up to 3 blocks has every relation of the two: batches that
fit, that spend it exactly, and that exceed it after earlier ones; one tool of each kind is
enough since the loop tells only kinds apart. Posts include a repeated message, an
envelope without text messages and the same message in several envelopes. Two memories
compete for a limit of one. Documents of up to 6 characters against passages of 3 with an
overlap of 2 have several passages, sentences, blanks and headings in every order; a few
longer lines have words that stand a passage apart, or one letter over and over.

Two instances begin with more data than they follow up: `whatsapp_faults` with every reply
of a few lines, `knowledge_ingest` with every short document. Their constraint `Explored`
stops at those initial states, where the text is checked, and goes on only with a few
representatives, whose contents the concurrent part does not look at.

`CHECK_DEADLOCK FALSE` stands in the order configurations because a behaviour ends when
its tool calls are used up; that no call hangs is `CallsEnd`. It stands in that of the
agent because a run ends, which is `RunEnds`, in `knowledge_ingest` because states outside
`Explored` have no successors, and in `deploy` because two containers may have used up the
bounds and have nothing to do but serve (`EachServes`). All other runs check deadlock.

**Fairness.** Weak fairness of each request's own steps: the event loop and the threadpool
keep running what they started, and PostgreSQL grants a lock that stays free. Every wait
for a lock ends with the transaction that holds it, of which there are finitely many, so
weak fairness suffices. `WhatsAppLedger` adds strong fairness of the redelivery of an
envelope that was not answered with 200: Meta retries, and only the model's small number
of request slots ever refuses it. A run of `AgentRun` is one coroutine: model calls have a
timeout, so it keeps taking steps unless the process dies. The approvals page polls on an
interval and answers arrive; that the screen settles is claimed unless the list fails to
load for ever. A container is restarted by `restart: unless-stopped`, and the steps of a
start end. Liveness of approvals, orders and messages is claimed without store faults and
crashes: with them the code does leave approvals `executing` and messages `received`.
A send may raise what nobody catches without any of these, and then messages stay
`received` as well: `EveryMessageCloses` and `AckedIsHandled` except the messages it dropped.

## What disagrees with its documentation

1. *Lost message* (`app/whatsapp/service.py:98`): claims commit one by one, a failing one
   answers 503 and schedules nothing. The redelivery finds the earlier messages claimed,
   answers 200, and nobody ever runs them.
2. *Lost update* (`app/db/repository.py:181`): customer aggregates are written back from
   an unlocked read.

The following are of the same kind but have no run of their own; the models contain the
behaviour and the properties are stated so as to be true of it.

- *Lock order* (`app/tools/business_tools.py:135`, "ordered by id to avoid deadlocks"):
  products are locked as listed, not by id, so a sale of products 2, 1 and the undo of an
  order with both wait for each other. `DeadlocksNeedUnsortedList` shows that sorting the
  lists would be enough, `CallsEnd` that PostgreSQL resolves every circle.
- *Order number* (`app/db/repository.py:138`): two sales of disjoint products draw the same
  number, and the second is answered "Business database is unreachable"
  (`app/tools/business_tools.py:73`).
- *Rounded refund* (`app/tools/sensitive_actions.py:175`): an amount is compared unrounded
  with what is left, and the column rounds it. A refund of 99.999 of 100.00 is a partial
  one that leaves a `completed` order, nothing restocked, with nothing left to refund,
  which the comment at `:157` ("status guard covers it") takes to be impossible. Refunds
  below half a cent succeed without being recorded. `RefundsBounded` and `Shop` allow both.
- *Contained failures* (`app/whatsapp/service.py:129`, "Failures are contained: ... the
  ledger row is marked failed"): a JSON answer of Meta that is no object, or whose `error`
  is a text, raises AttributeError in `client.py` (`:128`, `:141`), which is not caught
  (`service.py:158`). The message stays `received`, and the rest of its envelope is dropped
  (`SendEscapes`).
- *Approval request* (`app/agent/agent.py:379`): tool failures are documented to become
  results the model can react to (`:370`); a failing `create_pending_approval`, or an input
  for it that is no object, is not caught and ends the run (`ApprovalFails`).
- *Malformed response* (`app/agent/glm_client.py:220`): a string among the content blocks
  raises AttributeError, although "All errors surface as GLMError subclasses" (`:5`): the
  endpoint answers 500, not 502 (`Parsed`, `StatusOf`).
- *Padded key* (`GET /api/memory?q=`): a search uses the owner key as sent, every other
  call strips it (`SearchByApi`); `RecallsTheBest` says so.
- *Atomic replacement* (`app/rag/vector_store.py`, replace_source, "Atomically"): a delete
  and an add. With overlapping ingests passages of two editions can stay, so `CaughtUp` and
  `OneEdition` are stated for ingests that did not overlap.
- *Length of a passage* (`app/rag/chunker.py`): a carried tail is followed by a separator
  that was not counted, so a passage may exceed `max_chars` by two; the tail begins in the
  middle of a word when it holds no blank.
- *Empty passage* (`app/rag/chunker.py:77`): a full buffer is closed without the check that
  the last one of a section gets (`:83`), so words of a line that stand `max_chars` apart
  leave a passage of blanks. `PassagesCoverDocument` excepts such lines (`HasHoles`).
- *Content-preserving* (`app/whatsapp/formatting.py`): a row with more or fewer cells than
  the header loses the surplus, and a table that is only a header becomes nothing, which
  leaves an empty reply to send. `RepliesKeepContent` holds of well-formed tables.
- *Reversible in full* (`alembic/versions/0005_approval_execution.py`): the downgrade turns
  executed refunds back into approved ones, which the next upgrade makes executable again;
  `NothingTwice` is stated for schemas that were never taken below that revision.
- *Partial refunds* stay in the revenue of a report (`repository.sales_window`), which
  counts the full total of a completed order.

Not counted as one: the reason in the text of a 409 (`app/approval/executor.py:290`) is
read after the claim was lost, and can name an execution that nobody started.

## Proofs

Every theorem is proved from the named assumptions on the constants, which TLC evaluates
in the runs, and from nothing else. The shape is the same everywhere: an inductive
invariant `IInv` of named conjuncts, which TLC checked on the run's instance before it was
proved; a lemma for each action, or for each conjunct an action can disturb; the theorems
`Spec => []Property` by `IInv => Property`; action properties and refinements from `IInv`
and a case split over the same actions.

**Approvals** (`ApprovalExecutionProofs`; `ConstantsAssumption`, `ViewAssumption`). `TypeCorrect`, `EffectAtMostOnce`,
`OutcomeIsTruthful`, `ClaimIsExclusive`, `RowsAreCoherent`, `AnswersStand`,
`TimelineTellsTheTruth`, the action property `TransitionsAreLegal` (`SoleClaimer`,
`RowCoherent` and `LegalSteps` are left to the proofs, no run repeats them) and
`Implementation`: every behaviour is one of `ApprovalLifecycle`.
`IInv == Typed /\ Informed /\ Exclusive /\ Settled`. `Informed` says that a request's
snapshot is still the row's payload. `Exclusive` says that a request past the claim owns
the status `executing`, so the guarded UPDATE admits nobody else. `Settled` ties `applied`
to the status. `EffectOnce` is not inductive by itself: a state in which two requests hold
the same claim satisfies it, and the next two steps break it. `AnswersStand` adds
`Truthful` to it, what a request is about to answer, which later steps of others can only
move along the lifecycle (`Stands`); the timeline adds `Told`, what each program point has
traced. The page: `PageImplementsExecution`, behind it happens what `ApprovalExecution`
allows, and `ScreenShowsThePast`, by the invariant that the lists under way are ordered in
age and each is a past of the next.

**Orders** (`OrderTransactionsProofs`; `TablesAssumption`, `SeedAssumption`,
`RequestsAssumption`, `AgeAssumption`). `TypeCorrect` (stock is never negative),
`RefundsStayBounded`, `StockAddsUp`, `SortedListsNeverDeadlock`, `FiguresAgree` (the
report) and `Implementation`, that the statements over row locks implement `Shop`. Stock
stays in `Nat` because whoever checked it holds the lock until COMMIT: `Working` says of
each transaction what it holds and counts on (`Sound`, `Covered`, `Undoing`, `Numbered`),
`Exclusive` that no lock is held twice, `Contiguous` that numbers have no gaps, which is
what makes the number an INSERT draws free. What is recorded of refunds stays within the
total because rounding a value never takes it past a whole number (`RoundedWithin`). `StockAddsUp` compares the sums of two
functions that differ in one place (`SumChanges`). Deadlock is refuted by the greatest
product anybody in the circle waits for: its holder, whose list is sorted, waits for a
greater one.

**WhatsApp** (`WhatsAppLedgerProofs`; `ConstantsAssumption`, `ContentAssumption`,
`RepliesAssumption`, `LimitAssumption`). `TypeCorrect`, `OneRunPerMessage`, `Implementation`
of `Correspondence` and `TextArrives`, for any posts, settings, replies, limit and number
of requests, redelivery and faults. `IInv` says of each request that what it claimed reads `received` and is untouched
but for the message in hand (`Holds`), how far that one got (`InHand`), and that nothing
is claimed twice (`Alone`, `Apart`); `RunOnce` alone does not survive a redelivery.
`TextArrives` joins what is computed and what is sent: the chunks of any text are one at
least, fit, and make up the text (`ChunksOf`, by an invariant of the rounds of
`ChunkText`, `SoFar`), any reply is formatted to a text (`FormatReplyType`), and
what the promise allows keeps the first chunks of the reply in the inbox (`Delivered`).
`ContentIsKept` says that nothing of a well-formed reply is lost on the way to plain text.
Its letters may repeat, so it is stated between sequences: what is sent are the letters of
the answer with those of headers put between (`Conveys`). The invariant of the
lines read (`Tells`) counts an open table as told by what it will become; a table is told
row by row, cell by cell (`TableTold`, `FlushTold`).

**Agent loop** (`AgentRunProofs`; `ConstantsAssumption`). `TypeCorrect`, `BudgetIsHeld`,
`EffectsAreKnown`, `TraceIsFaithful`, `StatusIsTruthful`, for any budget, tools, responses
and faults. `Paced` bounds what is left of a batch by what is left of the budget;
`ToldAll` and `ToldRight` relate the results the model has to the tools that ran and to
what they committed; `Traced` relates the events to what happened, with the one step that
is not recorded yet.

**Memory** (`AgentMemoryProofs`; `ConstantsAssumption`). All five properties of the run:
`TypeCorrect`, `OwnersStayApart`, `OnlyTheOwnerChanges`, `DeletedIsForgotten`,
`TheBestAreRecalled`. `Table` says that rows are kept under stripped keys and that an id
is never given again, `Open` that a run is bound to the identity of the key it was sent,
`Reply` what the last answer names. Owners are stripped where they are written, so a
search with a key as sent finds rows of its own identity or none. The ranking exists
because a place in it is the number of memories ahead (`ListExists`), and holds every
memory because no place is left over (`NoPlaceLeft`).

**Knowledge** (`KnowledgeIngestProofs`; `KnowledgeAssumption`, `DirectoriesAssumption`,
`ChunkerAssumption`). `EditionsStayWhole`, `EndsUpToDate` and `PassagesCover`. `Typed`,
`Opened` and `ReadsWell` hold of any ingests; the rest (`Alone`) only while no two
overlapped, and says for each document whether the ingest has been through it, is replacing
it, or has not come to it.
`PassagesCover` is a fact about the chunker, for documents, lines and words of any length,
any limit above one and any overlap, also one longer than the limit (`DocumentIsCovered`).
Each of its five loops has an invariant that says what was read so far in letters under
titles: characters into sentences (`Reads`), sentences into pieces (`Packed`), pieces into
passages (`Half`), sections into passages (`Chain`), lines into sections (`Gathers`).
`Half` is the hard one: the buffer may begin with a tail that was told before, so it says
how many of its letters are new, and that they will be when it is closed. An empty passage
needs a piece of blanks only, which only a slice of an over-long sentence can be, and then
a line has a hole (`SliceTells`, `HoleInJoined`).

**Deployment** (`DeploymentProofs`; `DeploymentAssumption`). `NoneServesHalfASchema`,
`SeedsAddNothing`, `RememberedOnce` and the action property `NothingForgotten`, for any
number of containers, finitely many refunds, and any downgrades and deaths. The
migrations are composed once (what they come to from any revision up or down to any
other), so a step of the operator or of a container is one case. `Remembered` ties the
refunds paid to the approvals and to the refunded column while that column was never
dropped; `Forward`, that nobody has seen a newer schema, is what makes a server serve at head.

**Induction.** The provers cannot use an induction rule that takes a predicate. Facts about
recursive functions (sums over a set, `Selection` and `IsThinned` of `Subsequences`,
sequences put together by `FlattenSeq`, the rounds of `ChunkText`) are proved from a least
counterexample, whose existence is the well-foundedness of the naturals
(`InductionLemmas`); that such a function exists is proved in the same way (`SumExists`,
`RecursionExists`). Where the turns of a loop are functions and not one operator, the
invariant is a set of values for each turn: `LoopRuns` gives the computation and
`LoopKeeps` takes the invariant to its end, so each loop of the chunker needs only the
lemma about one turn.

**Only model-checked.** Every safety invariant and action property that the passing runs
check is stated by a theorem. Liveness (`CallsEnd`, `RunEnds`, `EachServes`, that messages
close, that the screen settles, that a claimed execution ends) stays with TLC: there is no
proof of ENABLED or fairness here. `AggregatesExact` and `AckedIsHandled` are false, and
their runs show why.

## Not modelled

Embeddings (numbers out of words: data to everything else), JSON schemas and the tools'
parameter schemas, prompts, the lists of products, orders and runs (one read each), the
other pages of the dashboard (one answer of one request at a time), knowledge searches (reads, ranked by the embeddings), `start_event`,
`complete_event` and `fail_event` (no caller), the registration handshake of the webhook,
and the evaluation harness, which is a scripted bench with a table of cases. Payloads,
names and amounts are members of small sets. The README of the repository documents that
cancelling after a partial refund takes the total off twice; `AggregatesExact` excepts
such customers. Links, bold and italics within a line of a reply are part of its text.

## Plan

1. Refinements that need no fairness: that the report reads a `Shop`, that a page over
   `ApprovalLifecycle` shows a past of it.
2. A composition of approvals and orders: the tool step of an execution is a whole
   `OrderTransactions` call.
