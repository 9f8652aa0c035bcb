------------------------------ MODULE AgentMemory ------------------------------
(***************************************************************************)
(* The agent's memories (app/memory): rows of agent_memories, each of one  *)
(* owner, written and read by concurrent agent runs through their tools    *)
(* and by callers of /api/memory.                                          *)
(*                                                                         *)
(* A run is bound to the owner of its request by a context variable, which *)
(* every tool of the run reads: the model never names an owner.  A step is *)
(* a committed transaction, except that a delete is two statements: between*)
(* them a request of another process may commit.                           *)
(***************************************************************************)
EXTENDS Naturals, Sequences, FiniteSets, SequencesExt

CONSTANTS
    Requests,      \* agent runs and API calls that can be open at a time
    Written,       \* owner keys as they are sent, with their blanks
    Strip,         \* Strip[k]: key k without the blanks around it
    Blank,         \* the key of blanks alone
    Default,       \* DEFAULT_OWNER_KEY
    Words,         \* keywords, without the stopwords
    Queries,       \* what is searched for: sets of keywords, or NoQuery
    Contents,      \* what may be asked to remember
    Tokens,        \* Tokens[c]: the keywords of content c
    Secrets,       \* contents that look like a secret
    MemoryTypes,   \* the four types
    Unlisted,      \* a type that is none of them
    MaxMemories,   \* most rows ever inserted
    ContextLimit, ToolLimit, SearchCap, ListCap,   \* 3, 5, 50 and 500
    MaxFaults      \* most transactions that fail or lose their answer

\* The query of nothing but blanks; one of stopwords alone is {}.
NoQuery == {Unlisted}

ASSUME ConstantsAssumption ==
    /\ Strip \in [Written -> Written]
    /\ \A k \in Written : Strip[Strip[k]] = Strip[k]
    /\ {Blank, Default} \subseteq Written /\ Blank # Default
    /\ Strip[Blank] = Blank /\ Strip[Default] = Default
    /\ Queries \subseteq {NoQuery} \cup SUBSET Words
    /\ \A query \in Queries : IsFiniteSet(query)
    /\ Tokens \in [Contents -> SUBSET Words]
    /\ Secrets \subseteq Contents
    /\ Unlisted \notin MemoryTypes
    /\ {MaxMemories, ContextLimit, ToolLimit, SearchCap, ListCap} \subseteq Nat \ {0}
    /\ ContextLimit <= ToolLimit /\ ToolLimit <= SearchCap /\ SearchCap <= ListCap
    /\ MaxFaults \in Nat

VARIABLES
    rows,      \* agent_memories by id
    nextId,    \* the id sequence, which never gives an id twice
    request,   \* request[r]: what r is in the middle of
    bound,     \* bound[r]: the context variable as r's task sees it
    answer,    \* what the last step told whom
    deleted,   \* deleted[i]: how often memory i was reported deleted
    faults     \* transactions that failed or lost their answer

vars == <<rows, nextId, request, bound, answer, deleted, faults>>

Ids == 1 .. MaxMemories
Memory == [owner : Written, type : MemoryTypes, content : Contents \ Secrets]
NoRow == [owner |-> Blank, type |-> Unlisted, content |-> Unlisted]
NoType == "any type"

\* sent: the owner key of the request; id: the memory a delete has found.
Request == [at : {"idle", "run", "run_delete", "api_delete"}, sent : Written, id : Ids \cup {0}]
Idle == [at |-> "idle", sent |-> Blank, id |-> 0]

Operations == {"context", "save", "search", "delete", "create", "list", "api_search", "update", "get"}
Codes == {"ok", "invalid", "sensitive", "not_found", "unavailable"}
NoAnswer == [op |-> "none", sent |-> Blank, code |-> "ok", hits |-> << >>,
             query |-> NoQuery, type |-> NoType, limit |-> 1]

Init ==
    /\ rows = [i \in Ids |-> NoRow]
    /\ nextId = 1
    /\ request = [r \in Requests |-> Idle]
    /\ bound = [r \in Requests |-> Default]
    /\ answer = NoAnswer
    /\ deleted = [i \in Ids |-> 0]
    /\ faults = 0

\* The owner of a chat, a WhatsApp message or a POST /api/memory.
Identity(k) == IF Strip[k] = Blank THEN Default ELSE Strip[k]

Told(op, k, code, hits) ==
    answer' = [NoAnswer EXCEPT !.op = op, !.sent = k, !.code = code, !.hits = hits]

Searched(op, k, hits, query, type, limit) ==
    answer' = [op |-> op, sent |-> k, code |-> "ok", hits |-> hits,
               query |-> query, type |-> type, limit |-> limit]

Fault ==
    /\ faults < MaxFaults
    /\ faults' = faults + 1

\* A transaction without effect is reported as failed.
Unavailable(op, k) ==
    /\ Fault
    /\ Told(op, k, "unavailable", << >>)
    /\ UNCHANGED rows

(***************************************************************************)
(* The store                                                               *)
(***************************************************************************)

\* Mutant: the row is found by its id alone.
OwnedByAnyone(i, owner) == rows[i] # NoRow

\* The row exists and belongs to the owner; the two are refused alike.
Owned(i, owner) == rows[i] # NoRow /\ rows[i].owner = owner

OwnerMemories(owner, type) == {i \in Ids : Owned(i, owner) /\ type \in {NoType, rows[i].type}}

Overlap(i, query) == {w \in query : w \in Tokens[rows[i].content]}

\* Best overlap first, the newest first among equals, and without a query.
Precedes(i, j, query) ==
    LET Score(m) == IF query = NoQuery THEN 0 ELSE Cardinality(Overlap(m, query))
    IN  Score(i) > Score(j) \/ (Score(i) = Score(j) /\ i > j)

\* The memories of a set, in that order.
Ranked(memories, query) ==
    CHOOSE s \in [1 .. Cardinality(memories) -> memories] :
        \A m, n \in 1 .. Cardinality(memories) : m < n => Precedes(s[m], s[n], query)

FirstOf(hits, limit) == SubSeq(hits, 1, IF Len(hits) < limit THEN Len(hits) ELSE limit)

ListOf(owner, type, limit) ==
    FirstOf(Ranked(OwnerMemories(owner, type), NoQuery), IF limit > ListCap THEN ListCap ELSE limit)

\* What a search has to choose from.
Scored(memories, query) ==
    IF query = NoQuery THEN memories ELSE {i \in memories : Overlap(i, query) # {}}

\* Mutant: the limit is applied in the SELECT, before the scoring.
SearchAmongRecent(owner, query, type, limit) ==
    LET cap == IF limit > SearchCap THEN SearchCap ELSE limit
    IN  Ranked(Scored(ToSet(ListOf(owner, type, cap)), query), query)

\* The memories that share a keyword with the query; without a query, the latest.
SearchMemories(owner, query, type, limit) ==
    LET cap == IF limit > SearchCap THEN SearchCap ELSE limit
    IN  FirstOf(Ranked(Scored(OwnerMemories(owner, type), query), query), cap)

\* _validated_type and _validated_content; "ok" when both pass.
Verdict(type, content) ==
    IF type \notin MemoryTypes THEN "invalid"
    ELSE IF content \in Secrets THEN "sensitive" ELSE "ok"

Inserted(owner, type, content) ==
    /\ rows' = [rows EXCEPT ![nextId] = [owner |-> owner, type |-> type, content |-> content]]
    /\ nextId' = nextId + 1

\* create_memory in one transaction, for the tool and for the endpoint; the owner key
\* is stripped here, whoever calls.
Create(op, k, owner, type, content) ==
    IF Verdict(type, content) # "ok"
    THEN /\ Told(op, k, Verdict(type, content), << >>)
         /\ UNCHANGED <<rows, nextId, faults>>
    ELSE /\ nextId \in Ids
         /\ \/ Inserted(Strip[owner], type, content) /\ Told(op, k, "ok", <<nextId>>) /\ UNCHANGED faults
            \/ Unavailable(op, k) /\ UNCHANGED nextId
            \/ Inserted(Strip[owner], type, content) /\ Fault /\ Told(op, k, "unavailable", << >>)

(***************************************************************************)
(* Agent runs                                                              *)
(***************************************************************************)

\* Mutant: the owner is a plain global, shared by every task.
BoundForAll(r, owner) == bound' = [q \in Requests |-> owner]

\* owner_scope: the variable is set in the context of this task alone.
Bound(r, owner) == bound' = [bound EXCEPT ![r] = owner]

\* Mutant: the key is used the way it was sent.
IdentityAsSent(k) == IF Strip[k] = Blank THEN Default ELSE k

RunIdentity(k) == Identity(k)

\* DibantuAgent.run: the relevant memories become part of the prompt, none when the
\* store cannot be read, and the tools of the run are bound to the owner.
StartRun(r, k, query) ==
    /\ request[r].at = "idle"
    /\ request' = [request EXCEPT ![r] = [at |-> "run", sent |-> k, id |-> 0]]
    /\ Bound(r, RunIdentity(k))
    /\ \/ /\ Searched("context", k, SearchMemories(RunIdentity(k), query, NoType, ContextLimit),
                      query, NoType, ContextLimit)
          /\ UNCHANGED <<rows, faults>>
       \/ Unavailable("context", k)
    /\ UNCHANGED <<nextId, deleted>>

SaveMemory(r, type, content) ==
    /\ request[r].at = "run"
    /\ Create("save", request[r].sent, bound[r], type, content)
    /\ UNCHANGED <<request, bound, deleted>>

\* An empty query is refused before the store is asked.
SearchMemory(r, query, type) ==
    /\ request[r].at = "run"
    /\ \/ /\ query # NoQuery /\ type # Unlisted
          /\ Searched("search", request[r].sent,
                      SearchMemories(bound[r], query, type, ToolLimit), query, type, ToolLimit)
          /\ UNCHANGED <<rows, faults>>
       \/ /\ query # NoQuery /\ type # Unlisted
          /\ Unavailable("search", request[r].sent)
       \/ /\ query = NoQuery \/ type = Unlisted
          /\ Told("search", request[r].sent, "invalid", << >>)
          /\ UNCHANGED <<rows, faults>>
    /\ UNCHANGED <<nextId, request, bound, deleted>>

EndRun(r) ==
    /\ request[r].at = "run"
    /\ request' = [request EXCEPT ![r] = Idle]
    /\ bound' = [bound EXCEPT ![r] = Default]
    /\ answer' = NoAnswer
    /\ UNCHANGED <<rows, nextId, deleted, faults>>

(***************************************************************************)
(* Deleting: read, then a guarded DELETE, in one transaction               *)
(***************************************************************************)

\* Where request r goes after its delete: a run goes on, an API call is answered.
AfterDelete(r) ==
    [request EXCEPT ![r] = IF @.at \in {"run", "run_delete"}
                           THEN [@ EXCEPT !.at = "run", !.id = 0] ELSE Idle]

FindOwned(r, k, owner, i, next) ==
    /\ \/ /\ Owned(i, owner)
          /\ request' = [request EXCEPT ![r] = [at |-> next, sent |-> k, id |-> i]]
          /\ answer' = NoAnswer
          /\ UNCHANGED <<rows, faults>>
       \/ /\ ~Owned(i, owner)
          /\ request' = AfterDelete(r)
          /\ Told("delete", k, "not_found", << >>)
          /\ UNCHANGED <<rows, faults>>
       \/ /\ Unavailable("delete", k)
          /\ request' = AfterDelete(r)
    /\ UNCHANGED <<nextId, bound, deleted>>

\* The memory tool, in the scope of the run.
FindForTool(r, i) ==
    /\ request[r].at = "run"
    /\ FindOwned(r, request[r].sent, Strip[bound[r]], i, "run_delete")

\* DELETE /api/memory/{id}: the key is stripped, a blank one is a validation error.
FindForApi(r, k, i) ==
    /\ request[r].at = "idle"
    /\ \/ /\ Strip[k] # Blank
          /\ FindOwned(r, k, Strip[k], i, "api_delete")
       \/ /\ Strip[k] = Blank
          /\ Told("delete", k, "invalid", << >>)
          /\ UNCHANGED <<rows, nextId, request, bound, deleted, faults>>

\* Mutant: the snapshot is answered whatever the row count of the DELETE.
AnswersSnapshot(i, owner) == TRUE

\* The row count of the DELETE: 0 when the row vanished since it was read.
StillThere(i, owner) == Owned(i, owner)

DeleteFound(r) ==
    /\ request[r].at \in {"run_delete", "api_delete"}
    /\ LET i == request[r].id
           k == request[r].sent
           owner == IF request[r].at = "run_delete" THEN Strip[bound[r]] ELSE Strip[k]
           Removed == rows' = IF Owned(i, owner) THEN [rows EXCEPT ![i] = NoRow] ELSE rows
       IN  \/ /\ StillThere(i, owner)
              /\ Removed
              /\ deleted' = [deleted EXCEPT ![i] = @ + 1]
              /\ Told("delete", k, "ok", <<i>>)
              /\ UNCHANGED faults
           \/ /\ ~StillThere(i, owner)
              /\ Told("delete", k, "not_found", << >>)
              /\ UNCHANGED <<rows, deleted, faults>>
           \/ Unavailable("delete", k) /\ UNCHANGED deleted
           \/ Removed /\ Fault /\ Told("delete", k, "unavailable", << >>) /\ UNCHANGED deleted
    /\ request' = AfterDelete(r)
    /\ UNCHANGED <<nextId, bound>>

(***************************************************************************)
(* The other calls of the API and of the manager, each one transaction.  A *)
(* read that fails changes nothing and is left out.                        *)
(***************************************************************************)

ApiCall(r) == request[r].at = "idle" /\ UNCHANGED <<request, bound, deleted>>

CreateMemory(r, k, type, content) ==
    /\ ApiCall(r)
    /\ Create("create", k, Identity(k), type, content)

\* GET /api/memory without q; a blank key or an unknown type is a validation error.
ListMemories(r, k, type, limit) ==
    /\ ApiCall(r)
    /\ IF Strip[k] # Blank /\ type # Unlisted
       THEN Searched("list", k, ListOf(Strip[k], type, limit), NoQuery, type, limit)
       ELSE Told("list", k, "invalid", << >>)
    /\ UNCHANGED <<rows, nextId, faults>>

\* With q the key is used as it was sent, and nothing is validated.
SearchByApi(r, k, query, type, limit) ==
    /\ ApiCall(r)
    /\ Searched("api_search", k, SearchMemories(k, query, type, limit), query, type, limit)
    /\ UNCHANGED <<rows, nextId, faults>>

GetMemory(r, k, i) ==
    /\ ApiCall(r)
    /\ IF Strip[k] = Blank THEN Told("get", k, "invalid", << >>)
       ELSE IF Owned(i, Strip[k]) THEN Told("get", k, "ok", <<i>>)
       ELSE Told("get", k, "not_found", << >>)
    /\ UNCHANGED <<rows, nextId, faults>>

\* Mutant: only what is created is screened.
Unscreened(type, content) == IF type \notin MemoryTypes THEN "invalid" ELSE "ok"

UpdateVerdict(type, content) == Verdict(type, content)

\* update_memory, which no endpoint offers: a guarded UPDATE.  A value that is not
\* given stays, as if the old one had been given.
UpdateMemory(r, k, i, type, content) ==
    /\ ApiCall(r)
    /\ \/ /\ Strip[k] = Blank \/ UpdateVerdict(type, content) # "ok"
          /\ Told("update", k, "invalid", << >>)
          /\ UNCHANGED rows
       \/ /\ Strip[k] # Blank /\ UpdateVerdict(type, content) = "ok"
          /\ Owned(i, Strip[k])
          /\ rows' = [rows EXCEPT ![i].type = type, ![i].content = content]
          /\ Told("update", k, "ok", <<i>>)
       \/ /\ Strip[k] # Blank /\ UpdateVerdict(type, content) = "ok"
          /\ ~Owned(i, Strip[k])
          /\ Told("update", k, "not_found", << >>)
          /\ UNCHANGED rows
    /\ UNCHANGED <<nextId, faults>>

Next ==
    \E r \in Requests :
        \/ \E k \in Written, query \in Queries : StartRun(r, k, query)
        \/ \E type \in MemoryTypes \cup {Unlisted}, content \in Contents :
               SaveMemory(r, type, content)
        \/ \E query \in Queries, type \in MemoryTypes \cup {NoType, Unlisted} :
               SearchMemory(r, query, type)
        \/ EndRun(r)
        \/ \E i \in Ids : FindForTool(r, i)
        \/ \E k \in Written, i \in Ids : FindForApi(r, k, i)
        \/ DeleteFound(r)
        \/ \E k \in Written, type \in MemoryTypes \cup {Unlisted}, content \in Contents :
               CreateMemory(r, k, type, content)
        \/ \E k \in Written, type \in MemoryTypes \cup {NoType, Unlisted},
              limit \in {1, ListCap} :
              \/ ListMemories(r, k, type, limit)
              \/ \E query \in Queries : SearchByApi(r, k, query, type, limit)
        \/ \E k \in Written, i \in Ids : GetMemory(r, k, i)
        \/ \E k \in Written, i \in Ids, type \in MemoryTypes, content \in Contents :
               UpdateMemory(r, k, i, type, content)

Spec == Init /\ [][Next]_vars

(***************************************************************************)
(* Properties                                                              *)
(***************************************************************************)

\* Types; and no sequence of saves and updates ever stores what looks like a secret, or
\* a type that is not one of the four (screen_content, _validated_type).
TypeOK ==
    /\ rows \in [Ids -> Memory \cup {NoRow}]
    /\ nextId \in 1 .. MaxMemories + 1
    /\ request \in [Requests -> Request]
    /\ bound \in [Requests -> Written]
    /\ answer.op \in Operations \cup {"none"}
    /\ answer.sent \in Written
    /\ answer.code \in Codes
    /\ answer.hits \in Seq(Ids)
    /\ deleted \in [Ids -> Nat]
    /\ faults \in 0 .. MaxFaults

\* Every memory a request is told of - in its prompt, by a tool or by the API - is one
\* of its own owner, and what it saves is saved under that owner, whatever other runs
\* are open at the time (owner_scope and the owner filters of the repository).
OwnersKeptApart ==
    \A i \in ToSet(answer.hits) :
        rows[i] # NoRow => rows[i].owner = Identity(answer.sent)

\* A memory only changes or goes when its owner asks for it, also when the request
\* found it in one statement and writes in the next (the guarded UPDATE and DELETE).
OnlyOwnersChange ==
    [][\A i \in Ids : rows'[i] # rows[i] =>
           \A row \in {rows[i], rows'[i]} \ {NoRow} :
               row.owner = Identity(answer'.sent)]_vars

\* Of two requests that delete a memory at the same time, one is told so and the other
\* that there is none; what was reported deleted is in no later answer
\* (manager.delete_memory: "vanished between read and delete").
ForgottenForGood ==
    \A i \in Ids :
        /\ deleted[i] <= 1
        /\ deleted[i] = 1 =>
               rows[i] = NoRow /\ (answer.op # "delete" => i \notin ToSet(answer.hits))

\* An answer holds as many of the owner's matching memories as the limit admits, the
\* best first, and none that is left out would precede one that is in it: what a
\* run saved for an owner is found by any later run of that owner, however its key
\* was padded (search_memories, list_memories, memory_context_block).
RecallsTheBest ==
    LET asker == IF answer.op = "api_search" THEN answer.sent ELSE Identity(answer.sent)
        cap == IF answer.op = "list" THEN ListCap ELSE SearchCap
        matching == {i \in Ids :
                       /\ Owned(i, asker)
                       /\ answer.type \in {NoType, rows[i].type}
                       /\ answer.query = NoQuery \/ Overlap(i, answer.query) # {}}
        Before(i, j) == IF answer.query = NoQuery THEN i > j ELSE Precedes(i, j, answer.query)
    IN  answer.op \in {"context", "search", "api_search", "list"} /\ answer.code = "ok" =>
            /\ ToSet(answer.hits) \subseteq matching
            /\ \/ ToSet(answer.hits) = matching
               \/ Len(answer.hits) = IF answer.limit < cap THEN answer.limit ELSE cap
            /\ \A m, n \in DOMAIN answer.hits :
                   m < n => Before(answer.hits[m], answer.hits[n])
            /\ \A i \in ToSet(answer.hits), j \in matching \ ToSet(answer.hits) : Before(i, j)
================================================================================
