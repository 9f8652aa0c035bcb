----------------------------- MODULE WhatsAppLedger -----------------------------
(***************************************************************************)
(* The WhatsApp Cloud webhook and its idempotency ledger                   *)
(* (app/whatsapp/{service,repository,client}.py and the webhook endpoint   *)
(* of app/api/routes.py), under whatever settings the server runs.         *)
(*                                                                         *)
(* Meta delivers an envelope of messages as often as it likes, and again   *)
(* until it is answered with 200.  A request claims the messages one       *)
(* committed transaction at a time, answers, and only then handles the     *)
(* ones it claimed, in order: agent run, reply part by part, ledger.       *)
(* Requests of any number of server processes interleave at every await.   *)
(***************************************************************************)
EXTENDS ReplyText, Functions

CONSTANTS
    Messages,      \* text message ids (wamids)
    Content,       \* Content[post]: what the posts to the webhook hold
    Settings,      \* configurations of the server
    Conversations, \* what the agent answers to each message, when it answers
    Requests,      \* webhook requests that can be alive at the same time
    StoreFaults,   \* may a transaction fail with an SQLAlchemyError?
    LostAcks,      \* may a committed transaction be reported as failed?
    Crashes        \* may the process serving a request die?

ASSUME ConstantsAssumption ==
    /\ Settings \subseteq [enabled : BOOLEAN, secret : BOOLEAN, canSend : BOOLEAN]
    /\ StoreFaults \in BOOLEAN
    /\ LostAcks \in BOOLEAN
    /\ Crashes \in BOOLEAN

Posts == DOMAIN Content

VARIABLES
    ledger,   \* ledger[m]: status of m in whatsapp_events, "absent" without a row
    job,      \* what each request is doing
    runs,     \* runs[m]: agent runs started for m
    parts,    \* parts[m]: chunks of the reply the agent gave to m
    inbox,    \* inbox[m]: numbers of the chunks the customer received for m
    acked,    \* posts Meta saw answered with 200
    config,   \* the settings of the server
    replies,  \* replies[m]: the lines the agent answers to m, and the chunks they are sent in
    dropped   \* history: messages in the hands of a request when its tasks were dropped

vars == <<ledger, job, runs, parts, inbox, acked, config, replies, dropped>>
world == <<config, replies, dropped>>

Statuses == {"absent", "received", "processed", "failed"}
Terminal == {"processed", "failed"}

\* No message has the id of one that came without; no post is being served.
NoId == "none"
NoPost == "none"

\* todo: messages not yet claimed; claimed: messages won and not yet closed, the
\* one being handled first; part: the chunk to send next.
Job ==
    [pc : {"idle", "claim", "run", "answer", "send", "mark"},
     post : Posts \cup {NoPost}, todo : Seq(Messages), claimed : Seq(Messages),
     part : Nat, outcome : Terminal \cup {"none"}]

NoJob ==
    [pc |-> "idle", post |-> NoPost, todo |-> << >>, claimed |-> << >>,
     part |-> 0, outcome |-> "none"]

Init ==
    /\ ledger = [m \in Messages |-> "absent"]
    /\ job = [r \in Requests |-> NoJob]
    /\ runs = [m \in Messages |-> 0]
    /\ parts = [m \in Messages |-> 0]
    /\ inbox = [m \in Messages |-> << >>]
    /\ acked = {}
    /\ config \in Settings
    /\ \E answers \in Conversations :
           replies = [m \in Messages |-> [lines |-> answers[m], chunks |-> ReplyChunks(answers[m])]]
    /\ dropped = {}
--------------------------------------------------------------------------------
\* A message that can be answered: a text with an id, a sender and a body.
IsAnswerable(message) ==
    message.id # NoId /\ message.type = "text" /\ message.sender /\ message.body

\* extract_text_messages: their ids, in order.
Extract == [post \in Posts |->
    LET answerable == SelectSeq(FlattenSeq(Content[post].entries), IsAnswerable)
    IN  [i \in DOMAIN answerable |-> answerable[i].id]]

\* Messages has an element for every text the posts hold.
ASSUME ContentAssumption == \A post \in Posts : Extract[post] \in Seq(Messages)

\* Replies are sequences of lines, perhaps empty.
ASSUME RepliesAssumption ==
    \A answers \in Conversations : \A m \in Messages : answers[m] \in Seq(Line)

\* The header is the signature of the body; none at all, and anything else, is not.
IsValidSignature(post) == Content[post].signature = "right"

\* What the endpoint does with a post before it touches the ledger: 403 without the
\* signature the settings ask for, 422 for what is no envelope, 200 for nothing to do.
Answer(post) ==
    IF Content[post].form = "not json" THEN "unprocessable"
    ELSE IF config.enabled /\ config.secret /\ ~IsValidSignature(post) THEN "forbidden"
    ELSE IF Content[post].form = "malformed" THEN "unprocessable"
    ELSE IF config.enabled /\ Extract[post] # << >> THEN "claims"
    ELSE "nothing to do"

\* Meta posts an envelope: for the first time, again, or while it is being served.
Deliver(r, post) ==
    /\ job[r].pc = "idle"
    /\ Answer(post) = "claims"
    /\ job' = [job EXCEPT ![r] = [NoJob EXCEPT !.pc = "claim", !.post = post, !.todo = Extract[post]]]
    /\ UNCHANGED <<ledger, runs, parts, inbox, acked, world>>

\* Statuses, images, or the integration is off: answered "ignored" or "disabled".
Dismiss(post) ==
    /\ Answer(post) = "nothing to do"
    /\ acked' = acked \cup {post}
    /\ UNCHANGED <<ledger, job, runs, parts, inbox, world>>

\* Mutant: every message counts as new, as psycopg's rowcount would have it.
AlwaysNew(m) == TRUE

\* INSERT ... ON CONFLICT DO NOTHING RETURNING: a row comes back.
IsNew(m) == ledger[m] = "absent"

WithClaimed(r) == Append(job[r].claimed, Head(job[r].todo))

\* _claim of the next message, in a transaction of its own; a duplicate is skipped.
Claim(r) ==
    /\ job[r].pc = "claim" /\ job[r].todo # << >>
    /\ LET m == Head(job[r].todo)
       IN  \/ /\ IsNew(m)
              /\ ledger' = [ledger EXCEPT ![m] = "received"]
              /\ job' = [job EXCEPT ![r].todo = Tail(@), ![r].claimed = WithClaimed(r)]
           \/ /\ ~IsNew(m)
              /\ job' = [job EXCEPT ![r].todo = Tail(@)]
              /\ UNCHANGED ledger
    /\ UNCHANGED <<runs, parts, inbox, acked, world>>

\* The claim fails, or commits without the handler learning it: 503, nothing of
\* the envelope is scheduled.
ClaimFails(r) ==
    /\ job[r].pc = "claim" /\ job[r].todo # << >>
    /\ \/ StoreFaults /\ UNCHANGED ledger
       \/ /\ LostAcks /\ IsNew(Head(job[r].todo))
          /\ ledger' = [ledger EXCEPT ![Head(job[r].todo)] = "received"]
    /\ job' = [job EXCEPT ![r] = NoJob]
    /\ UNCHANGED <<runs, parts, inbox, acked, world>>

\* Where a request goes with the messages it still has to handle.
Continue(r, left) ==
    job' = [job EXCEPT ![r] =
        IF left = << >> THEN NoJob
        ELSE [@ EXCEPT !.pc = "run", !.claimed = left, !.part = 0, !.outcome = "none"]]

\* Every message is claimed or a duplicate: 200, which may get lost on its way,
\* and the background tasks start.
Acknowledge(r) ==
    /\ job[r].pc = "claim" /\ job[r].todo = << >>
    /\ \/ acked' = acked \cup {job[r].post}
       \/ UNCHANGED acked
    /\ Continue(r, job[r].claimed)
    /\ UNCHANGED <<ledger, runs, parts, inbox, world>>
--------------------------------------------------------------------------------
\* The message a background task is handling.
Current(r) == Head(job[r].claimed)

StartRun(r) ==
    /\ job[r].pc = "run"
    /\ runs' = [runs EXCEPT ![Current(r)] = @ + 1]
    /\ job' = [job EXCEPT ![r].pc = "answer"]
    /\ UNCHANGED <<ledger, parts, inbox, acked, world>>

ToMark(r, outcome) == job' = [job EXCEPT ![r].pc = "mark", ![r].outcome = outcome]

\* agent.run returns a reply, which is cut into chunks, or raises.
FinishRun(r) ==
    /\ job[r].pc = "answer"
    /\ \/ /\ parts' = [parts EXCEPT ![Current(r)] = Len(replies[Current(r)].chunks)]
          /\ job' = [job EXCEPT ![r].pc = "send", ![r].part = 1]
       \/ ToMark(r, "failed") /\ UNCHANGED parts
    /\ UNCHANGED <<ledger, runs, inbox, acked, world>>

\* Mutant: the loop ends one chunk early.
OneShort(r) == job[r].part + 1 >= parts[Current(r)]

IsLast(r) == job[r].part = parts[Current(r)]

\* Mutant: a chunk is posted again after an answer that did arrive.
Twice(r) == inbox[Current(r)] \o <<job[r].part, job[r].part>>

Received(r) == Append(inbox[Current(r)], job[r].part)

\* send_text of the next chunk.
SendText(r) ==
    /\ job[r].pc = "send" /\ config.canSend
    /\ inbox' = [inbox EXCEPT ![Current(r)] = Received(r)]
    /\ \/ IsLast(r) /\ ToMark(r, "processed")
       \/ ~IsLast(r) /\ job' = [job EXCEPT ![r].part = @ + 1]
    /\ UNCHANGED <<ledger, runs, parts, acked, world>>

\* A refused, failed or timed out POST ends the reply; a chunk whose answer timed
\* out may have reached the customer all the same.  Without credentials there is no
\* client, and nothing is posted.
SendFails(r) ==
    /\ job[r].pc = "send"
    /\ \/ UNCHANGED inbox
       \/ config.canSend /\ inbox' = [inbox EXCEPT ![Current(r)] = Received(r)]
    /\ ToMark(r, "failed")
    /\ UNCHANGED <<ledger, runs, parts, acked, world>>

\* Meta answers JSON that is no object, or an error that is a text: send_text raises what
\* process_message does not catch.  The message is not marked, and the tasks of the
\* envelope that were to follow are dropped with it.
SendEscapes(r) ==
    /\ job[r].pc = "send" /\ config.canSend
    /\ inbox' \in {inbox, [inbox EXCEPT ![Current(r)] = Received(r)]}
    /\ job' = [job EXCEPT ![r] = NoJob]
    /\ dropped' = dropped \cup Range(job[r].claimed)
    /\ UNCHANGED <<ledger, runs, parts, acked, config, replies>>

\* Mutant: the next message is skipped with the one that failed.
DropsTheRest(r) == IF job[r].outcome = "failed" THEN << >> ELSE Tail(job[r].claimed)

Left(r) == Tail(job[r].claimed)

\* _mark_status: an UPDATE without a guard on the status; best effort.
Mark(r) ==
    /\ job[r].pc = "mark"
    /\ \/ ledger' = [ledger EXCEPT ![Current(r)] = job[r].outcome]
       \/ StoreFaults /\ UNCHANGED ledger
    /\ Continue(r, Left(r))
    /\ UNCHANGED <<runs, parts, inbox, acked, world>>

\* The process dies; what is committed, and what the customer read, stays.
Crash(r) ==
    /\ Crashes
    /\ job[r].pc # "idle"
    /\ job' = [job EXCEPT ![r] = NoJob]
    /\ UNCHANGED <<ledger, runs, parts, inbox, acked, world>>
--------------------------------------------------------------------------------
Progress(r) ==
    \/ Claim(r) \/ ClaimFails(r) \/ Acknowledge(r)
    \/ StartRun(r) \/ FinishRun(r)
    \/ SendText(r) \/ SendFails(r) \/ SendEscapes(r) \/ Mark(r)

Next ==
    \/ \E post \in Posts : Dismiss(post)
    \/ \E r \in Requests :
           \/ \E post \in Posts : Deliver(r, post)
           \/ Progress(r)
           \/ Crash(r)

Spec == Init /\ [][Next]_vars

\* Meta signs what it posts, and retries it until it sees a 200.
FromMeta(post) == Content[post].form = "envelope" /\ IsValidSignature(post)
Redeliver(post) ==
    post \notin acked /\ (Dismiss(post) \/ \E r \in Requests : Deliver(r, post))

\* The event loop keeps running its tasks and Meta keeps retrying.  Strong fairness
\* of Redeliver: only the model's few request slots ever refuse a delivery.
FairSpec ==
    /\ Spec
    /\ \A r \in Requests : WF_vars(Progress(r))
    /\ \A post \in {p \in Posts : FromMeta(p)} : SF_vars(Redeliver(post))
--------------------------------------------------------------------------------
TypeOK ==
    /\ ledger \in [Messages -> Statuses]
    /\ job \in [Requests -> Job]
    /\ runs \in [Messages -> Nat]
    /\ parts \in [Messages -> Nat]
    /\ \A m \in Messages : inbox[m] \in Seq(1 .. parts[m])
    /\ acked \subseteq Posts
    /\ config \in Settings
    /\ DOMAIN replies = Messages
    /\ dropped \subseteq Messages

\* A claimed message is in the hands of one request at most, once, and reads
\* "received" as long as it is.
SoleOwner ==
    \A r \in Requests : \A i \in DOMAIN job[r].claimed :
        LET m == job[r].claimed[i]
        IN  /\ ledger[m] = "received"
            /\ \A s \in Requests : \A j \in DOMAIN job[s].claimed :
                  job[s].claimed[j] = m => s = r /\ j = i

\* The agent runs at most once for a message, however often and however concurrently
\* Meta delivers it, and never for an unclaimed one; and no two requests, nor one
\* twice, ever have a message in their hands (claim_message).
RunOnce ==
    /\ \A m \in Messages : runs[m] <= IF ledger[m] = "absent" THEN 0 ELSE 1
    /\ SoleOwner

\* A 200 is answered only when each message of the post has been run or is in the
\* hands of a request that will run it: unless the integration is off, nothing
\* acknowledged is lost, but for what an exception of a send dropped.
AckedIsHandled ==
    config.enabled =>
        \A post \in acked : \A i \in DOMAIN Extract[post] :
            LET m == Extract[post][i]
            IN  \/ runs[m] > 0 \/ m \in dropped
                \/ \E r \in Requests : m \in Range(job[r].claimed)

\* Nothing of a reply with well-formed tables gets lost on the way to plain text
\* (format_reply_for_whatsapp).
RepliesKeepContent ==
    \A m \in Messages : WellFormed(replies[m].lines) => ContentPreserved(replies[m].lines)

\* What a customer reads of a message that is closed as processed is the agent's reply,
\* whole and in order, in chunks that fit; and whoever reads part of one reads how it
\* begins (chunk_text, process_message).
RepliesArriveWhole ==
    \A m \in Messages :
        LET text == FormatReply(replies[m].lines)
            chunks == replies[m].chunks
            read == FlattenSeq([i \in DOMAIN inbox[m] |-> chunks[inbox[m][i]]])
        IN  /\ ChunksFit(text, chunks)
            /\ read = SubSeq(text, 1, Len(read))
            /\ ledger[m] = "processed" => read = text

\* Every message Meta has is answered or recorded as failed in the end, whichever runs and
\* sends fail before it, unless it was in the hands of a request whose tasks an exception
\* of a send ended: such a message stays "received" (process_message).
EveryMessageCloses ==
    \A post \in Posts : \A i \in DOMAIN Extract[post] :
        LET m == Extract[post][i]
        IN  FromMeta(post) /\ config.enabled => <>(ledger[m] \in Terminal \/ m \in dropped)

Promise == INSTANCE Correspondence

\* The webhook keeps what a customer is promised: one run, one reply, in order.
ImplementsCorrespondence == Promise!CorrespondenceSpec
================================================================================
