----------------------------- MODULE KnowledgeIngest -----------------------------
(***************************************************************************)
(* Keeping the vector store up to date with the knowledge directory        *)
(* (app/rag/service.py, vector_store.py) while others do the same.       *)
(*                                                                         *)
(* An ingest - a POST in the threadpool, or the command line in a process  *)
(* of its own - reads the files and then, document by document, compares   *)
(* the stored hash and replaces the document's chunks by a delete and an   *)
(* add.  Nothing keeps two ingests from running at the same time, a file   *)
(* from being edited meanwhile, or a process from dying in the middle.     *)
(***************************************************************************)
EXTENDS Chunker, FiniteSets

CONSTANTS
    Sources,     \* file names, in their sorted order
    Editions,    \* what the files may be changed to
    Directories, \* what may be on disk at first
    Ingesters,   \* ingests that can run at a time
    Providers,   \* embedding providers that may be configured
    MaxEdits,    \* most changes made to the directory
    MaxAborts    \* most ingests and configurations that are cut short

NoProvider == "none"

ASSUME KnowledgeAssumption ==
    /\ IsFiniteSet(Sources) /\ Sources = 1 .. Cardinality(Sources)
    /\ NoProvider \notin Providers
    /\ MaxEdits \in Nat /\ MaxAborts \in Nat

Gone == <<[kind |-> "gone", text |-> << >>]>>

\* A directory has a text, or Gone, under every name.
ASSUME DirectoriesAssumption ==
    /\ Editions \subseteq Seq(Line)
    /\ \A directory \in Directories : directory \in [Sources -> Seq(Line) \cup {Gone}]

VARIABLES
    files,       \* files[s]: the text on disk, Gone without a file
    collection,  \* the embedding provider recorded with the collection
    store,       \* the stored chunks
    configured,  \* configured[i]: the provider of the process that i runs in
    ingest,      \* ingest[i]: what i is in the middle of
    overlapped,  \* have two ingests ever run at the same time?
    edits, aborts

vars == <<files, collection, store, configured, ingest, overlapped, edits, aborts>>

OnDisk == {s \in Sources : files[s] # Gone}

\* A chunk row: its id is the source, section and index, its doc_hash the whole text.
Row(s, chunk, text, provider) ==
    [id |-> <<s, chunk.section, chunk.index>>, content |-> chunk.content,
     hash |-> text, provider |-> provider]

ChunksOf(s, text, provider) ==
    {Row(s, chunk, text, provider) : chunk \in ToSet(ChunkDocument(text))}

StoredOf(s) == {row \in store : row.id[1] = s}

\* read: what was read of the files; todo: the sources still to be compared.
\* unedited: no file has changed since the ingest began.
NothingRead == [s \in Sources |-> Gone]
Idle == [at |-> "idle", read |-> NothingRead, todo |-> {}, unedited |-> TRUE]

Init ==
    /\ files \in Directories
    /\ collection = NoProvider
    /\ store = {}
    /\ configured \in [Ingesters -> Providers]
    /\ ingest = [i \in Ingesters |-> Idle]
    /\ overlapped = FALSE
    /\ edits = 0
    /\ aborts = 0

\* Documents are taken in the order of their names.
Following(todo) == Min(todo)

Running(i) == ingest[i].at \notin {"idle", "done"}
Step(i, changes) == ingest' = [ingest EXCEPT ![i] = changes]
Others == <<files, configured, overlapped, edits, aborts>>

(***************************************************************************)
(* The knowledge directory                                                 *)
(***************************************************************************)

\* A file is written, or deleted, by whoever keeps the documents.
Edit(s, text) ==
    /\ edits < MaxEdits
    /\ text # files[s]
    /\ edits' = edits + 1
    /\ files' = [files EXCEPT ![s] = text]
    /\ ingest' = [i \in Ingesters |-> [ingest[i] EXCEPT !.unedited = FALSE]]
    /\ UNCHANGED <<collection, store, configured, overlapped, aborts>>

(***************************************************************************)
(* An ingest                                                               *)
(***************************************************************************)

\* RagService.ingest begins, whether or not another is under way.
StartIngest(i) ==
    /\ ~Running(i)
    /\ overlapped' = (overlapped \/ \E j \in Ingesters : Running(j))
    /\ Step(i, [Idle EXCEPT !.at = "load", !.todo = Sources])
    /\ UNCHANGED <<files, collection, store, configured, edits, aborts>>

\* load_knowledge_documents: one file after the other, all of them before anything is
\* compared.
LoadFile(i) ==
    /\ ingest[i].at = "load" /\ ingest[i].todo # {}
    /\ LET s == Following(ingest[i].todo)
       IN  Step(i, [ingest[i] EXCEPT !.read[s] = files[s], !.todo = @ \ {s}])
    /\ UNCHANGED <<collection, store, Others>>

\* _verify_provider.
Verified(i) == collection \in {NoProvider, configured[i]}

\* The collection is opened, or created for the configured provider; one that was built
\* with another provider is refused (a 503).
OpenStore(i) ==
    /\ ingest[i].at = "load" /\ ingest[i].todo = {}
    /\ IF Verified(i)
       THEN /\ collection' = IF collection = NoProvider THEN configured[i] ELSE collection
            /\ Step(i, [ingest[i] EXCEPT !.at = "compare",
                                         !.todo = {s \in Sources : ingest[i].read[s] # Gone}])
       ELSE /\ Step(i, Idle)
            /\ UNCHANGED collection
    /\ UNCHANGED <<store, Others>>

\* get_doc_hash reads one of the source's rows, whichever comes first.
Hashes(s) == IF StoredOf(s) = {} THEN {Gone} ELSE {row.hash : row \in StoredOf(s)}

\* Mutant: a document that is stored is taken to be up to date.
SkipsStored(i, s, hash) == hash # Gone

UpToDate(i, s, hash) == hash = ingest[i].read[s]

\* A document whose stored hash is that of the text that was read is skipped.
Compare(i) ==
    /\ ingest[i].at = "compare" /\ ingest[i].todo # {}
    /\ LET s == Following(ingest[i].todo)
       IN  \E hash \in Hashes(s) :
               Step(i, IF UpToDate(i, s, hash) THEN [ingest[i] EXCEPT !.todo = @ \ {s}]
                       ELSE [ingest[i] EXCEPT !.at = "delete"])
    /\ UNCHANGED <<collection, store, Others>>

\* Mutant: the rows of the new text replace those with the same ids only.
DeletesSameIds(i, s) ==
    store' = {row \in store :
                 row.id \notin {new.id : new \in ChunksOf(s, ingest[i].read[s], collection)}}

Deletes(i, s) == store' = store \ StoredOf(s)

\* replace_source, first call.
DeleteSource(i) ==
    /\ ingest[i].at = "delete"
    /\ Deletes(i, Following(ingest[i].todo))
    /\ Step(i, [ingest[i] EXCEPT !.at = "add"])
    /\ UNCHANGED <<collection, Others>>

\* replace_source, second call: Chroma keeps a row whose id it has already, and a text
\* without passages leaves nothing to add.
AddChunks(i) ==
    /\ ingest[i].at = "add"
    /\ LET s == Following(ingest[i].todo)
           new == ChunksOf(s, ingest[i].read[s], configured[i])
       IN  /\ store' = store \cup {row \in new : \A old \in store : old.id # row.id}
           /\ Step(i, [ingest[i] EXCEPT !.at = "compare", !.todo = @ \ {s}])
    /\ UNCHANGED <<collection, Others>>

EndIngest(i) ==
    /\ ingest[i].at = "compare" /\ ingest[i].todo = {}
    /\ Step(i, [ingest[i] EXCEPT !.at = "done", !.read = NothingRead])
    /\ UNCHANGED <<collection, store, Others>>

\* The process dies, or a call raises: what was done stays.
Abort(i) ==
    /\ aborts < MaxAborts
    /\ Running(i)
    /\ aborts' = aborts + 1
    /\ Step(i, Idle)
    /\ UNCHANGED <<files, collection, store, configured, overlapped, edits>>

\* The process is started again with another RAG_EMBEDDINGS.
Reconfigure(i, provider) ==
    /\ aborts < MaxAborts
    /\ ~Running(i)
    /\ provider # configured[i]
    /\ aborts' = aborts + 1
    /\ configured' = [configured EXCEPT ![i] = provider]
    /\ Step(i, Idle)
    /\ UNCHANGED <<files, collection, store, overlapped, edits>>

Proceed(i) ==
    LoadFile(i) \/ OpenStore(i) \/ Compare(i) \/ DeleteSource(i) \/ AddChunks(i) \/ EndIngest(i)

Next ==
    \/ \E s \in Sources, text \in Editions \cup {Gone} : Edit(s, text)
    \/ \E i \in Ingesters :
           StartIngest(i) \/ Proceed(i) \/ Abort(i) \/ \E p \in Providers : Reconfigure(i, p)

Spec == Init /\ [][Next]_vars

(***************************************************************************)
(* Properties                                                              *)
(***************************************************************************)

\* As long as no two ingests have run at a time, one that ran to its end while no file
\* was edited has brought every file on disk up to date, also a file whose replacement
\* an earlier ingest died in the middle of (RagService.ingest, replace_source).
CaughtUp ==
    \A i \in Ingesters :
        ~overlapped /\ ingest[i].at = "done" /\ ingest[i].unedited =>
            \A s \in OnDisk : StoredOf(s) = ChunksOf(s, files[s], collection)

\* As long as no two ingests have run at a time, what is stored of a document are all
\* the passages of one edition of it, or none of them: a crash, an edit or an ingest
\* that is half way never leaves passages of two editions or some of one.
OneEdition ==
    ~overlapped =>
        \A s \in Sources :
            \/ StoredOf(s) = {}
            \/ \E row \in StoredOf(s) : StoredOf(s) = ChunksOf(s, row.hash, collection)

\* Nothing of a document is lost by cutting it: the passages say its letters one after the
\* other, each under the title it stands under, and repeat no others than the last ones of
\* the passage before, of the same section, and at most as many as the overlap.  Each says
\* something new, unless the words of a line stand as far apart as a piece is long; and
\* none is longer than MaxChars by more than the separator a carried tail comes with
\* (chunk_document).
PassagesCoverDocument == \A s \in OnDisk : Covered(files[s])
================================================================================
