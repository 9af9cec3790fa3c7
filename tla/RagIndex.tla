------------------------------ MODULE RagIndex ------------------------------
(* The index of the rag service: documents and chunks in SQLite, vectors   *)
(* in ChromaDB, requests that run in a thread pool on one shared database  *)
(* connection, and the pipeline that a change of configuration replaces.   *)
(*                                                                         *)
(* A document is a record of a path and a fresh number, its id.  Its       *)
(* chunks are Part; a part stands for one batch of chunks, the unit in     *)
(* which vectors are computed and added.  `rows' are the committed         *)
(* documents, `tx' the documents as the connection sees them, which is the *)
(* same for every thread.  Each pipeline has its own repository and so its *)
(* own lock; a slot of `pipe' is used again when nobody uses its pipeline. *)
(* A handle of the collection is live until the collection is made anew.   *)
(* `lost' and `stray' are history: the documents whose vectors, and the    *)
(* vectors whose document, went in one of the ways the actions name.       *)
EXTENDS Naturals, FiniteSets

CONSTANTS
    Worker,       \* threads of the pool, each with one request at a time
    Path,         \* files that are imported, again and again
    Part,         \* batches of the chunks of a document
    Model,        \* embedding models
    EnvModel,     \* RAG_EMBEDDING_MODEL
    Limit,        \* limits that searches ask for
    DefaultLimit, \* the limit in the key of every entry of the cache
    MaxRequests, MaxFaults, \* bounds of the model
    None

ASSUME ModelsAssumption == EnvModel \in Model /\ None \notin Model \union Worker
ASSUME DefaultAssumption == DefaultLimit \in Limit
ASSUME WorkersAssumption == IsFiniteSet(Worker)
ASSUME BoundsAssumption == MaxRequests \in Nat /\ MaxFaults \in Nat

VARIABLES rows, tx, asked, vectors, label, config, cur, pipe, req, faults,
          lost, stray

vars == <<rows, tx, asked, vectors, label, config, cur, pipe, req, faults,
          lost, stray>>

Slot == 1..(Cardinality(Worker) + 1)
Document == [path : Path, id : 0..MaxRequests]
Vector == [doc : Document, part : Part, model : Model]
Pipeline == [live : BOOLEAN, model : Model \union {None},
             lock : Worker \union {None},
             cache : [Limit -> Limit \union {None}]]
Request == [kind : {None, "import", "delete", "search"},
            at : {"idle", "get", "make", "drop", "fill", "run", "add", "commit",
                  "vectors", "rows"},
            path : Path \union {None}, limit : Limit \union {None},
            pipe : Slot \union {0},
            doc : Document \union {None}, old : Document \union {None},
            model : Model \union {None}, live : BOOLEAN,
            parts : SUBSET Part, todo : SUBSET Document]

Idle == [kind |-> None, at |-> "idle", path |-> None, limit |-> None, pipe |-> 0,
         doc |-> None, old |-> None, model |-> None, live |-> FALSE,
         parts |-> {}, todo |-> {}]

TypeOK ==
    /\ rows \subseteq Document /\ tx \subseteq Document
    /\ vectors \subseteq Vector
    /\ asked \in 0..MaxRequests
    /\ label \in Model \union {None} /\ config \in Model
    /\ cur \in Slot \union {0}
    /\ pipe \in [Slot -> Pipeline]
    /\ req \in [Worker -> Request]
    /\ faults \in 0..MaxFaults
    /\ lost \subseteq Document /\ stray \subseteq Document

NewPipeline(m) == [live |-> TRUE, model |-> m, lock |-> None,
                   cache |-> [l \in Limit |-> None]]

\* The service starts on an empty index, or on one it left in order.
Embedded(D, m) == [doc : D, part : Part, model : {m}]

Init ==
    /\ \/ rows = {} /\ label = None
       \/ \E p \in Path : rows = {[path |-> p, id |-> 0]} /\ label \in Model
    /\ tx = rows /\ vectors = Embedded(rows, label)
    /\ asked = 0
    /\ config = EnvModel /\ cur = 0
    /\ pipe = [i \in Slot |-> NewPipeline(None)]
    /\ req = [w \in Worker |-> Idle]
    /\ faults = 0 /\ lost = {} /\ stray = {}

----------------------------------------------------------------------------
\* What the steps share.

Requested == asked < MaxRequests /\ asked' = asked + 1
Fault == faults < MaxFaults /\ faults' = faults + 1

\* The event loop is blocked while it makes a pipeline itself; the thread
\* of a deletion makes one without blocking it.
LoopFree == \A w \in Worker : req[w].at \in {"make", "drop", "fill"}
                                  => req[w].kind = "delete"

VectorsOf(D) == {v \in vectors : v.doc \in D}
Searchable(d) == {v.part : v \in VectorsOf({d})} = Part
Only(x) == {x} \ {None}
Pipe(w) == pipe[req[w].pipe]

\* The model is loaded from the shared configuration at its first use.
ModelNotLoaded(p) == p.model
ModelOf(p) == IF p.model = None THEN config ELSE p.model

Finish(w) == req' = [req EXCEPT ![w] = Idle]
Goto(w, at) == req' = [req EXCEPT ![w].at = at]
AcquireAtOnce(w) == pipe' = [pipe EXCEPT ![req[w].pipe].lock = w]
Acquire(w) == Pipe(w).lock = None /\ pipe' = [pipe EXCEPT ![req[w].pipe].lock = w]
ReleaseNothing(w) == UNCHANGED pipe
Release(w) == pipe' = [pipe EXCEPT ![req[w].pipe].lock = None]

\* The imports between their rows and their commit.
Writing == {w \in Worker : req[w].at \in {"add", "commit"}}

\* The documents that imports on other pipelines than w's are writing.
WrittenBesides(w) ==
    {req[x].doc : x \in {y \in Writing : req[y].pipe # req[w].pipe}}

----------------------------------------------------------------------------
\* A request arrives at the event loop, which takes the pipeline or finds
\* that it must make one; a deletion does that later, in its thread.

Begin(w, new) ==
    /\ LoopFree /\ req[w] = Idle /\ Requested
    /\ req' = [req EXCEPT ![w] = new]
    /\ UNCHANGED <<rows, tx, vectors, label, config, cur, pipe, faults,
                   lost, stray>>

Started(kind) == [Idle EXCEPT !.kind = kind, !.pipe = cur,
                              !.at = IF cur = 0 THEN "make" ELSE "run"]

BeginSearch(w) == \E l \in Limit :
    Begin(w, [Started("search") EXCEPT !.limit = l])

BeginImport(w) == \E p \in Path :
    Begin(w, [Started("import") EXCEPT !.path = p,
                                       !.doc = [path |-> p, id |-> asked + 1]])

BeginDelete(w) == \E p \in Path :
    Begin(w, [Idle EXCEPT !.kind = "delete", !.path = p, !.at = "get"])

GetPipeline(w) ==
    /\ req[w].at = "get"
    /\ req' = [req EXCEPT ![w].at = Started("delete").at, ![w].pipe = cur]
    /\ UNCHANGED <<rows, tx, asked, vectors, label, config, cur, pipe, faults,
                   lost, stray>>

FreeSlot == CHOOSE i \in Slot : i # cur /\ \A w \in Worker : req[w].pipe # i

Publish(w, m, live) ==
    /\ cur' = FreeSlot
    /\ pipe' = [pipe EXCEPT ![FreeSlot] = [NewPipeline(m) EXCEPT !.live = live]]
    /\ req' = [req EXCEPT ![w].at = "run", ![w].pipe = FreeSlot,
                          ![w].model = None, ![w].live = FALSE]

\* The label names the configured model, or there is none yet, or there is
\* nothing to embed again: the collection is taken as it is.
MakePipeline(w) ==
    /\ req[w].at = "make"
    /\ label \in {config, None} \/ tx = {}
    /\ label' = IF label = None THEN config ELSE label
    /\ Publish(w, None, TRUE)
    /\ UNCHANGED <<rows, tx, asked, vectors, config, faults, lost, stray>>

\* The chunks are read, as the connection sees them, and embedded.
ReadForReembed(w) ==
    /\ req[w].at = "make"
    /\ label \notin {config, None} /\ tx # {}
    /\ req' = [req EXCEPT ![w].at = "drop", ![w].todo = tx, ![w].model = config]
    /\ UNCHANGED <<rows, tx, asked, vectors, label, config, cur, pipe, faults,
                   lost, stray>>

\* The old collection goes, with what was added since the reading.
DropCollection(w) ==
    /\ req[w].at = "drop"
    /\ vectors' = {} /\ label' = config
    /\ req' = [x \in Worker |-> IF x = w
                 THEN [req[w] EXCEPT !.at = "fill", !.live = TRUE]
                 ELSE [req[x] EXCEPT !.live = FALSE]]
    /\ pipe' = [i \in Slot |-> [pipe[i] EXCEPT !.live = FALSE]]
    /\ lost' = lost \union ((rows \union tx) \ req[w].todo) \union {req[x].doc : x \in Writing}
    /\ UNCHANGED <<rows, tx, asked, config, cur, faults, stray>>

Fill(w, d) ==
    /\ req[w].at = "fill" /\ req[w].live /\ d \in req[w].todo
    /\ vectors' = vectors \union Embedded({d}, req[w].model)
    /\ req' = [req EXCEPT ![w].todo = @ \ {d}]
    /\ lost' = lost \ {d}
    /\ stray' = IF d \in tx /\ \A x \in Worker : req[x].at = "rows" => req[x].doc # d
                THEN stray ELSE stray \union {d}
    /\ UNCHANGED <<rows, tx, asked, label, config, cur, pipe, faults>>

FillEnd(w) ==
    /\ req[w].at = "fill" /\ req[w].todo = {}
    /\ Publish(w, req[w].model, req[w].live)
    /\ UNCHANGED <<rows, tx, asked, vectors, label, config, faults, lost, stray>>

\* The collection stays as far as it was filled, under the new label.
FillFails(w) ==
    /\ req[w].at = "fill" /\ req[w].todo # {}
    /\ IF req[w].live THEN Fault ELSE UNCHANGED faults
    /\ lost' = IF req[w].live THEN lost \union req[w].todo ELSE lost
    /\ Finish(w)
    /\ UNCHANGED <<rows, tx, asked, vectors, label, config, cur, pipe, stray>>

\* Neither the label nor the vectors were touched.
MakeFails(w) ==
    /\ req[w].at = "make"
    /\ Fault /\ Finish(w)
    /\ UNCHANGED <<rows, tx, asked, vectors, label, config, cur, pipe, lost, stray>>

----------------------------------------------------------------------------
\* Import: an earlier document of the path goes first, its vectors at once
\* and its rows with the transaction; then rows, vectors, commit.

\* The file is missing, or has no readable text.
ImportReject(w) ==
    /\ req[w].at = "run" /\ req[w].kind = "import"
    /\ Finish(w)
    /\ UNCHANGED <<rows, tx, asked, vectors, label, config, cur, pipe, faults,
                   lost, stray>>

Existing(w) == {d \in tx : d.path = req[w].path}

\* The row of the document and those of its chunks.
Inserted(w) == {req[w].doc}

\* The vectors of D go, unless the handle is dead or ChromaDB fails.
DeleteVectors(w, D) ==
    \E gone \in {TRUE, FALSE} :
       /\ gone => Pipe(w).live
       /\ IF Pipe(w).live /\ ~gone THEN D # {} /\ Fault ELSE UNCHANGED faults
       /\ vectors' = IF gone THEN vectors \ VectorsOf(D) ELSE vectors
       /\ stray' = stray \union (IF gone THEN D \intersect WrittenBesides(w) ELSE D)

ImportRows(w) ==
    /\ req[w].at = "run" /\ req[w].kind = "import"
    /\ Acquire(w)
    /\ DeleteVectors(w, Existing(w))
    /\ tx' = (tx \ Existing(w)) \union Inserted(w)
    /\ req' = [req EXCEPT ![w].at = "add",
                 ![w].old = IF Existing(w) = {} THEN None
                            ELSE CHOOSE d \in Existing(w) : TRUE]
    /\ UNCHANGED <<rows, asked, label, config, cur, lost>>

\* A statement fails outside of the try: nobody rolls back, and the next
\* commit makes permanent what was done before it.
ImportRowsFail(w) ==
    /\ req[w].at = "run" /\ req[w].kind = "import"
    /\ Pipe(w).lock = None /\ Fault
    /\ vectors' = IF Pipe(w).live THEN vectors \ VectorsOf(Existing(w)) ELSE vectors
    /\ \E new \in {{}, Inserted(w)} :
          /\ tx' = (tx \ Existing(w)) \union new
          /\ lost' = lost \union Existing(w) \union new
    /\ stray' = stray \union (IF Pipe(w).live THEN Existing(w) \intersect WrittenBesides(w)
                               ELSE Existing(w))
    /\ Finish(w)
    /\ UNCHANGED <<rows, asked, label, config, cur, pipe>>

AnyAdded(parts) == parts # {}
AllAdded(parts) == parts = Part

AddPart(w, i) ==
    /\ req[w].at = "add" /\ Pipe(w).live /\ i \in Part \ req[w].parts
    /\ vectors' = vectors \union
          {[doc |-> req[w].doc, part |-> i, model |-> ModelOf(Pipe(w))]}
    /\ pipe' = [pipe EXCEPT ![req[w].pipe].model = ModelOf(Pipe(w))]
    /\ req' = [req EXCEPT ![w].parts = @ \union {i},
                          ![w].at = IF AllAdded(req[w].parts \union {i})
                                    THEN "commit" ELSE "add"]
    /\ UNCHANGED <<rows, tx, asked, label, config, cur, faults, lost, stray>>

\* What any request has done on the connection becomes permanent.
CommitImport(w) ==
    /\ req[w].at = "commit"
    /\ rows' = tx
    /\ Release(w) /\ Finish(w)
    /\ UNCHANGED <<tx, asked, vectors, label, config, cur, faults, lost, stray>>

CleanedNothing(w) == {}
Cleaned(w) == VectorsOf({req[w].doc})
RolledBack(w) == WrittenBesides(w)
                   \union {d \in tx \ rows : \A x \in Writing : req[x].doc # d}

\* What any request has done on the connection is undone.  Other imports
\* of this moment, on another pipeline, lose their rows and go on.
ImportFails(w) ==
    /\ w \in Writing
    /\ IF req[w].at = "add" /\ ~Pipe(w).live THEN UNCHANGED faults ELSE Fault
    /\ tx' = rows
    /\ \E cleaned \in {Pipe(w).live, FALSE} :
          /\ vectors' = IF cleaned THEN vectors \ Cleaned(w) ELSE vectors
          /\ stray' = stray \union RolledBack(w)
                           \union (IF cleaned THEN {} ELSE {req[w].doc})
    /\ lost' = lost \union (rows \ tx) \union (rows \intersect {req[w].doc})
    /\ Release(w) /\ Finish(w)
    /\ UNCHANGED <<rows, asked, label, config, cur>>

----------------------------------------------------------------------------
\* Deletion, in three steps that each take the lock for themselves.

FoundForDelete(w) == {d \in tx : d.path = req[w].path}

DeleteFind(w) ==
    /\ req[w].at = "run" /\ req[w].kind = "delete"
    /\ Pipe(w).lock = None
    /\ IF FoundForDelete(w) = {} THEN Finish(w)
       ELSE \E d \in FoundForDelete(w) :
              req' = [req EXCEPT ![w].at = "vectors", ![w].doc = d]
    /\ UNCHANGED <<rows, tx, asked, vectors, label, config, cur, pipe, faults,
                   lost, stray>>

DeleteItsVectors(w) ==
    /\ req[w].at = "vectors"
    /\ DeleteVectors(w, {req[w].doc}) /\ Goto(w, "rows")
    /\ UNCHANGED <<rows, tx, asked, label, config, cur, pipe, lost>>

DeleteRows(w) ==
    /\ req[w].at = "rows" /\ Pipe(w).lock = None
    /\ tx' = tx \ {req[w].doc} /\ rows' = tx'
    /\ stray' = IF Pipe(w).live /\ req[w].doc \notin WrittenBesides(w)
                THEN stray ELSE stray \union {req[w].doc}
    /\ Finish(w)
    /\ UNCHANGED <<asked, vectors, label, config, cur, pipe, faults, lost>>

DeleteRowsFail(w) ==
    /\ req[w].at = "rows" /\ Pipe(w).lock = None /\ Fault
    /\ lost' = lost \union {req[w].doc}
    /\ Finish(w)
    /\ UNCHANGED <<rows, tx, asked, vectors, label, config, cur, pipe, stray>>

----------------------------------------------------------------------------
\* Search for one query: what the pipeline's cache has for this limit, or
\* the nearest vectors, kept under the default limit.  An answer stands for
\* the limit it was made for.

Nearest(limit) == limit

SearchHit(w) ==
    /\ req[w].at = "run" /\ req[w].kind = "search"
    /\ Pipe(w).cache[req[w].limit] # None
    /\ Finish(w)
    /\ UNCHANGED <<rows, tx, asked, vectors, label, config, cur, pipe, faults,
                   lost, stray>>

SearchMiss(w) ==
    /\ req[w].at = "run" /\ req[w].kind = "search"
    /\ Pipe(w).cache[req[w].limit] = None /\ Pipe(w).live
    /\ pipe' = [pipe EXCEPT ![req[w].pipe].model = ModelOf(Pipe(w)),
                            ![req[w].pipe].cache[DefaultLimit] = Nearest(req[w].limit)]
    /\ Finish(w)
    /\ UNCHANGED <<rows, tx, asked, vectors, label, config, cur, faults, lost, stray>>

SearchFails(w) ==
    /\ req[w].at = "run" /\ req[w].kind = "search" /\ ~Pipe(w).live
    /\ Pipe(w).cache[req[w].limit] = None
    /\ Finish(w)
    /\ UNCHANGED <<rows, tx, asked, vectors, label, config, cur, pipe, faults,
                   lost, stray>>

\* The entry's time to live is over.
Expire(l) ==
    /\ cur # 0 /\ pipe[cur].cache[l] # None
    /\ pipe' = [pipe EXCEPT ![cur].cache[l] = None]
    /\ UNCHANGED <<rows, tx, asked, vectors, label, config, cur, req, faults,
                   lost, stray>>

----------------------------------------------------------------------------
\* The configuration changes in place, under the requests that run on it;
\* a restart takes the environment's again.  A pipeline that no request
\* uses is gone.

PutConfig(m) ==
    /\ LoopFree /\ Requested
    /\ config' = m /\ cur' = 0
    /\ pipe' = [i \in Slot |-> IF \E w \in Worker : req[w].pipe = i
                               THEN pipe[i] ELSE NewPipeline(None)]
    /\ UNCHANGED <<rows, tx, vectors, label, req, faults, lost, stray>>

Restart ==
    /\ Fault
    /\ tx' = rows
    /\ lost' = lost \union (rows \ tx)
                 \union {d \in rows : \E w \in Worker :
                            /\ req[w].at \in {"add", "commit", "rows"}
                            /\ d \in {req[w].doc, req[w].old}}
                 \union UNION {req[w].todo : w \in {x \in Worker :
                                  req[x].at = "fill" /\ req[x].live}}
    /\ stray' = stray \union (tx \ rows) \union {req[w].doc : w \in Writing}
    /\ config' = EnvModel /\ cur' = 0
    /\ pipe' = [i \in Slot |-> NewPipeline(None)]
    /\ req' = [w \in Worker |-> Idle]
    /\ UNCHANGED <<rows, asked, vectors, label>>

Step(w) ==
    \/ GetPipeline(w) \/ MakePipeline(w) \/ ReadForReembed(w)
    \/ DropCollection(w) \/ (\E d \in req[w].todo : Fill(w, d)) \/ FillEnd(w)
    \/ ImportRows(w) \/ (\E i \in Part : AddPart(w, i)) \/ CommitImport(w)
    \/ DeleteFind(w) \/ DeleteItsVectors(w) \/ DeleteRows(w)
    \/ SearchHit(w) \/ SearchMiss(w) \/ SearchFails(w)

Fails(w) == FillFails(w) \/ MakeFails(w) \/ ImportReject(w) \/ ImportRowsFail(w)
            \/ ImportFails(w) \/ DeleteRowsFail(w)

Next ==
    \/ \E w \in Worker : BeginSearch(w) \/ BeginImport(w) \/ BeginDelete(w)
                         \/ Step(w) \/ Fails(w)
    \/ \E l \in Limit : Expire(l)
    \/ \E m \in Model : PutConfig(m)
    \/ Restart

Spec == Init /\ [][Next]_vars

\* A thread that can go on does; nobody makes it fail or restart.
FairSpec == Spec /\ \A w \in Worker : WF_vars(Step(w) \/ Fails(w))

----------------------------------------------------------------------------
\* Requests under way that have taken a document's vectors, or not yet made
\* all of them.
Busy(d) == \E w \in Worker :
    \/ req[w].at \in {"add", "commit", "rows"} /\ d \in {req[w].doc, req[w].old}
    \/ req[w].at = "fill" /\ req[w].live /\ d \in req[w].todo

(* A document that is listed is found by searches: each of its chunks has  *)
(* a vector in the collection, unless a request is at work on it or one of *)
(* these took them: a failed import of the path (its vectors went first    *)
(* and the rollback brings back the rows only), a failed deletion, a       *)
(* collection made anew while the document was imported or not filled to   *)
(* the end, a restart in the middle of those.                              *)
DocumentsSearchable == \A d \in rows : Searchable(d) \/ d \in lost \/ Busy(d)

(* A vector belongs to a document that is stored or being imported, unless *)
(* the deletion of its vectors failed, a restart came between the vectors  *)
(* and the commit, or requests ran on two pipelines, whose locks differ.   *)
VectorsOwned == \A v \in vectors :
    v.doc \in tx \union rows \union stray \union {req[w].doc : w \in Writing}

(* The collection and the table tell of the same documents.                *)
IndexMatchesRows == DocumentsSearchable /\ VectorsOwned

(* An import that answers with success has stored its rows, although the   *)
(* commit and the rollback of every request act on the one connection;     *)
(* what a request on another pipeline rolled back or deleted is excepted.  *)
ImportedIsStored == [][\A w \in Worker :
    CommitImport(w) => req[w].doc \in rows' \union stray]_vars

(* Every request ends: no lock stays held, and the event loop goes on.     *)
EveryRequestEnds == \A w \in Worker : (req[w] # Idle) ~> (req[w] = Idle)

=============================================================================
