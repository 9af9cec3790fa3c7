---------------------------- MODULE RagIndexProofs ----------------------------
(***************************************************************************)
(* Proofs about RagIndex: however imports, deletions, searches and changes *)
(* of the configuration interleave, and whichever of them fail, the table  *)
(* and the collection tell of the same documents but for those that went   *)
(* in one of the ways the actions name.                                    *)
(***************************************************************************)
EXTENDS RagIndex, FiniteSetTheorems, TLAPS

(* What a request has at each of its steps.                                *)
RequestOK(r) ==
    /\ r.at \in {"make", "drop", "fill", "run"} /\ r.kind = "import" =>
         r.path \in Path /\ r.doc \in Document /\ r.doc.path = r.path
    /\ r.at = "get" => r.kind = "delete"
    /\ r.at \in {"make", "drop", "fill"} => r.pipe = 0
    /\ r.at \in {"run", "add", "commit", "vectors", "rows"} => r.pipe \in Slot
    /\ r.at \in {"drop", "fill"} => r.model \in Model
    /\ r.at \in {"add", "commit"} => r.kind = "import" /\ r.doc \in Document
    /\ r.at \in {"vectors", "rows"} => r.kind = "delete" /\ r.doc \in Document
    /\ r.at \in {"make", "drop", "fill", "run"} /\ r.kind = "search" => r.limit \in Limit
    /\ r.at = "commit" => r.parts = Part
    /\ r.at \notin {"add", "commit"} => r.parts = {}

RequestsOK == \A w \in Worker : RequestOK(req[w])

(* An import has its pipeline's lock from its rows to its commit.          *)
LocksHeld == \A w \in Writing : Pipe(w).lock = w

(* The documents that somebody may know of, and the imports that have not  *)
(* stored a row yet, whose document nobody does.                           *)
Deleting == {w \in Worker : req[w].at \in {"vectors", "rows"}}
Known == tx \union rows \union {req[w].doc : w \in Writing \union Deleting}
Starting == {w \in Worker : /\ req[w].kind = "import"
                            /\ req[w].at \in {"make", "drop", "fill", "run"}}
FreshDocs ==
    /\ \A d \in Known : d.id <= asked
    /\ \A w \in Starting : req[w].doc.id <= asked /\ req[w].doc \notin Known
    /\ \A w, x \in Starting \union Writing : w # x => req[w].doc # req[x].doc

(* A path has one document.                                                *)
OnePerPath(docs) == \A d, e \in docs : d.path = e.path => d = e

(* A deletion and the import of its document are on different pipelines.   *)
DeletesBesides ==
    \A x \in Deleting, w \in Writing : req[x].doc = req[w].doc => req[x].pipe # req[w].pipe

(* Nobody has vectors of the document or is about to make some.            *)
NoneLeft(d) == VectorsOf({d}) = {} /\ \A w \in Writing : req[w].doc # d

(* The rows of an import are there until it commits; documents that are    *)
(* not in the transaction any more, or are being deleted, have no vectors. *)
WrittenStored == \A w \in Writing : req[w].doc \in tx \union stray
RemovedGone == \A d \in rows \ tx : d \in stray \/ NoneLeft(d)
DeletedGone == \A x \in Worker :
    req[x].at = "rows" => req[x].doc \in stray \/ NoneLeft(req[x].doc)

(* The request is deleting the document or makes its vectors anew.         *)
Redoing(x, d) ==
    \/ req[x].at = "rows" /\ req[x].doc = d
    \/ req[x].at = "fill" /\ req[x].live /\ d \in req[x].todo

PartsOf(d) == {v.part : v \in VectorsOf({d})}
Excused(d) == d \in lost \/ Searchable(d) \/ \E x \in Worker : Redoing(x, d)

(* What is in the transaction is searchable, or excused, or being          *)
(* imported; what an import has taken out of it is excused for as long as  *)
(* the import runs; an import has made the vectors it says it has.         *)
PresentSearchable ==
    \A d \in tx : Excused(d) \/ \E w \in Writing : req[w].doc = d
RemovedExcused ==
    \A d \in rows \ tx : Excused(d) \/ \E w \in Writing : req[w].old = d
PartsMade ==
    \A w \in Writing : req[w].doc \in tx =>
        Excused(req[w].doc) \/ req[w].parts \subseteq PartsOf(req[w].doc)

RequestInv == LocksHeld /\ FreshDocs /\ DeletesBesides
OwnerInv == WrittenStored /\ RemovedGone /\ DeletedGone /\ VectorsOwned
SearchInv ==
    /\ OnePerPath(tx) /\ OnePerPath(rows)
    /\ PresentSearchable /\ RemovedExcused /\ PartsMade

-----------------------------------------------------------------------------
(* A slot for a new pipeline.                                               *)

(* There is one slot more than there are threads: one that makes a         *)
(* pipeline, and so uses none, finds a slot that nobody uses.              *)
LEMMA FreeSlotFree ==
    ASSUME TypeOK, NEW w \in Worker, req[w].pipe = 0
    PROVE  /\ FreeSlot \in Slot /\ FreeSlot # cur
           /\ \A x \in Worker : req[x].pipe # FreeSlot
<1> DEFINE S == Slot \ {cur}
           T == Worker \ {w}
<1>1. Cardinality(Worker) \in Nat /\ IsFiniteSet(Worker)
  BY WorkersAssumption, FS_CardinalityType
<1>2. IsFiniteSet(Slot) /\ Cardinality(Slot) = Cardinality(Worker) + 1
  BY <1>1, FS_Interval DEF Slot
<1>3. IsFiniteSet(S) /\ Cardinality(S) >= Cardinality(Worker)
  BY <1>1, <1>2, FS_RemoveElement
<1>4. IsFiniteSet(T) /\ Cardinality(T) = Cardinality(Worker) - 1
  BY <1>1, FS_RemoveElement
<1>5. \E i \in S : \A x \in Worker : req[x].pipe # i
  <2> SUFFICES ASSUME \A i \in S : \E x \in Worker : req[x].pipe = i PROVE FALSE
    OBVIOUS
  <2>1. \A i \in S : \E x \in T : req[x].pipe = i
    BY DEF Slot
  <2> DEFINE f == [i \in S |-> CHOOSE x \in T : req[x].pipe = i]
  <2>2. \A i \in S : f[i] \in T /\ req[f[i]].pipe = i
    BY <2>1
  <2>3. f \in [S -> T]
    BY <2>2
  <2> HIDE DEF f, S, T
  <2>4. \E i, j \in S : i # j /\ f[i] = f[j]
    BY <1>1, <1>3, <1>4, <2>3, FS_PigeonHole, FS_CardinalityType
  <2>5. QED
    BY <2>2, <2>4
<1>6. QED
  BY <1>5 DEF FreeSlot

-----------------------------------------------------------------------------
(* Types.                                                                   *)

TypeInv == TypeOK /\ RequestsOK

LEMMA IdleOK == Idle \in Request /\ RequestOK(Idle)
  BY DEF Idle, Request, RequestOK

LEMMA NewPipelineType == \A m \in Model \union {None} : NewPipeline(m) \in Pipeline
  BY DEF NewPipeline, Pipeline

LEMMA EmbeddedType ==
    ASSUME NEW D \in SUBSET Document, NEW m \in Model
    PROVE  Embedded(D, m) \subseteq Vector
  BY DEF Embedded, Vector

LEMMA TypeInit == Init => TypeInv
<1> SUFFICES ASSUME Init PROVE TypeInv
  OBVIOUS
<1>1. rows \subseteq Document /\ label \in Model \union {None} /\ vectors \subseteq Vector
  <2>1. CASE rows = {} /\ label = None
    BY <2>1 DEF Init, Embedded
  <2>2. ASSUME NEW p \in Path, rows = {[path |-> p, id |-> 0]}, label \in Model
        PROVE  rows \subseteq Document /\ vectors \subseteq Vector
    <3>1. rows \in SUBSET Document
      BY <2>2, BoundsAssumption DEF Document
    <3>2. QED
      BY <2>2, <3>1, EmbeddedType DEF Init
  <2>3. QED
    BY <2>1, <2>2 DEF Init
<1>2. pipe \in [Slot -> Pipeline]
  BY NewPipelineType DEF Init
<1>3. req \in [Worker -> Request] /\ RequestsOK
  BY IdleOK DEF Init, RequestsOK
<1>4. QED
  BY <1>1, <1>2, <1>3, ModelsAssumption, BoundsAssumption DEF Init, TypeInv, TypeOK

(* A step that changes one request.                                        *)
LEMMA OneRequest ==
    ASSUME TypeInv, NEW w \in Worker, NEW r, req' = [req EXCEPT ![w] = r],
           r \in Request, RequestOK(r)
    PROVE  req' \in [Worker -> Request] /\ RequestsOK'
<1>1. req' \in [Worker -> Request]
  BY DEF TypeInv, TypeOK
<1>2. \A x \in Worker : RequestOK(req'[x])
  BY DEF TypeInv, TypeOK, RequestsOK
<1>3. QED
  BY <1>1, <1>2 DEF RequestsOK, RequestOK

LEMMA FaultType == ASSUME TypeOK, Fault PROVE faults' \in 0..MaxFaults
  BY BoundsAssumption DEF TypeOK, Fault

LEMMA RequestedType == ASSUME TypeOK, Requested PROVE asked' \in 0..MaxRequests /\ asked' = asked + 1
  BY BoundsAssumption DEF TypeOK, Requested

LEMMA DeleteVectorsType ==
    ASSUME TypeOK, NEW w \in Worker, NEW D \in SUBSET Document, DeleteVectors(w, D)
    PROVE  faults' \in 0..MaxFaults /\ vectors' \subseteq Vector /\ stray' \subseteq Document
<1>1. PICK gone \in {TRUE, FALSE} :
         /\ IF Pipe(w).live /\ ~gone THEN D # {} /\ Fault ELSE UNCHANGED faults
         /\ vectors' = IF gone THEN vectors \ VectorsOf(D) ELSE vectors
         /\ stray' = stray \union (IF gone THEN D \intersect WrittenBesides(w) ELSE D)
  BY DEF DeleteVectors
<1>2. faults' \in 0..MaxFaults
  BY <1>1, FaultType DEF TypeOK
<1>3. QED
  BY <1>1, <1>2 DEF TypeOK

LEMMA BeginTyped ==
    ASSUME TypeInv, NEW w \in Worker, BeginSearch(w) \/ BeginImport(w) \/ BeginDelete(w)
    PROVE  TypeInv'
<1>1. asked \in Nat /\ cur \in Slot \union {0}
  BY BoundsAssumption DEF TypeInv, TypeOK
<1>2. \E r \in Request : RequestOK(r) /\ Begin(w, r)
  <2>1. ASSUME NEW l \in Limit, Begin(w, [Started("search") EXCEPT !.limit = l])
        PROVE  \E r \in Request : RequestOK(r) /\ Begin(w, r)
    <3> DEFINE r == [Started("search") EXCEPT !.limit = l]
    <3>1. r \in Request
      BY <1>1 DEF Started, Idle, Request
    <3>2. RequestOK(r)
      BY <1>1 DEF Started, Idle, RequestOK
    <3>3. QED
      BY <2>1, <3>1, <3>2
  <2>2. ASSUME NEW p \in Path, Requested,
               Begin(w, [Started("import") EXCEPT !.path = p,
                                                  !.doc = [path |-> p, id |-> asked + 1]])
        PROVE  \E r \in Request : RequestOK(r) /\ Begin(w, r)
    <3> DEFINE r == [Started("import") EXCEPT !.path = p, !.doc = [path |-> p, id |-> asked + 1]]
    <3>1. [path |-> p, id |-> asked + 1] \in Document
      BY <1>1, <2>2, RequestedType DEF Document, TypeInv
    <3>2. r \in Request
      BY <1>1, <3>1 DEF Started, Idle, Request
    <3>3. RequestOK(r)
      BY <1>1, <3>1 DEF Started, Idle, RequestOK
    <3>4. QED
      BY <2>2, <3>2, <3>3
  <2>3. ASSUME NEW p \in Path,
               Begin(w, [Idle EXCEPT !.kind = "delete", !.path = p, !.at = "get"])
        PROVE  \E r \in Request : RequestOK(r) /\ Begin(w, r)
    <3> DEFINE r == [Idle EXCEPT !.kind = "delete", !.path = p, !.at = "get"]
    <3>1. r \in Request /\ RequestOK(r)
      BY DEF Idle, Request, RequestOK
    <3>2. QED
      BY <2>3, <3>1
  <2>4. QED
    BY <2>1, <2>2, <2>3 DEF BeginSearch, BeginImport, BeginDelete, Begin
<1>3. PICK r \in Request : RequestOK(r) /\ Begin(w, r)
  BY <1>2
<1>4. req' \in [Worker -> Request] /\ RequestsOK'
  BY <1>3, OneRequest DEF Begin
<1>5. QED
  BY <1>3, <1>4, RequestedType DEF Begin, TypeInv, TypeOK

(* Making a pipeline: its steps, and where the request goes on.            *)
LEMMA PublishTyped ==
    ASSUME TypeInv, NEW w \in Worker, req[w].at \in {"make", "fill"},
           NEW m \in Model \union {None}, NEW live \in BOOLEAN, Publish(w, m, live)
    PROVE  /\ cur' \in Slot /\ pipe' \in [Slot -> Pipeline]
           /\ req' \in [Worker -> Request] /\ RequestsOK'
<1>1. /\ req[w] \in Request /\ RequestOK(req[w])
      /\ pipe \in [Slot -> Pipeline]
  BY DEF TypeInv, TypeOK, RequestsOK
<1>2. FreeSlot \in Slot
  BY <1>1, FreeSlotFree DEF RequestOK, TypeInv
<1>3. [NewPipeline(m) EXCEPT !.live = live] \in Pipeline
  BY NewPipelineType DEF Pipeline
<1> DEFINE r == [req[w] EXCEPT !.at = "run", !.pipe = FreeSlot, !.model = None, !.live = FALSE]
<1>4. r \in Request
  BY <1>1, <1>2 DEF Request
<1>5. RequestOK(r)
  BY <1>1, <1>2 DEF Request, RequestOK
<1>6. req' = [req EXCEPT ![w] = r]
  BY DEF Publish
<1>7. QED
  BY <1>1, <1>2, <1>3, <1>4, <1>5, <1>6, OneRequest DEF Publish

LEMMA MakeTyped ==
    ASSUME TypeInv, NEW w \in Worker,
           MakePipeline(w) \/ ReadForReembed(w) \/ DropCollection(w) \/ FillEnd(w)
    PROVE  TypeInv'
<1>1. /\ req[w] \in Request /\ RequestOK(req[w])
      /\ req \in [Worker -> Request] /\ pipe \in [Slot -> Pipeline]
      /\ config \in Model /\ tx \subseteq Document /\ rows \subseteq Document
      /\ lost \subseteq Document
  BY DEF TypeInv, TypeOK, RequestsOK
<1>2. CASE MakePipeline(w)
  <2>1. /\ cur' \in Slot /\ pipe' \in [Slot -> Pipeline]
        /\ req' \in [Worker -> Request] /\ RequestsOK'
    BY <1>2, PublishTyped DEF MakePipeline
  <2>2. QED
    BY <1>2, <2>1 DEF MakePipeline, TypeInv, TypeOK
<1>3. CASE ReadForReembed(w)
  <2> DEFINE r == [req[w] EXCEPT !.at = "drop", !.todo = tx, !.model = config]
  <2>1. r \in Request
    BY <1>1 DEF Request
  <2>2. RequestOK(r)
    BY <1>1, <1>3 DEF ReadForReembed, Request, RequestOK
  <2>3. req' = [req EXCEPT ![w] = r]
    BY <1>3 DEF ReadForReembed
  <2>4. req' \in [Worker -> Request] /\ RequestsOK'
    BY <2>1, <2>2, <2>3, OneRequest
  <2>5. QED
    BY <1>3, <2>4 DEF ReadForReembed, TypeInv, TypeOK
<1>4. CASE DropCollection(w)
  <2>1. ASSUME NEW x \in Worker PROVE req'[x] \in Request /\ RequestOK(req'[x])
    <3>0. req[x] \in Request /\ RequestOK(req[x])
      BY DEF TypeInv, TypeOK, RequestsOK
    <3>1. CASE x = w
      <4> DEFINE r == [req[w] EXCEPT !.at = "fill", !.live = TRUE]
      <4>1. r \in Request
        BY <1>1 DEF Request
      <4>2. RequestOK(r)
        BY <1>1, <1>4 DEF DropCollection, Request, RequestOK
      <4>3. req'[x] = r
        BY <1>4, <3>1 DEF DropCollection
      <4>4. QED
        BY <4>1, <4>2, <4>3
    <3>2. CASE x # w
      <4>1. req'[x] = [req[x] EXCEPT !.live = FALSE]
        BY <1>4, <3>2 DEF DropCollection
      <4>2. \A f \in {"kind", "at", "path", "limit", "pipe", "doc", "model", "parts"} :
              req'[x][f] = req[x][f]
        BY <3>0, <4>1 DEF Request
      <4>3. req'[x] \in Request
        BY <3>0, <4>1 DEF Request
      <4>4. QED
        BY <3>0, <4>2, <4>3 DEF RequestOK
    <3>3. QED
      BY <3>1, <3>2
  <2>2. req' \in [Worker -> Request] /\ RequestsOK'
    <3>1. DOMAIN req' = Worker /\ req' = [x \in Worker |-> req'[x]]
      BY <1>4 DEF DropCollection
    <3>2. QED
      BY <2>1, <3>1 DEF RequestsOK, RequestOK
  <2>3. pipe' \in [Slot -> Pipeline]
    BY <1>1, <1>4 DEF DropCollection, Pipeline
  <2>4. lost' \subseteq Document
    <3>1. \A x \in Writing : req[x].doc \in Document
      BY DEF Writing, TypeInv, RequestsOK, RequestOK
    <3>2. QED
      BY <1>1, <1>4, <3>1 DEF DropCollection
  <2>5. vectors' = {} /\ label' = config
    BY <1>4 DEF DropCollection
  <2>6. QED
    BY <1>4, <2>2, <2>3, <2>4, <2>5 DEF DropCollection, TypeInv, TypeOK
<1>5. CASE FillEnd(w)
  <2>1. req[w].model \in Model \union {None} /\ req[w].live \in BOOLEAN
    BY <1>1 DEF Request
  <2>2. /\ cur' \in Slot /\ pipe' \in [Slot -> Pipeline]
        /\ req' \in [Worker -> Request] /\ RequestsOK'
    BY <1>5, <2>1, PublishTyped DEF FillEnd
  <2>3. QED
    BY <1>5, <2>2 DEF FillEnd, TypeInv, TypeOK
<1>6. QED
  BY <1>2, <1>3, <1>4, <1>5

LEMMA FillTyped ==
    ASSUME TypeInv, NEW w \in Worker, NEW d \in req[w].todo, Fill(w, d)
    PROVE  TypeInv'
<1>1. req[w] \in Request /\ RequestOK(req[w]) /\ d \in Document
  BY DEF TypeInv, TypeOK, RequestsOK, Request
<1> DEFINE r == [req[w] EXCEPT !.todo = @ \ {d}]
<1>2. r \in Request
  BY <1>1 DEF Request
<1>3. RequestOK(r)
  BY <1>1 DEF Request, RequestOK
<1>4. req' = [req EXCEPT ![w] = r]
  BY DEF Fill
<1>5. req' \in [Worker -> Request] /\ RequestsOK'
  BY <1>2, <1>3, <1>4, OneRequest
<1>6. Embedded({d}, req[w].model) \subseteq Vector
  BY <1>1, EmbeddedType DEF Fill, RequestOK
<1>7. vectors' \subseteq Vector /\ lost' \subseteq Document /\ stray' \subseteq Document
  <2>1. stray' \subseteq stray \union {d}
    BY DEF Fill
  <2>2. QED
    BY <1>1, <1>6, <2>1 DEF Fill, TypeInv, TypeOK
<1>8. QED
  BY <1>5, <1>7 DEF Fill, TypeInv, TypeOK

(* Steps that end a request, and the other small ones.                     *)
LEMMA FinishTyped ==
    ASSUME TypeInv, NEW w \in Worker, Finish(w)
    PROVE  req' \in [Worker -> Request] /\ RequestsOK'
  BY IdleOK, OneRequest DEF Finish

LEMMA EndTyped ==
    ASSUME TypeInv, NEW w \in Worker,
           FillFails(w) \/ MakeFails(w) \/ ImportReject(w) \/ SearchHit(w)
             \/ SearchFails(w) \/ DeleteRowsFail(w)
    PROVE  TypeInv'
<1>1. req' \in [Worker -> Request] /\ RequestsOK'
  BY FinishTyped DEF FillFails, MakeFails, ImportReject, SearchHit, SearchFails,
     DeleteRowsFail
<1>2. faults' \in 0..MaxFaults
  BY FaultType DEF TypeInv, TypeOK, FillFails, MakeFails, ImportReject, SearchHit,
     SearchFails, DeleteRowsFail
<1>3. lost' \subseteq Document
  <2>1. req[w] \in Request /\ RequestOK(req[w]) /\ lost \subseteq Document
    BY DEF TypeInv, TypeOK, RequestsOK
  <2>2. CASE FillFails(w)
    BY <2>1, <2>2 DEF FillFails, Request
  <2>3. CASE DeleteRowsFail(w)
    BY <2>1, <2>3 DEF DeleteRowsFail, RequestOK
  <2>4. CASE lost' = lost
    BY <2>1, <2>4
  <2>5. QED
    BY <2>2, <2>3, <2>4 DEF MakeFails, ImportReject, SearchHit, SearchFails
<1>4. UNCHANGED <<rows, tx, asked, vectors, label, config, cur, pipe, stray>>
  BY DEF FillFails, MakeFails, ImportReject, SearchHit, SearchFails, DeleteRowsFail
<1>5. QED
  BY <1>1, <1>2, <1>3, <1>4 DEF TypeInv, TypeOK

LEMMA GetTyped ==
    ASSUME TypeInv, NEW w \in Worker, GetPipeline(w) \/ DeleteFind(w)
    PROVE  TypeInv'
<1>1. /\ req[w] \in Request /\ RequestOK(req[w]) /\ tx \subseteq Document
      /\ cur \in Slot \union {0}
  BY DEF TypeInv, TypeOK, RequestsOK
<1>2. req' \in [Worker -> Request] /\ RequestsOK'
  <2>1. CASE GetPipeline(w)
    <3> DEFINE r == [req[w] EXCEPT !.at = Started("delete").at, !.pipe = cur]
    <3>1. Started("delete").at = IF cur = 0 THEN "make" ELSE "run"
      BY DEF Started, Idle
    <3>2. r \in Request
      BY <1>1, <3>1 DEF Request
    <3>3. req[w].kind = "delete" /\ req[w].parts = {}
      BY <1>1, <2>1 DEF RequestOK, GetPipeline
    <3>4. RequestOK(r)
      BY <1>1, <3>1, <3>3 DEF Request, RequestOK
    <3>5. req' = [req EXCEPT ![w] = r]
      BY <2>1 DEF GetPipeline
    <3>6. QED
      BY <3>2, <3>4, <3>5, OneRequest
  <2>2. CASE DeleteFind(w)
    <3>1. CASE Finish(w)
      BY <3>1, FinishTyped
    <3>2. CASE ~Finish(w)
      <4>1. PICK d \in tx : req' = [req EXCEPT ![w].at = "vectors", ![w].doc = d]
        BY <2>2, <3>2 DEF DeleteFind, FoundForDelete
      <4> DEFINE r == [req[w] EXCEPT !.at = "vectors", !.doc = d]
      <4>2. r \in Request
        BY <1>1, <4>1 DEF Request
      <4>3. RequestOK(r)
        BY <1>1, <2>2, <4>1 DEF Request, RequestOK, DeleteFind
      <4>4. req' = [req EXCEPT ![w] = r]
        BY <4>1
      <4>5. QED
        BY <4>2, <4>3, <4>4, OneRequest
    <3>3. QED
      BY <3>1, <3>2
  <2>3. QED
    BY <2>1, <2>2
<1>3. QED
  BY <1>2 DEF GetPipeline, DeleteFind, TypeInv, TypeOK

LEMMA LockTyped ==
    ASSUME TypeInv, NEW w \in Worker, req[w].pipe \in Slot, Acquire(w) \/ Release(w)
    PROVE  pipe' \in [Slot -> Pipeline]
  BY DEF TypeInv, TypeOK, Acquire, Release, Pipeline

LEMMA ImportTyped ==
    ASSUME TypeInv, NEW w \in Worker, ImportRows(w) \/ ImportRowsFail(w)
    PROVE  TypeInv'
<1>1. /\ req[w] \in Request /\ RequestOK(req[w]) /\ tx \subseteq Document
      /\ Existing(w) \in SUBSET Document /\ Inserted(w) \subseteq Document
  BY DEF TypeInv, TypeOK, RequestsOK, Existing, Inserted, ImportRows, ImportRowsFail, RequestOK
<1>2. CASE ImportRows(w)
  <2> DEFINE o == IF Existing(w) = {} THEN None ELSE CHOOSE d \in Existing(w) : TRUE
             r == [req[w] EXCEPT !.at = "add", !.old = o]
  <2>1. o \in Document \union {None}
    BY <1>1
  <2>2. /\ r.kind = req[w].kind /\ r.doc = req[w].doc /\ r.pipe = req[w].pipe
        /\ r.at = "add" /\ r.parts = req[w].parts /\ r \in Request
    <3> HIDE DEF o
    <3>1. QED
      BY <1>1, <2>1 DEF Request
  <2>3. RequestOK(r)
    <3> HIDE DEF r
    <3>1. QED
      BY <1>1, <1>2, <2>2 DEF RequestOK, ImportRows
  <2>4. req' = [req EXCEPT ![w] = r]
    BY <1>2 DEF ImportRows
  <2>5. req' \in [Worker -> Request] /\ RequestsOK'
    <3> HIDE DEF r
    <3>1. QED
      BY <2>2, <2>3, <2>4, OneRequest
  <2>6. pipe' \in [Slot -> Pipeline]
    BY <1>1, <1>2, LockTyped DEF ImportRows, RequestOK
  <2>7. faults' \in 0..MaxFaults /\ vectors' \subseteq Vector /\ stray' \subseteq Document
    BY <1>1, <1>2, DeleteVectorsType DEF ImportRows, TypeInv
  <2>8. QED
    BY <1>1, <1>2, <2>5, <2>6, <2>7 DEF ImportRows, TypeInv, TypeOK
<1>3. CASE ImportRowsFail(w)
  <2>1. req' \in [Worker -> Request] /\ RequestsOK'
    BY <1>3, FinishTyped DEF ImportRowsFail
  <2>2. faults' \in 0..MaxFaults
    BY <1>3, FaultType DEF ImportRowsFail, TypeInv
  <2>3. PICK new \in {{}, Inserted(w)} :
          /\ tx' = (tx \ Existing(w)) \union new
          /\ lost' = lost \union Existing(w) \union new
    BY <1>3 DEF ImportRowsFail
  <2>4. tx' \subseteq Document /\ lost' \subseteq Document
    BY <1>1, <2>3 DEF TypeInv, TypeOK
  <2>5. vectors' \subseteq Vector /\ stray' \subseteq Document
    BY <1>1, <1>3 DEF ImportRowsFail, TypeInv, TypeOK
  <2>6. QED
    BY <1>3, <2>1, <2>2, <2>4, <2>5 DEF ImportRowsFail, TypeInv, TypeOK
<1>4. QED
  BY <1>2, <1>3

LEMMA AddTyped ==
    ASSUME TypeInv, NEW w \in Worker, NEW i \in Part, AddPart(w, i)
    PROVE  TypeInv'
<1>1. /\ req[w] \in Request /\ RequestOK(req[w]) /\ pipe \in [Slot -> Pipeline]
      /\ config \in Model /\ req[w].pipe \in Slot /\ req[w].doc \in Document
  BY DEF TypeInv, TypeOK, RequestsOK, AddPart, RequestOK
<1>2. ModelOf(Pipe(w)) \in Model
  BY <1>1 DEF ModelOf, Pipe, Pipeline
<1>3. pipe' \in [Slot -> Pipeline]
  BY <1>1, <1>2 DEF AddPart, Pipeline
<1>4. vectors' \subseteq Vector
  BY <1>1, <1>2 DEF AddPart, Vector, TypeInv, TypeOK
<1> DEFINE r == [req[w] EXCEPT !.parts = @ \union {i},
                   !.at = IF AllAdded(req[w].parts \union {i}) THEN "commit" ELSE "add"]
<1>5. r \in Request
  BY <1>1 DEF Request
<1>6. RequestOK(r)
  BY <1>1 DEF Request, RequestOK, AddPart, AllAdded
<1>7. req' = [req EXCEPT ![w] = r]
  BY DEF AddPart
<1>8. req' \in [Worker -> Request] /\ RequestsOK'
  BY <1>5, <1>6, <1>7, OneRequest
<1>9. QED
  BY <1>3, <1>4, <1>8 DEF AddPart, TypeInv, TypeOK

LEMMA WritersTyped ==
    ASSUME TypeInv
    PROVE  \A w \in Writing : w \in Worker /\ req[w].pipe \in Slot /\ req[w].doc \in Document
  BY DEF TypeInv, RequestsOK, RequestOK, Writing

LEMMA CommitTyped ==
    ASSUME TypeInv, NEW w \in Worker, CommitImport(w) \/ ImportFails(w)
    PROVE  TypeInv'
<1>1. req[w].pipe \in Slot /\ req[w].doc \in Document
  BY WritersTyped DEF CommitImport, ImportFails, Writing
<1>2. req' \in [Worker -> Request] /\ RequestsOK'
  BY FinishTyped DEF CommitImport, ImportFails
<1>3. pipe' \in [Slot -> Pipeline]
  BY <1>1, LockTyped DEF CommitImport, ImportFails
<1>4. CASE CommitImport(w)
  BY <1>2, <1>3, <1>4 DEF CommitImport, TypeInv, TypeOK
<1>5. CASE ImportFails(w)
  <2>1. faults' \in 0..MaxFaults
    BY <1>5, FaultType DEF ImportFails, TypeInv, TypeOK
  <2>2. RolledBack(w) \subseteq Document
    BY WritersTyped DEF RolledBack, WrittenBesides, TypeInv, TypeOK
  <2>3. vectors' \subseteq Vector /\ stray' \subseteq Document
    BY <1>1, <1>5, <2>2 DEF ImportFails, TypeInv, TypeOK
  <2>4. QED
    BY <1>2, <1>3, <1>5, <2>1, <2>3 DEF ImportFails, TypeInv, TypeOK
<1>6. QED
  BY <1>4, <1>5

LEMMA DeleteTyped ==
    ASSUME TypeInv, NEW w \in Worker, DeleteItsVectors(w) \/ DeleteRows(w)
    PROVE  TypeInv'
<1>1. req[w] \in Request /\ RequestOK(req[w]) /\ req[w].doc \in Document
  BY DEF TypeInv, TypeOK, RequestsOK, DeleteItsVectors, DeleteRows, RequestOK
<1>2. CASE DeleteItsVectors(w)
  <2>1. faults' \in 0..MaxFaults /\ vectors' \subseteq Vector /\ stray' \subseteq Document
    BY <1>1, <1>2, DeleteVectorsType DEF DeleteItsVectors, TypeInv
  <2> DEFINE r == [req[w] EXCEPT !.at = "rows"]
  <2>2. r \in Request
    BY <1>1 DEF Request
  <2>3. RequestOK(r)
    BY <1>1, <1>2 DEF Request, RequestOK, DeleteItsVectors
  <2>4. req' = [req EXCEPT ![w] = r]
    BY <1>2 DEF DeleteItsVectors, Goto
  <2>5. req' \in [Worker -> Request] /\ RequestsOK'
    BY <2>2, <2>3, <2>4, OneRequest
  <2>6. QED
    BY <1>2, <2>1, <2>5 DEF DeleteItsVectors, TypeInv, TypeOK
<1>3. CASE DeleteRows(w)
  <2>1. req' \in [Worker -> Request] /\ RequestsOK'
    BY <1>3, FinishTyped DEF DeleteRows
  <2>2. QED
    BY <1>1, <1>3, <2>1 DEF DeleteRows, TypeInv, TypeOK
<1>4. QED
  BY <1>2, <1>3

LEMMA SearchTyped == ASSUME TypeInv, NEW w \in Worker, SearchMiss(w) PROVE TypeInv'
<1>1. /\ RequestOK(req[w]) /\ pipe \in [Slot -> Pipeline] /\ config \in Model
  BY DEF TypeInv, TypeOK, RequestsOK
<1>2. req[w].pipe \in Slot /\ req[w].limit \in Limit
  BY <1>1 DEF SearchMiss, RequestOK
<1>3. ModelOf(Pipe(w)) \in Model
  BY <1>1, <1>2 DEF ModelOf, Pipe, Pipeline
<1>4. pipe' \in [Slot -> Pipeline]
  BY <1>1, <1>2, <1>3, DefaultAssumption DEF SearchMiss, Pipeline, Nearest
<1>5. req' \in [Worker -> Request] /\ RequestsOK'
  BY FinishTyped DEF SearchMiss
<1>6. QED
  BY <1>4, <1>5 DEF SearchMiss, TypeInv, TypeOK

LEMMA ExpireTyped == ASSUME TypeInv, NEW l \in Limit, Expire(l) PROVE TypeInv'
<1>1. pipe' \in [Slot -> Pipeline]
  BY DEF Expire, Pipeline, TypeInv, TypeOK
<1>2. RequestsOK'
  BY DEF Expire, TypeInv, RequestsOK, RequestOK
<1>3. QED
  BY <1>1, <1>2 DEF Expire, TypeInv, TypeOK

LEMMA ConfigTyped == ASSUME TypeInv, NEW m \in Model, PutConfig(m) PROVE TypeInv'
<1>1. pipe' \in [Slot -> Pipeline]
  BY NewPipelineType DEF PutConfig, TypeInv, TypeOK
<1>2. RequestsOK'
  BY DEF PutConfig, TypeInv, RequestsOK, RequestOK
<1>3. QED
  BY <1>1, <1>2, RequestedType DEF PutConfig, TypeInv, TypeOK

LEMMA RestartTyped == ASSUME TypeInv, Restart PROVE TypeInv'
<1>1. pipe' \in [Slot -> Pipeline]
  BY NewPipelineType DEF Restart
<1>2. req' \in [Worker -> Request] /\ RequestsOK'
  BY IdleOK DEF Restart, RequestsOK, RequestOK
<1>3. stray' \subseteq Document
  BY WritersTyped DEF Restart, TypeInv, TypeOK
<1>4. lost' \subseteq Document
  <2>1. \A w \in Worker : req[w].todo \subseteq Document
    BY DEF TypeInv, TypeOK, Request
  <2>2. UNION {req[w].todo : w \in {x \in Worker : req[x].at = "fill" /\ req[x].live}}
          \subseteq Document
    BY <2>1
  <2>3. QED
    BY <2>2 DEF Restart, TypeInv, TypeOK
<1>5. QED
  BY <1>1, <1>2, <1>3, <1>4, FaultType, ModelsAssumption DEF Restart, TypeInv, TypeOK

LEMMA TypeStep == TypeInv /\ [Next]_vars => TypeInv'
<1> SUFFICES ASSUME TypeInv, [Next]_vars PROVE TypeInv'
  OBVIOUS
<1>1. ASSUME NEW w \in Worker, BeginSearch(w) \/ BeginImport(w) \/ BeginDelete(w)
      PROVE  TypeInv'
  BY <1>1, BeginTyped
<1>2. ASSUME NEW w \in Worker, Step(w) PROVE TypeInv'
  <2>1. ASSUME NEW d \in req[w].todo, Fill(w, d) PROVE TypeInv'
    BY <2>1, FillTyped
  <2>2. ASSUME NEW i \in Part, AddPart(w, i) PROVE TypeInv'
    BY <2>2, AddTyped
  <2>3. QED
    BY <1>2, <2>1, <2>2, MakeTyped, GetTyped, ImportTyped, CommitTyped, DeleteTyped,
       SearchTyped, EndTyped DEF Step
<1>3. ASSUME NEW w \in Worker, Fails(w) PROVE TypeInv'
  BY <1>3, EndTyped, ImportTyped, CommitTyped DEF Fails
<1>4. CASE UNCHANGED vars
  BY <1>4 DEF vars, TypeInv, TypeOK, RequestsOK, RequestOK
<1>5. QED
  BY <1>1, <1>2, <1>3, <1>4, ExpireTyped, ConfigTyped, RestartTyped DEF Next

(* The variables of the index, its pipelines and its requests keep their   *)
(* types, and a free slot is found for every pipeline.                     *)
THEOREM TypeCorrect == Spec => []TypeOK
<1>1. TypeInv => TypeOK
  BY DEF TypeInv
<1>2. QED
  BY <1>1, TypeInit, TypeStep, PTL DEF Spec

-----------------------------------------------------------------------------
(* Locks and fresh documents.                                               *)

(* A pipeline whose lock is free has no import at work, and two imports    *)
(* are never at work on one pipeline.                                      *)
LEMMA OneWriter ==
    ASSUME LocksHeld, TypeInv
    PROVE  /\ \A w, x \in Writing : req[w].pipe = req[x].pipe => w = x
           /\ \A w \in Writing, x \in Worker : Pipe(x).lock = None => req[w].pipe # req[x].pipe
  BY ModelsAssumption DEF LocksHeld, Pipe, Writing

(* Others do not move when one request does.                               *)
Alone(w) == \A x \in Worker \ {w} : req'[x] = req[x]

LEMMA AloneIs ==
    ASSUME TypeInv, NEW w \in Worker, NEW r, req' = [req EXCEPT ![w] = r]
    PROVE  Alone(w) /\ req'[w] = r
  BY DEF Alone, TypeInv, TypeOK

(* What the requests of a step must be for locks and documents to stay.    *)
Shrinks ==
    /\ Writing' \subseteq Writing /\ Deleting' \subseteq Deleting
    /\ \A x \in Writing' \union Deleting' :
         req'[x].doc = req[x].doc /\ req'[x].pipe = req[x].pipe
LocksStay == \A x \in Writing' : pipe'[req[x].pipe].lock = pipe[req[x].pipe].lock

LEMMA RequestsShrink ==
    ASSUME TypeInv, RequestInv, Shrinks, LocksStay
    PROVE  LocksHeld' /\ DeletesBesides'
<1>1. LocksHeld'
  BY DEF RequestInv, LocksHeld, Shrinks, LocksStay, Pipe
<1>2. DeletesBesides'
  BY DEF RequestInv, DeletesBesides, Shrinks
<1>3. QED
  BY <1>1, <1>2

(* Documents stay fresh when nobody hears of new ones ...                  *)
LEMMA FreshKept ==
    ASSUME FreshDocs, asked \in Nat, asked' \in {asked, asked + 1}, \A d \in Known : d.id \in Nat,
           \A w \in Starting : req[w].doc.id \in Nat,
           Known' \subseteq Known, Starting' \subseteq Starting,
           Starting' \union Writing' \subseteq Starting \union Writing,
           \A x \in Starting' \union Writing' : req'[x].doc = req[x].doc
    PROVE  FreshDocs'
<1>1. \A d \in Known' : d.id <= asked'
  BY DEF FreshDocs
<1>2. \A w \in Starting' : req'[w].doc.id <= asked' /\ req'[w].doc \notin Known'
  BY DEF FreshDocs
<1>3. \A w, x \in Starting' \union Writing' : w # x => req'[w].doc # req'[x].doc
  BY DEF FreshDocs
<1>4. QED
  BY <1>1, <1>2, <1>3 DEF FreshDocs

(* ... or only of the document of an import that starts to store it.       *)
LEMMA FreshUsed ==
    ASSUME FreshDocs, NEW w \in Starting, asked' = asked,
           Known' \subseteq Known \union {req[w].doc}, Starting' \subseteq Starting \ {w},
           Starting' \union Writing' \subseteq Starting \union Writing,
           \A x \in Starting' \union Writing' : req'[x].doc = req[x].doc
    PROVE  FreshDocs'
<1>1. \A d \in Known' : d.id <= asked'
  BY DEF FreshDocs
<1>2. \A x \in Starting' : req'[x].doc.id <= asked' /\ req'[x].doc \notin Known'
  BY DEF FreshDocs
<1>3. \A u, x \in Starting' \union Writing' : u # x => req'[u].doc # req'[x].doc
  BY DEF FreshDocs
<1>4. QED
  BY <1>1, <1>2, <1>3 DEF FreshDocs

LEMMA IdsTyped ==
    ASSUME TypeInv
    PROVE  /\ asked \in Nat /\ \A d \in Known : d.id \in Nat
           /\ \A w \in Starting : req[w].doc.id \in Nat
<1>1. \A d \in Document : d.id \in Nat
  BY BoundsAssumption DEF Document
<1>2. Known \subseteq Document /\ \A w \in Starting : req[w].doc \in Document
  BY DEF Known, Starting, Writing, Deleting, TypeInv, TypeOK, RequestsOK, RequestOK
<1>3. asked \in Nat
  BY BoundsAssumption DEF TypeInv, TypeOK
<1>4. QED
  BY <1>1, <1>2, <1>3

(* Steps of a request that stores or deletes nothing, before and after.    *)
Neither(r) == r.at \notin {"add", "commit", "vectors", "rows"}
Prepares(r) == r.kind = "import" /\ r.at \in {"make", "drop", "fill", "run"}

LEMMA NeitherKeeps ==
    ASSUME TypeInv, RequestInv, NEW w \in Worker, Alone(w),
           Neither(req[w]), Neither(req'[w]), LocksStay,
           asked' \in {asked, asked + 1},
           tx' \union rows' \subseteq tx \union rows,
           Prepares(req'[w]) => Prepares(req[w]) /\ req'[w].doc = req[w].doc
    PROVE  RequestInv'
<1>1. Writing' = Writing /\ Deleting' = Deleting
      /\ \A x \in Writing \union Deleting : req'[x] = req[x]
  BY DEF Neither, Writing, Deleting, Alone
<1>2. LocksHeld' /\ DeletesBesides'
  BY <1>1, RequestsShrink DEF Shrinks
<1>3. /\ Starting' \subseteq Starting
      /\ \A x \in Starting' \union Writing' : req'[x].doc = req[x].doc
  BY <1>1 DEF Starting, Prepares, Alone
<1>4. Known' \subseteq Known
  BY <1>1 DEF Known
<1>5. FreshDocs'
  BY <1>1, <1>3, <1>4, FreshKept, IdsTyped DEF RequestInv
<1>6. QED
  BY <1>2, <1>5 DEF RequestInv

(* A request begins as one that must make the pipeline or has it, or as a  *)
(* deletion; an import has a document nobody has.                          *)
LEMMA BeginShape ==
    ASSUME TypeInv, NEW w \in Worker, BeginSearch(w) \/ BeginImport(w) \/ BeginDelete(w)
    PROVE  \E r : /\ Begin(w, r) /\ r.at \in {"get", "make", "run"}
                 /\ \/ r.kind # "import"
                    \/ r.kind = "import" /\ r.doc.id = asked + 1
<1>1. \A k \in {"search", "import", "delete"} :
        Started(k).kind = k /\ Started(k).at \in {"make", "run"}
  BY DEF Started, Idle
<1>2. CASE BeginSearch(w)
  <2>1. PICK l \in Limit : Begin(w, [Started("search") EXCEPT !.limit = l])
    BY <1>2 DEF BeginSearch
  <2>2. [Started("search") EXCEPT !.limit = l].at \in {"make", "run"}
        /\ [Started("search") EXCEPT !.limit = l].kind # "import"
    BY <1>1 DEF Started, Idle
  <2>3. QED
    BY <2>1, <2>2
<1>3. CASE BeginImport(w)
  <2>1. PICK p \in Path :
          Begin(w, [Started("import") EXCEPT !.path = p, !.doc = [path |-> p, id |-> asked + 1]])
    BY <1>3 DEF BeginImport
  <2> DEFINE r == [Started("import") EXCEPT !.path = p, !.doc = [path |-> p, id |-> asked + 1]]
  <2>2. r.at \in {"make", "run"} /\ r.kind = "import" /\ r.doc.id = asked + 1
    BY <1>1 DEF Started, Idle
  <2>3. QED
    BY <2>1, <2>2
<1>4. CASE BeginDelete(w)
  <2>1. PICK p \in Path : Begin(w, [Idle EXCEPT !.kind = "delete", !.path = p, !.at = "get"])
    BY <1>4 DEF BeginDelete
  <2>2. [Idle EXCEPT !.kind = "delete", !.path = p, !.at = "get"].at = "get"
        /\ [Idle EXCEPT !.kind = "delete", !.path = p, !.at = "get"].kind = "delete"
    BY DEF Idle
  <2>3. QED
    BY <2>1, <2>2
<1>5. QED
  BY <1>2, <1>3, <1>4

LEMMA BeginRequests ==
    ASSUME TypeInv, RequestInv, NEW w \in Worker,
           BeginSearch(w) \/ BeginImport(w) \/ BeginDelete(w)
    PROVE  RequestInv'
<1>1. PICK r : Begin(w, r) /\ r.at \in {"get", "make", "run"}
          /\ \/ r.kind # "import"
             \/ r.kind = "import" /\ r.doc.id = asked + 1
  BY BeginShape
<1>2. /\ Alone(w) /\ req'[w] = r /\ req[w] = Idle /\ asked' = asked + 1
      /\ UNCHANGED <<tx, rows, pipe>>
  BY <1>1, AloneIs, RequestedType DEF Begin, TypeInv
<1>3. Writing' = Writing /\ Deleting' = Deleting
      /\ \A x \in Writing \union Deleting : req'[x] = req[x]
  BY <1>1, <1>2 DEF Writing, Deleting, Alone, Idle
<1>4. LocksHeld' /\ DeletesBesides'
  BY <1>2, <1>3, RequestsShrink DEF Shrinks, LocksStay
<1>5. Known' = Known
  BY <1>2, <1>3 DEF Known
<1>6. /\ Starting' \subseteq Starting \union {w} /\ w \notin Starting
      /\ \A x \in Starting : req'[x] = req[x]
      /\ w \in Starting' => req'[w].doc.id = asked + 1
  BY <1>1, <1>2 DEF Starting, Alone, Idle
<1>7. FreshDocs'
  <2>1. /\ asked \in Nat /\ \A d \in Known : d.id \in Nat /\ d.id <= asked
        /\ \A x \in Starting : req[x].doc.id \in Nat /\ req[x].doc.id <= asked
                               /\ req[x].doc \notin Known
        /\ \A u, x \in Starting \union Writing : u # x => req[u].doc # req[x].doc
    BY IdsTyped DEF RequestInv, FreshDocs
  <2>2. \A x \in Writing : req[x].doc \in Known
    BY DEF Known
  <2>3. \A d \in Known' : d.id <= asked'
    BY <1>2, <1>5, <2>1
  <2>4. ASSUME NEW x \in Starting'
        PROVE  req'[x].doc.id <= asked' /\ req'[x].doc \notin Known'
    <3>1. CASE x \in Starting
      BY <1>2, <1>5, <1>6, <2>1, <3>1
    <3>2. CASE x = w
      <4>1. req'[w].doc.id = asked + 1
        BY <1>6, <3>2
      <4>2. req'[w].doc \notin Known
        BY <2>1, <4>1
      <4>3. QED
        BY <1>2, <1>5, <3>2, <4>1, <4>2, <2>1
    <3>3. QED
      BY <1>6, <3>1, <3>2
  <2>5. ASSUME NEW u \in Starting' \union Writing', NEW x \in Starting' \union Writing',
               u # x, req'[u].doc = req'[x].doc
        PROVE  FALSE
    <3>1. ASSUME NEW y \in Starting' \union Writing', y # w
          PROVE  /\ y \in Starting \union Writing /\ req'[y].doc = req[y].doc
                 /\ req[y].doc.id <= asked /\ req[y].doc.id \in Nat
      <4>1. y \in Starting \union Writing
        BY <1>3, <1>6, <3>1
      <4>2. req'[y].doc = req[y].doc
        BY <1>3, <1>6, <4>1
      <4>3. QED
        BY <2>1, <2>2, <4>1, <4>2
    <3>2. w \notin Writing
      BY <1>2 DEF Writing, Idle
    <3>3. CASE u # w /\ x # w
      BY <2>1, <2>5, <3>1, <3>3
    <3>4. CASE u = w \/ x = w
      <4>1. w \in Starting'
        BY <1>3, <2>5, <3>2, <3>4
      <4>2. req'[w].doc.id = asked + 1
        BY <1>6, <4>1
      <4>3. PICK y \in Starting' \union Writing' : y # w /\ req'[y].doc = req'[w].doc
        BY <2>5, <3>4
      <4>4. req[y].doc.id <= asked /\ req[y].doc.id = asked + 1
        BY <3>1, <4>2, <4>3
      <4>5. QED
        BY <2>1, <4>4
    <3>5. QED
      BY <3>3, <3>4
  <2>6. QED
    BY <2>3, <2>4, <2>5 DEF FreshDocs
<1>8. QED
  BY <1>4, <1>7 DEF RequestInv

(* A new pipeline takes a slot that no import is at work on.               *)
LEMMA PublishKeepsLocks ==
    ASSUME TypeInv, NEW w \in Worker, req[w].at \in {"make", "fill"},
           NEW m, NEW live, Publish(w, m, live), Writing' \subseteq Writing
    PROVE  LocksStay
<1>1. req[w].pipe = 0
  BY DEF TypeInv, RequestsOK, RequestOK
<1>2. \A x \in Worker : req[x].pipe # FreeSlot
  BY <1>1, FreeSlotFree DEF TypeInv
<1>3. QED
  BY <1>2 DEF LocksStay, Publish, Writing, TypeInv, TypeOK

LEMMA NeitherRequests ==
    ASSUME TypeInv, RequestInv, NEW w \in Worker,
           \/ GetPipeline(w) \/ MakePipeline(w) \/ ReadForReembed(w) \/ FillEnd(w)
           \/ FillFails(w) \/ MakeFails(w) \/ ImportReject(w)
           \/ SearchHit(w) \/ SearchMiss(w) \/ SearchFails(w)
           \/ (DeleteFind(w) /\ Finish(w)) \/ \E d \in req[w].todo : Fill(w, d)
    PROVE  RequestInv'
<1>1. req \in [Worker -> Request] /\ req[w] \in Request
  BY DEF TypeInv, TypeOK
<1>2. UNCHANGED <<tx, rows, asked>>
  BY DEF GetPipeline, MakePipeline, ReadForReembed, FillEnd, FillFails, MakeFails,
     ImportReject, SearchHit, SearchMiss, SearchFails, DeleteFind, Fill
<1>3. Alone(w)
  BY <1>1 DEF Alone, GetPipeline, MakePipeline, ReadForReembed, FillEnd, FillFails, MakeFails,
     ImportReject, SearchHit, SearchMiss, SearchFails, Fill, Finish, Publish
<1>4. Neither(req[w])
  BY DEF Neither, GetPipeline, MakePipeline, ReadForReembed, FillEnd, FillFails, MakeFails,
     ImportReject, SearchHit, SearchMiss, SearchFails, DeleteFind, Fill
<1>5. /\ Neither(req'[w])
      /\ Prepares(req'[w]) => Prepares(req[w]) /\ req'[w].doc = req[w].doc
  <2>1. CASE Finish(w)
    BY <1>1, <2>1 DEF Finish, Idle, Neither, Prepares
  <2>2. CASE GetPipeline(w)
    <3>1. req[w].kind = "delete"
      BY <2>2 DEF GetPipeline, TypeInv, RequestsOK, RequestOK
    <3>2. req'[w].at \in {"make", "run"} /\ req'[w].kind = req[w].kind
      BY <1>1, <2>2 DEF GetPipeline, Started, Idle, Request
    <3>3. QED
      BY <3>1, <3>2 DEF Neither, Prepares
  <2>3. CASE MakePipeline(w) \/ FillEnd(w)
    <3>1. /\ req'[w].at = "run" /\ req[w].at \in {"make", "fill"}
          /\ req'[w].kind = req[w].kind /\ req'[w].doc = req[w].doc
      BY <1>1, <2>3 DEF MakePipeline, FillEnd, Publish, Request
    <3>2. QED
      BY <3>1 DEF Neither, Prepares
  <2>4. CASE ReadForReembed(w)
    <3>1. /\ req'[w].at = "drop" /\ req[w].at = "make"
          /\ req'[w].kind = req[w].kind /\ req'[w].doc = req[w].doc
      BY <1>1, <2>4 DEF ReadForReembed, Request
    <3>2. QED
      BY <3>1 DEF Neither, Prepares
  <2>5. ASSUME NEW d \in req[w].todo, Fill(w, d)
        PROVE  /\ Neither(req'[w])
               /\ Prepares(req'[w]) => Prepares(req[w]) /\ req'[w].doc = req[w].doc
    <3>1. /\ req'[w].at = "fill" /\ req[w].at = "fill"
          /\ req'[w].kind = req[w].kind /\ req'[w].doc = req[w].doc
      BY <1>1, <2>5 DEF Fill, Request
    <3>2. QED
      BY <3>1 DEF Neither, Prepares
  <2>6. QED
    BY <2>1, <2>2, <2>3, <2>4, <2>5 DEF FillFails, MakeFails,
       ImportReject, SearchHit, SearchMiss, SearchFails
<1>6. Writing' \subseteq Writing
  BY <1>3, <1>5 DEF Writing, Alone, Neither
<1>7. LocksStay
  <2>1. CASE MakePipeline(w) \/ FillEnd(w)
    BY <1>6, <2>1, PublishKeepsLocks DEF MakePipeline, FillEnd
  <2>2. CASE SearchMiss(w)
    <3>1. /\ pipe \in [Slot -> Pipeline]
          /\ \A x \in Writing' : req[x].pipe \in Slot
      BY <1>6, WritersTyped DEF TypeInv, TypeOK
    <3>2. \A i \in Slot : pipe'[i].lock = pipe[i].lock
      BY <2>2, <3>1 DEF SearchMiss, Pipeline
    <3>3. QED
      BY <3>1, <3>2 DEF LocksStay
  <2>3. CASE pipe' = pipe
    BY <2>3 DEF LocksStay
  <2>4. QED
    BY <2>1, <2>2, <2>3 DEF GetPipeline, ReadForReembed, FillFails, MakeFails,
       ImportReject, SearchHit, SearchFails, DeleteFind, Fill
<1>8. QED
  BY <1>2, <1>3, <1>4, <1>5, <1>7, NeitherKeeps

LEMMA ConfigRequests ==
    ASSUME TypeInv, RequestInv,
           (\E l \in Limit : Expire(l)) \/ (\E m \in Model : PutConfig(m)) \/ UNCHANGED vars
    PROVE  RequestInv'
<1>1. UNCHANGED <<req, tx, rows>> /\ asked' \in {asked, asked + 1}
  BY RequestedType DEF Expire, PutConfig, vars, TypeInv
<1>2. Writing' = Writing /\ Deleting' = Deleting /\ Starting' = Starting
  BY <1>1 DEF Writing, Deleting, Starting
<1>3. Known' = Known
  BY <1>1, <1>2 DEF Known
<1>4. LocksStay
  <2>1. /\ pipe \in [Slot -> Pipeline]
        /\ \A x \in Writing : req[x].pipe \in Slot
    BY WritersTyped DEF TypeInv, TypeOK
  <2>2. CASE \E l \in Limit : Expire(l)
    BY <1>2, <2>1, <2>2 DEF LocksStay, Expire, Pipeline
  <2>3. CASE \E m \in Model : PutConfig(m)
    BY <1>2, <2>1, <2>3 DEF LocksStay, PutConfig, Writing
  <2>4. CASE UNCHANGED vars
    BY <2>4 DEF LocksStay, vars
  <2>5. QED
    BY <2>2, <2>3, <2>4
<1>5. LocksHeld' /\ DeletesBesides'
  BY <1>1, <1>2, <1>4, RequestsShrink DEF Shrinks
<1>6. FreshDocs'
  BY <1>1, <1>2, <1>3, FreshKept, IdsTyped DEF RequestInv
<1>7. QED
  BY <1>5, <1>6 DEF RequestInv

LEMMA DropRequests ==
    ASSUME TypeInv, RequestInv, NEW w \in Worker, DropCollection(w) PROVE RequestInv'
<1>1. ASSUME NEW x \in Worker
      PROVE  /\ req'[x].at = req[x].at \/ (x = w /\ req[x].at = "drop" /\ req'[x].at = "fill")
             /\ req'[x].kind = req[x].kind /\ req'[x].doc = req[x].doc
             /\ req'[x].pipe = req[x].pipe
  <2>1. req[x] \in Request /\ req[w] \in Request
    BY DEF TypeInv, TypeOK
  <2>2. req'[x] = IF x = w THEN [req[w] EXCEPT !.at = "fill", !.live = TRUE]
                  ELSE [req[x] EXCEPT !.live = FALSE]
    BY DEF DropCollection
  <2>3. CASE x = w
    BY <2>1, <2>2, <2>3 DEF DropCollection, Request
  <2>4. CASE x # w
    BY <2>1, <2>2, <2>4 DEF Request
  <2>5. QED
    BY <2>3, <2>4
<1>2. Writing' = Writing /\ Deleting' = Deleting /\ Starting' = Starting
  BY <1>1 DEF Writing, Deleting, Starting
<1>3. UNCHANGED <<tx, rows, asked>>
  BY DEF DropCollection
<1>4. \A x \in Writing \union Deleting \union Starting :
         req'[x].doc = req[x].doc /\ req'[x].pipe = req[x].pipe
  BY <1>1 DEF Writing, Deleting, Starting
<1>5. Known' = Known
  BY <1>2, <1>3, <1>4 DEF Known
<1>6. LocksStay
  <2>1. \A i \in Slot : pipe'[i].lock = pipe[i].lock
    BY DEF DropCollection, TypeInv, TypeOK, Pipeline
  <2>2. QED
    BY <1>2, <2>1, WritersTyped DEF LocksStay
<1>7. LocksHeld' /\ DeletesBesides'
  BY <1>2, <1>4, <1>6, RequestsShrink DEF Shrinks
<1>8. FreshDocs'
  BY <1>2, <1>3, <1>4, <1>5, FreshKept, IdsTyped DEF RequestInv
<1>9. QED
  BY <1>7, <1>8 DEF RequestInv

(* An import takes the lock of its pipeline and makes its document known.  *)
LEMMA ImportRequests ==
    ASSUME TypeInv, RequestInv, NEW w \in Worker, ImportRows(w) PROVE RequestInv'
<1>1. /\ req[w] \in Request /\ req[w].pipe \in Slot /\ pipe \in [Slot -> Pipeline]
      /\ req[w].at = "run" /\ req[w].kind = "import"
      /\ Pipe(w).lock = None /\ pipe' = [pipe EXCEPT ![req[w].pipe].lock = w]
  BY DEF ImportRows, Acquire, TypeInv, TypeOK, RequestsOK, RequestOK
<1>2. /\ Alone(w)
      /\ req'[w].at = "add" /\ req'[w].doc = req[w].doc /\ req'[w].pipe = req[w].pipe
  <2> DEFINE o == IF Existing(w) = {} THEN None ELSE CHOOSE d \in Existing(w) : TRUE
             r == [req[w] EXCEPT !.at = "add", !.old = o]
  <2>1. req' = [req EXCEPT ![w] = r]
    BY DEF ImportRows
  <2>2. Alone(w) /\ req'[w] = r
    <3> HIDE DEF r
    <3>1. QED
      BY <2>1, AloneIs
  <2> HIDE DEF o
  <2>3. QED
    BY <1>1, <2>2 DEF Request
<1>3. /\ Writing' = Writing \union {w} /\ Deleting' = Deleting
      /\ Starting' = Starting \ {w} /\ w \in Starting /\ w \notin Writing /\ w \notin Deleting
      /\ \A x \in Worker \ {w} : req'[x] = req[x]
  BY <1>1, <1>2 DEF Alone, Writing, Deleting, Starting
<1>4. LocksHeld'
  <2>1. \A x \in Writing : req[x].pipe \in Slot /\ req[x].pipe # req[w].pipe /\ x # w
                           /\ pipe[req[x].pipe].lock = x
    BY <1>1, <1>3, OneWriter, WritersTyped DEF RequestInv, LocksHeld, Pipe
  <2>2. \A x \in Writing : pipe'[req[x].pipe].lock = x
    BY <1>1, <2>1
  <2>3. pipe'[req[w].pipe].lock = w
    BY <1>1 DEF Pipeline
  <2>4. QED
    BY <1>2, <1>3, <2>1, <2>2, <2>3 DEF LocksHeld, Pipe, Writing
<1>5. DeletesBesides'
  <2>1. \A x \in Deleting : req[x].doc # req[w].doc
    BY <1>3 DEF RequestInv, FreshDocs, Known
  <2>2. \A x \in Deleting : req'[x] = req[x] /\ x # w
    BY <1>3 DEF Deleting
  <2>3. \A x \in Writing : req'[x] = req[x]
    BY <1>3 DEF Writing
  <2>4. QED
    BY <1>2, <1>3, <2>1, <2>2, <2>3 DEF RequestInv, DeletesBesides
<1>6. FreshDocs'
  <2>1. tx' \subseteq tx \union {req[w].doc} /\ UNCHANGED <<rows, asked>>
    BY DEF ImportRows, Inserted
  <2>2. \A x \in Writing' \union Deleting' \union Starting' : req'[x].doc = req[x].doc
    BY <1>2, <1>3 DEF Writing, Deleting, Starting
  <2>3. Known' \subseteq Known \union {req[w].doc}
    BY <1>3, <2>1, <2>2 DEF Known
  <2>4. QED
    BY <1>3, <2>1, <2>2, <2>3, FreshUsed DEF RequestInv
<1>7. QED
  BY <1>4, <1>5, <1>6 DEF RequestInv

LEMMA ImportFailRequests ==
    ASSUME TypeInv, RequestInv, NEW w \in Worker, ImportRowsFail(w) PROVE RequestInv'
<1>1. /\ req[w].at = "run" /\ req[w].kind = "import"
      /\ tx' \subseteq tx \union {req[w].doc} /\ UNCHANGED <<rows, asked, pipe>>
      /\ Alone(w) /\ req'[w] = Idle
  BY AloneIs DEF ImportRowsFail, Inserted, Finish
<1>2. /\ Writing' = Writing /\ Deleting' = Deleting
      /\ Starting' = Starting \ {w} /\ w \in Starting
      /\ \A x \in Writing \union Deleting \union Starting' : req'[x] = req[x]
  BY <1>1 DEF Alone, Writing, Deleting, Starting, Idle
<1>3. LocksHeld' /\ DeletesBesides'
  BY <1>1, <1>2, RequestsShrink DEF Shrinks, LocksStay
<1>4. Known' \subseteq Known \union {req[w].doc}
  BY <1>1, <1>2 DEF Known
<1>5. FreshDocs'
  BY <1>1, <1>2, <1>4, FreshUsed DEF RequestInv
<1>6. QED
  BY <1>3, <1>5 DEF RequestInv

(* Steps after the rows, of an import or a deletion, take part in nothing  *)
(* that they did not before.                                               *)
LEMMA LaterRequests ==
    ASSUME TypeInv, RequestInv, NEW w \in Worker,
           \/ \E i \in Part : AddPart(w, i)
           \/ CommitImport(w) \/ ImportFails(w)
           \/ DeleteItsVectors(w) \/ DeleteRows(w) \/ DeleteRowsFail(w)
    PROVE  RequestInv'
<1>1. req[w] \in Request /\ pipe \in [Slot -> Pipeline]
  BY DEF TypeInv, TypeOK
<1>2. Alone(w)
  BY DEF Alone, AddPart, CommitImport, ImportFails, DeleteItsVectors, DeleteRows,
     DeleteRowsFail, Finish, Goto, TypeInv, TypeOK
<1>3. /\ req[w].at \in {"add", "commit", "vectors", "rows"}
      /\ \/ /\ req'[w].at \in {"add", "commit"} <=> req[w].at \in {"add", "commit"}
            /\ req'[w].at \in {"vectors", "rows"} <=> req[w].at \in {"vectors", "rows"}
            /\ req'[w].doc = req[w].doc /\ req'[w].pipe = req[w].pipe
         \/ req'[w] = Idle
  <2>1. ASSUME NEW i \in Part, AddPart(w, i)
        PROVE  /\ req'[w].at \in {"add", "commit"} /\ req[w].at = "add"
               /\ req'[w].doc = req[w].doc /\ req'[w].pipe = req[w].pipe
    BY <1>1, <2>1 DEF AddPart, Request, TypeInv, TypeOK
  <2>2. CASE DeleteItsVectors(w)
    <3>1. /\ req'[w].at = "rows" /\ req[w].at = "vectors"
          /\ req'[w].doc = req[w].doc /\ req'[w].pipe = req[w].pipe
      BY <1>1, <2>2 DEF DeleteItsVectors, Goto, Request, TypeInv, TypeOK
    <3>2. QED
      BY <3>1
  <2>3. CASE CommitImport(w) \/ ImportFails(w) \/ DeleteRows(w) \/ DeleteRowsFail(w)
    BY <2>3 DEF CommitImport, ImportFails, DeleteRows, DeleteRowsFail, Finish, Writing,
       TypeInv, TypeOK
  <2>4. QED
    BY <2>1, <2>2, <2>3
<1>4. Writing' \subseteq Writing /\ Deleting' \subseteq Deleting /\ Starting' \subseteq Starting
  BY <1>2, <1>3 DEF Alone, Writing, Deleting, Starting, Idle
<1>5. \A x \in Writing' \union Deleting' \union Starting' :
         req'[x].doc = req[x].doc /\ req'[x].pipe = req[x].pipe
  BY <1>2, <1>3 DEF Alone, Writing, Deleting, Starting, Idle
<1>6. tx' \union rows' \subseteq tx \union rows /\ asked' = asked
  BY DEF AddPart, CommitImport, ImportFails, DeleteItsVectors, DeleteRows, DeleteRowsFail
<1>7. LocksStay
  <2>1. ASSUME NEW i \in Part, AddPart(w, i) PROVE LocksStay
    <3>1. \A j \in Slot : pipe'[j].lock = pipe[j].lock
      BY <1>1, <2>1 DEF AddPart, Pipeline
    <3>2. QED
      BY <1>4, <3>1, WritersTyped DEF LocksStay
  <2>2. CASE CommitImport(w) \/ ImportFails(w)
    <3>1. w \in Writing /\ w \notin Writing'
      BY <2>2 DEF CommitImport, ImportFails, Finish, Writing, Idle, TypeInv, TypeOK
    <3>2. \A x \in Writing' : req[x].pipe \in Slot /\ req[x].pipe # req[w].pipe
      BY <1>4, <3>1, OneWriter, WritersTyped DEF RequestInv
    <3>3. pipe' = [pipe EXCEPT ![req[w].pipe].lock = None]
      BY <2>2 DEF CommitImport, ImportFails, Release
    <3>4. QED
      BY <1>1, <3>2, <3>3 DEF LocksStay
  <2>3. CASE pipe' = pipe
    BY <2>3 DEF LocksStay
  <2>4. QED
    BY <2>1, <2>2, <2>3 DEF DeleteItsVectors, DeleteRows, DeleteRowsFail
<1>8. LocksHeld' /\ DeletesBesides'
  BY <1>4, <1>5, <1>7, RequestsShrink DEF Shrinks
<1>9. FreshDocs'
  <2>1. Known' \subseteq Known
    BY <1>4, <1>5, <1>6 DEF Known
  <2>2. QED
    BY <1>4, <1>5, <1>6, <2>1, FreshKept, IdsTyped DEF RequestInv
<1>10. QED
  BY <1>8, <1>9 DEF RequestInv

(* A deletion finds its document while the lock of its pipeline is free.   *)
LEMMA FindRequests ==
    ASSUME TypeInv, RequestInv, NEW w \in Worker, DeleteFind(w), ~Finish(w)
    PROVE  RequestInv'
<1>1. /\ req[w] \in Request /\ req[w].at = "run" /\ req[w].kind = "delete"
      /\ Pipe(w).lock = None /\ UNCHANGED <<tx, rows, asked, pipe>>
  BY DEF DeleteFind, TypeInv, TypeOK
<1>2. PICK d \in tx : req' = [req EXCEPT ![w].at = "vectors", ![w].doc = d]
  BY DEF DeleteFind, FoundForDelete
<1>3. /\ Alone(w) /\ req'[w].at = "vectors" /\ req'[w].doc = d
      /\ req'[w].pipe = req[w].pipe /\ req'[w].kind = "delete"
  BY <1>1, <1>2 DEF Alone, Request, TypeInv, TypeOK
<1>4. /\ Writing' = Writing /\ Deleting' = Deleting \union {w} /\ Starting' = Starting
      /\ w \notin Writing /\ w \notin Starting
      /\ \A x \in Writing \union Starting \union (Deleting \ {w}) : req'[x] = req[x]
  BY <1>1, <1>3 DEF Alone, Writing, Deleting, Starting
<1>5. LocksHeld'
  BY <1>1, <1>4 DEF RequestInv, LocksHeld, Pipe
<1>6. DeletesBesides'
  <2>1. \A x \in Writing : req[x].pipe # req[w].pipe
    BY <1>1, OneWriter DEF RequestInv
  <2>2. QED
    BY <1>3, <1>4, <2>1 DEF RequestInv, DeletesBesides
<1>7. FreshDocs'
  <2>1. Known' \subseteq Known
    BY <1>1, <1>3, <1>4 DEF Known
  <2>2. QED
    BY <1>1, <1>4, <2>1, FreshKept, IdsTyped DEF RequestInv
<1>8. QED
  BY <1>5, <1>6, <1>7 DEF RequestInv

LEMMA RestartRequests == ASSUME TypeInv, RequestInv, Restart PROVE RequestInv'
<1>1. /\ req' = [x \in Worker |-> Idle] /\ tx' = rows /\ UNCHANGED <<rows, asked>>
  BY DEF Restart
<1>2. Writing' = {} /\ Deleting' = {} /\ Starting' = {}
  BY <1>1 DEF Writing, Deleting, Starting, Idle
<1>3. Known' \subseteq Known
  BY <1>1, <1>2 DEF Known
<1>4. FreshDocs'
  BY <1>1, <1>2, <1>3, FreshKept, IdsTyped DEF RequestInv
<1>5. QED
  BY <1>2, <1>4 DEF RequestInv, LocksHeld, DeletesBesides

LEMMA RequestStep == TypeInv /\ RequestInv /\ [Next]_vars => RequestInv'
<1> SUFFICES ASSUME TypeInv, RequestInv, [Next]_vars PROVE RequestInv'
  OBVIOUS
<1>1. ASSUME NEW w \in Worker, Step(w) PROVE RequestInv'
  BY <1>1, NeitherRequests, DropRequests, ImportRequests, LaterRequests, FindRequests
  DEF Step
<1>2. ASSUME NEW w \in Worker, Fails(w) PROVE RequestInv'
  BY <1>2, NeitherRequests, ImportFailRequests, LaterRequests DEF Fails
<1>3. QED
  BY <1>1, <1>2, BeginRequests, ConfigRequests, RestartRequests DEF Next

-----------------------------------------------------------------------------
(* Owners of vectors.                                                       *)

AtRows == {x \in Worker : req[x].at = "rows"}
DocsKept(S) == \A x \in S : req'[x].doc = req[x].doc

(* Nothing is added but to the excused documents.                          *)
LEMMA OwnersKept ==
    ASSUME OwnerInv, Writing' = Writing, AtRows' \subseteq AtRows, DocsKept(Writing \union AtRows'),
           UNCHANGED <<tx, rows>>, vectors' \subseteq vectors, stray \subseteq stray'
    PROVE  OwnerInv'
<1>1. \A d : NoneLeft(d) => NoneLeft(d)'
  BY DEF NoneLeft, VectorsOf, DocsKept
<1>2. WrittenStored'
  BY DEF OwnerInv, WrittenStored, DocsKept
<1>3. RemovedGone'
  BY <1>1 DEF OwnerInv, RemovedGone
<1>4. DeletedGone'
  BY <1>1 DEF OwnerInv, DeletedGone, AtRows, DocsKept
<1>5. VectorsOwned'
  BY DEF OwnerInv, VectorsOwned, DocsKept
<1>6. QED
  BY <1>2, <1>3, <1>4, <1>5 DEF OwnerInv

(* The steps that store, delete or make no vector of a document.           *)
Quiet(w) ==
    \/ BeginSearch(w) \/ BeginImport(w) \/ BeginDelete(w)
    \/ GetPipeline(w) \/ MakePipeline(w) \/ ReadForReembed(w) \/ FillEnd(w)
    \/ MakeFails(w) \/ ImportReject(w) \/ DeleteFind(w)
    \/ SearchHit(w) \/ SearchMiss(w) \/ SearchFails(w)

LEMMA QuietIs ==
    ASSUME TypeInv, NEW w \in Worker, Quiet(w)
    PROVE  /\ UNCHANGED <<tx, rows, vectors, lost, stray>> /\ Alone(w)
           /\ req[w].at \notin {"add", "commit", "rows"}
           /\ req'[w].at \notin {"add", "commit", "rows", "fill"}
           /\ req[w].at = "fill" => req[w].todo = {}
<1>1. req \in [Worker -> Request] /\ req[w] \in Request
  BY DEF TypeInv, TypeOK
<1>2. UNCHANGED <<tx, rows, vectors, lost, stray>> /\ Alone(w)
  BY <1>1 DEF Quiet, Alone, BeginSearch, BeginImport, BeginDelete, Begin, GetPipeline,
     MakePipeline, ReadForReembed, FillEnd, MakeFails, ImportReject, DeleteFind,
     SearchHit, SearchMiss, SearchFails, Finish, Publish
<1>3. /\ req[w].at \notin {"add", "commit", "rows"}
      /\ req[w].at = "fill" => req[w].todo = {}
  <2>1. CASE BeginSearch(w) \/ BeginImport(w) \/ BeginDelete(w)
    <3>1. req[w] = Idle
      BY <2>1, BeginShape DEF Begin
    <3>2. QED
      BY <3>1 DEF Idle
  <2>2. CASE ~(BeginSearch(w) \/ BeginImport(w) \/ BeginDelete(w))
    BY <2>2 DEF Quiet, GetPipeline, MakePipeline, ReadForReembed, FillEnd, MakeFails,
       ImportReject, DeleteFind, SearchHit, SearchMiss, SearchFails
  <2>3. QED
    BY <2>1, <2>2
<1>4. req'[w].at \notin {"add", "commit", "rows", "fill"}
  <2>1. CASE Finish(w)
    BY <1>1, <2>1 DEF Finish, Idle
  <2>2. CASE BeginSearch(w) \/ BeginImport(w) \/ BeginDelete(w)
    <3>1. PICK r : Begin(w, r) /\ r.at \in {"get", "make", "run"}
      BY <2>2, BeginShape
    <3>2. QED
      BY <1>1, <3>1 DEF Begin
  <2>3. CASE GetPipeline(w)
    BY <1>1, <2>3 DEF GetPipeline, Started, Idle, Request
  <2>4. CASE MakePipeline(w) \/ FillEnd(w)
    BY <1>1, <2>4 DEF MakePipeline, FillEnd, Publish, Request
  <2>5. CASE ReadForReembed(w)
    BY <1>1, <2>5 DEF ReadForReembed, Request
  <2>6. CASE DeleteFind(w) /\ ~Finish(w)
    BY <1>1, <2>6 DEF DeleteFind, Request
  <2>7. QED
    BY <2>1, <2>2, <2>3, <2>4, <2>5, <2>6 DEF Quiet, MakeFails, ImportReject,
       SearchHit, SearchMiss, SearchFails
<1>5. QED
  BY <1>2, <1>3, <1>4

LEMMA QuietViews ==
    ASSUME TypeInv, NEW w \in Worker, Quiet(w)
    PROVE  /\ Writing' = Writing /\ AtRows' = AtRows /\ w \notin Writing /\ w \notin AtRows
           /\ \A x \in Writing \union AtRows : req'[x] = req[x]
  BY QuietIs DEF Alone, Writing, AtRows

LEMMA QuietOwners == ASSUME TypeInv, OwnerInv, NEW w \in Worker, Quiet(w) PROVE OwnerInv'
  BY QuietIs, QuietViews, OwnersKept DEF DocsKept

LEMMA DropViews ==
    ASSUME TypeInv, NEW w \in Worker, DropCollection(w)
    PROVE  /\ Writing' = Writing /\ AtRows' = AtRows
           /\ \A x \in Writing : /\ req'[x].doc = req[x].doc /\ req'[x].old = req[x].old
                                 /\ req'[x].parts = req[x].parts /\ req'[x].at = req[x].at
           /\ DocsKept(Writing \union AtRows)
           /\ req'[w].at = "fill" /\ req'[w].live /\ req'[w].todo = req[w].todo
<1>1. req[w].at = "drop"
  BY DEF DropCollection
<1>2. req' = [x \in Worker |-> IF x = w THEN [req[w] EXCEPT !.at = "fill", !.live = TRUE]
                               ELSE [req[x] EXCEPT !.live = FALSE]]
  BY DEF DropCollection
<1>3. \A x \in Worker : req[x] \in Request
  BY DEF TypeInv, TypeOK
<1>4. req'[w].at = "fill" /\ req'[w].live /\ req'[w].todo = req[w].todo
  BY <1>2, <1>3 DEF Request
<1>5. \A x \in Worker : x # w =>
        /\ req'[x].doc = req[x].doc /\ req'[x].old = req[x].old
        /\ req'[x].parts = req[x].parts /\ req'[x].at = req[x].at
  BY <1>2, <1>3 DEF Request
<1>6. QED
  BY <1>1, <1>4, <1>5 DEF Writing, AtRows, DocsKept

LEMMA DropOwners ==
    ASSUME TypeInv, OwnerInv, NEW w \in Worker, DropCollection(w) PROVE OwnerInv'
<1>1. UNCHANGED <<tx, rows, stray>> /\ vectors' = {}
  BY DEF DropCollection
<1>2. QED
  BY <1>1, DropViews, OwnersKept

LEMMA FinishViews ==
    ASSUME TypeInv, NEW w \in Worker, Finish(w)
    PROVE  /\ Writing' = Writing \ {w} /\ AtRows' = AtRows \ {w}
           /\ \A x \in Worker \ {w} : req'[x] = req[x]
           /\ req'[w] = Idle
<1>1. \A x \in Worker : req'[x] = IF x = w THEN Idle ELSE req[x]
  BY DEF Finish, TypeInv, TypeOK
<1>2. req'[w] = Idle /\ Idle.at = "idle" /\ \A x \in Worker \ {w} : req'[x] = req[x]
  BY <1>1 DEF Idle
<1>3. \A x : x \in Writing' <=> x \in Writing \ {w}
  BY <1>2 DEF Writing
<1>4. \A x : x \in AtRows' <=> x \in AtRows \ {w}
  BY <1>2 DEF AtRows
<1>5. QED
  BY <1>2, <1>3, <1>4

LEMMA FailOwners ==
    ASSUME TypeInv, OwnerInv, NEW w \in Worker, FillFails(w) \/ DeleteRowsFail(w)
    PROVE  OwnerInv'
<1>1. UNCHANGED <<tx, rows, vectors, stray>> /\ Finish(w) /\ w \notin Writing
  BY DEF FillFails, DeleteRowsFail, Writing
<1>2. QED
  BY <1>1, FinishViews, OwnersKept DEF DocsKept, Writing, AtRows

LEMMA FillViews ==
    ASSUME TypeInv, NEW w \in Worker, NEW d \in req[w].todo, Fill(w, d)
    PROVE  /\ Writing' = Writing /\ AtRows' = AtRows /\ w \notin Writing /\ w \notin AtRows
           /\ \A x \in Worker \ {w} : req'[x] = req[x]
           /\ req[w].at = "fill" /\ req'[w].todo = req[w].todo \ {d}
           /\ req'[w].at = "fill" /\ req'[w].live = req[w].live
<1>1. req[w] \in Request /\ req[w].at = "fill" /\ req' = [req EXCEPT ![w].todo = @ \ {d}]
  BY DEF Fill, TypeInv, TypeOK
<1>2. /\ \A x \in Worker \ {w} : req'[x] = req[x]
      /\ req'[w].todo = req[w].todo \ {d}
      /\ req'[w].at = "fill" /\ req'[w].live = req[w].live
  BY <1>1 DEF Request, TypeInv, TypeOK
<1>3. QED
  BY <1>1, <1>2 DEF Writing, AtRows

LEMMA FillOwners ==
    ASSUME TypeInv, OwnerInv, NEW w \in Worker, NEW d \in req[w].todo, Fill(w, d)
    PROVE  OwnerInv'
<1>1. /\ Writing' = Writing /\ AtRows' = AtRows
      /\ \A x \in Writing \union AtRows : req'[x] = req[x]
  BY FillViews DEF Writing, AtRows
<1>2. /\ UNCHANGED <<tx, rows>> /\ stray \subseteq stray'
      /\ d \in stray' \/ (d \in tx /\ \A x \in AtRows : req[x].doc # d)
  BY DEF Fill, AtRows
<1>3. \A v \in vectors' : v \in vectors \/ v.doc = d
  BY DEF Fill, Embedded
<1>4. \A e : e # d /\ NoneLeft(e) => NoneLeft(e)'
  BY <1>1, <1>3 DEF NoneLeft, VectorsOf
<1>5. WrittenStored'
  BY <1>1, <1>2 DEF OwnerInv, WrittenStored
<1>6. RemovedGone'
  BY <1>2, <1>4 DEF OwnerInv, RemovedGone
<1>7. DeletedGone'
  BY <1>1, <1>2, <1>4 DEF OwnerInv, DeletedGone, AtRows
<1>8. VectorsOwned'
  BY <1>1, <1>2, <1>3 DEF OwnerInv, VectorsOwned
<1>9. QED
  BY <1>5, <1>6, <1>7, <1>8 DEF OwnerInv

(* What a removal of vectors leaves: the documents it was for are excused, *)
(* or have no vectors, nor an import on another pipeline.                  *)
Removed(w, D) ==
    /\ vectors' \subseteq vectors /\ stray \subseteq stray'
    /\ \A v \in vectors : v.doc \notin D => v \in vectors'
    /\ \A d \in D : d \in stray' \/ /\ \A v \in vectors' : v.doc # d
                                    /\ d \notin WrittenBesides(w)

LEMMA VectorsRemoved ==
    ASSUME NEW w \in Worker, NEW D, DeleteVectors(w, D)
    PROVE  Removed(w, D)
<1>1. PICK gone \in {TRUE, FALSE} :
         /\ vectors' = IF gone THEN vectors \ VectorsOf(D) ELSE vectors
         /\ stray' = stray \union (IF gone THEN D \intersect WrittenBesides(w) ELSE D)
  BY DEF DeleteVectors
<1>2. QED
  BY <1>1 DEF Removed, VectorsOf

LEMMA FailRemoved ==
    ASSUME NEW w \in Worker, ImportRowsFail(w)
    PROVE  Removed(w, Existing(w))
  BY DEF ImportRowsFail, Removed, VectorsOf

(* The documents that an import replaces have no other import at work.     *)
LEMMA ExistingGone ==
    ASSUME TypeInv, RequestInv, NEW w \in Worker, Pipe(w).lock = None,
           Removed(w, Existing(w)), NEW d \in Existing(w)
    PROVE  d \in stray' \/ (VectorsOf({d})' = {} /\ \A x \in Writing : req[x].doc # d)
<1>1. \A x \in Writing : req[x].pipe # req[w].pipe
  BY OneWriter DEF RequestInv
<1>2. QED
  BY <1>1 DEF Removed, VectorsOf, WrittenBesides

LEMMA ImportViews ==
    ASSUME TypeInv, RequestInv, NEW w \in Worker, ImportRows(w)
    PROVE  /\ Writing' = Writing \union {w} /\ AtRows' = AtRows /\ w \notin Writing
           /\ w \notin AtRows /\ \A x \in Worker \ {w} : req'[x] = req[x]
           /\ req'[w].doc = req[w].doc /\ req'[w].parts = {} /\ req'[w].at = "add"
           /\ req'[w].old = IF Existing(w) = {} THEN None
                            ELSE CHOOSE d \in Existing(w) : TRUE
           /\ req[w].doc \notin Known /\ Pipe(w).lock = None
<1>1. /\ req[w] \in Request /\ req[w].at = "run" /\ req[w].kind = "import"
      /\ req[w].parts = {} /\ Pipe(w).lock = None
  BY DEF ImportRows, Acquire, TypeInv, TypeOK, RequestsOK, RequestOK
<1> DEFINE o == IF Existing(w) = {} THEN None ELSE CHOOSE d \in Existing(w) : TRUE
           r == [req[w] EXCEPT !.at = "add", !.old = o]
<1>2. req' = [req EXCEPT ![w] = r]
  BY DEF ImportRows
<1>3. Alone(w) /\ req'[w] = r
  <2> HIDE DEF r
  <2>1. QED
    BY <1>2, AloneIs
<1>4. req[w].doc \notin Known
  BY <1>1 DEF RequestInv, FreshDocs, Starting
<1>5. /\ req'[w].doc = req[w].doc /\ req'[w].parts = {}
      /\ req'[w].at = "add" /\ req'[w].old = o
  <2> HIDE DEF o
  <2>1. QED
    BY <1>1, <1>3 DEF Request
<1> HIDE DEF r
<1>6. QED
  BY <1>1, <1>3, <1>4, <1>5 DEF Alone, Writing, AtRows

LEMMA ImportOwners ==
    ASSUME TypeInv, RequestInv, OwnerInv, NEW w \in Worker, ImportRows(w)
    PROVE  OwnerInv'
<1>1. /\ Writing' = Writing \union {w} /\ AtRows' = AtRows
      /\ \A x \in Writing \union AtRows : req'[x] = req[x]
      /\ req'[w].doc = req[w].doc /\ req[w].doc \notin Known /\ Pipe(w).lock = None
  BY ImportViews DEF Writing, AtRows
<1>2. /\ Removed(w, Existing(w)) /\ rows' = rows
      /\ tx' = (tx \ Existing(w)) \union {req[w].doc}
  BY VectorsRemoved DEF ImportRows, Inserted
<1>3. /\ vectors' \subseteq vectors /\ stray \subseteq stray'
      /\ \A d \in Existing(w) : d \in stray' \/ NoneLeft(d)'
      /\ \A d \in Existing(w) : d \in stray' \/ \A x \in Writing : req[x].doc # d
  <2>1. /\ vectors' \subseteq vectors /\ stray \subseteq stray'
    BY <1>2 DEF Removed
  <2>2. ASSUME NEW d \in Existing(w)
        PROVE  d \in stray' \/ (NoneLeft(d)' /\ \A x \in Writing : req[x].doc # d)
    <3>1. d \in stray' \/ (VectorsOf({d})' = {} /\ \A x \in Writing : req[x].doc # d)
      BY <1>1, <1>2, ExistingGone
    <3>2. d # req[w].doc
      BY <1>1 DEF Existing, Known
    <3>3. QED
      BY <1>1, <3>1, <3>2 DEF NoneLeft
  <2>3. QED
    BY <2>1, <2>2
<1>4. \A d : d # req[w].doc /\ NoneLeft(d) => NoneLeft(d)'
  BY <1>1, <1>3 DEF NoneLeft, VectorsOf
<1>5. WrittenStored'
  BY <1>1, <1>2, <1>3 DEF OwnerInv, WrittenStored
<1>6. RemovedGone'
  BY <1>1, <1>2, <1>3, <1>4 DEF OwnerInv, RemovedGone, Known
<1>7. DeletedGone'
  <2>1. \A x \in AtRows : req[x].doc # req[w].doc
    BY <1>1 DEF Known, AtRows, Deleting
  <2>2. QED
    BY <1>1, <1>3, <1>4, <2>1 DEF OwnerInv, DeletedGone, AtRows
<1>8. VectorsOwned'
  <2>1. ASSUME NEW v \in vectors'
        PROVE  v.doc \in tx' \union rows' \union stray' \union {req'[x].doc : x \in Writing'}
    <3>1. v.doc \in tx \union rows \union stray \union {req[x].doc : x \in Writing}
      BY <1>3, <2>1 DEF OwnerInv, VectorsOwned
    <3>2. v.doc \in Existing(w) => v.doc \in stray'
      BY <1>3, <2>1 DEF NoneLeft, VectorsOf
    <3>3. QED
      BY <1>1, <1>2, <1>3, <3>1, <3>2
  <2>2. QED
    BY <2>1 DEF VectorsOwned
<1>9. QED
  BY <1>5, <1>6, <1>7, <1>8 DEF OwnerInv

LEMMA ImportFailOwners ==
    ASSUME TypeInv, RequestInv, OwnerInv, NEW w \in Worker, ImportRowsFail(w)
    PROVE  OwnerInv'
<1>1. /\ Pipe(w).lock = None /\ Finish(w) /\ rows' = rows
      /\ tx \ Existing(w) \subseteq tx' /\ w \notin Writing /\ w \notin AtRows
  BY DEF ImportRowsFail, Writing, AtRows
<1>2. /\ Writing' = Writing /\ AtRows' = AtRows
      /\ \A x \in Writing \union AtRows : req'[x] = req[x]
  BY <1>1, FinishViews DEF Writing, AtRows
<1>3. /\ Removed(w, Existing(w))
      /\ vectors' \subseteq vectors /\ stray \subseteq stray'
  BY FailRemoved DEF Removed
<1>4. \A d : NoneLeft(d) => NoneLeft(d)'
  BY <1>2, <1>3 DEF NoneLeft, VectorsOf
<1>5. /\ \A d \in Existing(w) : d \in stray' \/ NoneLeft(d)'
      /\ \A d \in Existing(w) : d \in stray' \/ \A x \in Writing : req[x].doc # d
  <2>1. \A d \in Existing(w) :
           d \in stray' \/ (VectorsOf({d})' = {} /\ \A x \in Writing : req[x].doc # d)
    BY <1>1, <1>3, ExistingGone
  <2>2. QED
    BY <1>2, <2>1 DEF NoneLeft
<1>6. WrittenStored'
  BY <1>1, <1>2, <1>3, <1>5 DEF OwnerInv, WrittenStored
<1>7. RemovedGone'
  BY <1>1, <1>2, <1>3, <1>4, <1>5 DEF OwnerInv, RemovedGone
<1>8. DeletedGone'
  BY <1>2, <1>3, <1>4 DEF OwnerInv, DeletedGone, AtRows
<1>9. VectorsOwned'
  <2>1. ASSUME NEW v \in vectors'
        PROVE  v.doc \in tx' \union rows' \union stray' \union {req'[x].doc : x \in Writing'}
    <3>1. v.doc \in tx \union rows \union stray \union {req[x].doc : x \in Writing}
      BY <1>3, <2>1 DEF OwnerInv, VectorsOwned
    <3>2. v.doc \in Existing(w) => v.doc \in stray'
      BY <1>5, <2>1 DEF NoneLeft, VectorsOf
    <3>3. QED
      BY <1>1, <1>2, <1>3, <3>1, <3>2
  <2>2. QED
    BY <2>1 DEF VectorsOwned
<1>10. QED
  BY <1>6, <1>7, <1>8, <1>9 DEF OwnerInv

LEMMA AddViews ==
    ASSUME TypeInv, NEW w \in Worker, NEW i \in Part, AddPart(w, i)
    PROVE  /\ Writing' = Writing /\ AtRows' = AtRows /\ w \in Writing /\ w \notin AtRows
           /\ \A x \in Worker \ {w} : req'[x] = req[x]
           /\ req'[w].doc = req[w].doc /\ req'[w].old = req[w].old
           /\ req'[w].parts = req[w].parts \union {i}
           /\ req'[w].at \in {"add", "commit"} /\ req[w].at = "add"
<1>1. req[w] \in Request /\ req[w].at = "add"
  BY DEF AddPart, TypeInv, TypeOK
<1> DEFINE a == IF AllAdded(req[w].parts \union {i}) THEN "commit" ELSE "add"
           r == [req[w] EXCEPT !.parts = @ \union {i}, !.at = a]
<1>2. Alone(w) /\ req'[w] = r
  <2>1. req' = [req EXCEPT ![w] = r]
    BY DEF AddPart
  <2> HIDE DEF r
  <2>2. QED
    BY <2>1, AloneIs
<1>3. /\ req'[w].doc = req[w].doc /\ req'[w].old = req[w].old
      /\ req'[w].parts = req[w].parts \union {i} /\ req'[w].at \in {"add", "commit"}
  BY <1>1, <1>2 DEF Request
<1> HIDE DEF r
<1>4. QED
  BY <1>1, <1>2, <1>3 DEF Alone, Writing, AtRows

(* The document of an import is in the transaction or excused, so that no  *)
(* removed document gets vectors.                                          *)
LEMMA AddOwners ==
    ASSUME TypeInv, OwnerInv, NEW w \in Worker, NEW i \in Part, AddPart(w, i)
    PROVE  OwnerInv'
<1>1. /\ Writing' = Writing /\ AtRows' = AtRows /\ w \in Writing
      /\ \A x \in Writing \union AtRows : req'[x].doc = req[x].doc
  BY AddViews DEF Writing, AtRows
<1>2. UNCHANGED <<tx, rows, stray>>
      /\ \A v \in vectors' : v \in vectors \/ v.doc = req[w].doc
  BY DEF AddPart
<1>3. \A d : NoneLeft(d) => NoneLeft(d)'
  BY <1>1, <1>2 DEF NoneLeft, VectorsOf
<1>4. WrittenStored'
  BY <1>1, <1>2 DEF OwnerInv, WrittenStored
<1>5. RemovedGone'
  BY <1>2, <1>3 DEF OwnerInv, RemovedGone
<1>6. DeletedGone'
  BY <1>1, <1>2, <1>3 DEF OwnerInv, DeletedGone, AtRows
<1>7. VectorsOwned'
  BY <1>1, <1>2 DEF OwnerInv, VectorsOwned
<1>8. QED
  BY <1>4, <1>5, <1>6, <1>7 DEF OwnerInv

(* A commit makes permanent what the connection sees.                      *)
LEMMA CommitOwners ==
    ASSUME TypeInv, OwnerInv, NEW w \in Worker, CommitImport(w)
    PROVE  OwnerInv'
<1>1. /\ Finish(w) /\ w \in Writing /\ w \notin AtRows
      /\ rows' = tx /\ UNCHANGED <<tx, vectors, stray>>
  BY DEF CommitImport, Writing, AtRows
<1>2. /\ Writing' = Writing \ {w} /\ AtRows' = AtRows
      /\ \A x \in Writing' \union AtRows : req'[x] = req[x]
  BY <1>1, FinishViews DEF Writing, AtRows
<1>3. \A d : NoneLeft(d) => NoneLeft(d)'
  BY <1>1, <1>2 DEF NoneLeft, VectorsOf
<1>4. WrittenStored'
  BY <1>1, <1>2 DEF OwnerInv, WrittenStored
<1>5. RemovedGone'
  BY <1>1 DEF RemovedGone
<1>6. DeletedGone'
  BY <1>1, <1>2, <1>3 DEF OwnerInv, DeletedGone, AtRows
<1>7. VectorsOwned'
  <2>1. ASSUME NEW v \in vectors
        PROVE  v.doc \in tx \union stray \union {req'[x].doc : x \in Writing'}
    <3>1. v.doc \in tx \union rows \union stray \union {req[x].doc : x \in Writing}
      BY <2>1 DEF OwnerInv, VectorsOwned
    <3>2. v.doc \in rows \ tx => v.doc \in stray
      BY <2>1 DEF OwnerInv, RemovedGone, NoneLeft, VectorsOf
    <3>3. req[w].doc \in tx \union stray
      BY <1>1 DEF OwnerInv, WrittenStored
    <3>4. QED
      BY <1>2, <3>1, <3>2, <3>3
  <2>2. QED
    BY <1>1, <2>1 DEF VectorsOwned
<1>8. QED
  BY <1>4, <1>5, <1>6, <1>7 DEF OwnerInv

(* A rollback takes the rows of every import: they are excused, and the    *)
(* vectors of the one that failed are cleaned or excused.                  *)
LEMMA FailImportOwners ==
    ASSUME TypeInv, RequestInv, OwnerInv, NEW w \in Worker, ImportFails(w)
    PROVE  OwnerInv'
<1>1. /\ Finish(w) /\ w \in Writing /\ w \notin AtRows /\ tx' = rows /\ rows' = rows
  BY DEF ImportFails, Writing, AtRows
<1>2. /\ Writing' = Writing \ {w} /\ AtRows' = AtRows
      /\ \A x \in Writing' \union AtRows : req'[x] = req[x]
  BY <1>1, FinishViews DEF Writing, AtRows
<1>3. PICK cleaned \in {Pipe(w).live, FALSE} :
          /\ vectors' = IF cleaned THEN vectors \ Cleaned(w) ELSE vectors
          /\ stray' = stray \union RolledBack(w)
                           \union (IF cleaned THEN {} ELSE {req[w].doc})
  BY DEF ImportFails
<1>4. /\ vectors' \subseteq vectors /\ stray \subseteq stray'
      /\ RolledBack(w) \subseteq stray'
      /\ req[w].doc \in stray' \/ \A v \in vectors' : v.doc # req[w].doc
  BY <1>3 DEF Cleaned, VectorsOf
<1>5. \A x \in Writing' : req[x].doc \in stray'
  <2>1. \A x \in Writing' : req[x].pipe # req[w].pipe
    BY <1>1, <1>2, OneWriter DEF RequestInv
  <2>2. QED
    BY <1>2, <1>4, <2>1 DEF RolledBack, WrittenBesides
<1>6. \A d : NoneLeft(d) => NoneLeft(d)'
  BY <1>2, <1>4 DEF NoneLeft, VectorsOf
<1>7. WrittenStored'
  BY <1>2, <1>5 DEF WrittenStored
<1>8. RemovedGone'
  BY <1>1 DEF RemovedGone
<1>9. DeletedGone'
  BY <1>2, <1>4, <1>6 DEF OwnerInv, DeletedGone, AtRows
<1>10. VectorsOwned'
  <2>1. ASSUME NEW v \in vectors' PROVE v.doc \in rows \union stray'
    <3>1. v.doc \in tx \union rows \union stray \union {req[x].doc : x \in Writing}
      BY <1>4, <2>1 DEF OwnerInv, VectorsOwned
    <3>2. v.doc \in {req[x].doc : x \in Writing} => v.doc \in stray'
      BY <1>2, <1>4, <1>5, <2>1
    <3>3. v.doc \in tx \ rows => v.doc \in stray' \/ v.doc \in {req[x].doc : x \in Writing}
      BY <1>4 DEF RolledBack
    <3>4. QED
      BY <1>4, <3>1, <3>2, <3>3
  <2>2. QED
    BY <1>1, <2>1 DEF VectorsOwned
<1>11. QED
  BY <1>7, <1>8, <1>9, <1>10 DEF OwnerInv

LEMMA DeleteViews ==
    ASSUME TypeInv, NEW w \in Worker, DeleteItsVectors(w)
    PROVE  /\ Writing' = Writing /\ AtRows' = AtRows \union {w}
           /\ w \notin Writing /\ w \notin AtRows /\ w \in Deleting
           /\ \A x \in Worker \ {w} : req'[x] = req[x]
           /\ req'[w].doc = req[w].doc /\ req'[w].at = "rows"
<1>1. req[w].at = "vectors" /\ Alone(w) /\ req'[w] = [req[w] EXCEPT !.at = "rows"]
  BY DEF DeleteItsVectors, Goto, TypeInv, TypeOK, Alone
<1>2. req'[w].doc = req[w].doc /\ req'[w].at = "rows"
  BY <1>1 DEF TypeInv, TypeOK, Request
<1>3. QED
  BY <1>1, <1>2 DEF Alone, Writing, AtRows, Deleting

LEMMA DeleteOwners ==
    ASSUME TypeInv, RequestInv, OwnerInv, NEW w \in Worker, DeleteItsVectors(w)
    PROVE  OwnerInv'
<1>1. /\ Writing' = Writing /\ AtRows' = AtRows \union {w} /\ w \in Deleting
      /\ \A x \in Writing \union AtRows : req'[x] = req[x]
      /\ req'[w].doc = req[w].doc
  BY DeleteViews DEF Writing, AtRows
<1>2. Removed(w, {req[w].doc}) /\ UNCHANGED <<tx, rows>>
  BY VectorsRemoved DEF DeleteItsVectors
<1>3. vectors' \subseteq vectors /\ stray \subseteq stray'
  BY <1>2 DEF Removed
<1>4. \A d : NoneLeft(d) => NoneLeft(d)'
  BY <1>1, <1>3 DEF NoneLeft, VectorsOf
<1>5. req[w].doc \in stray' \/ NoneLeft(req[w].doc)'
  <2>1. req[w].doc \notin WrittenBesides(w) => \A x \in Writing : req[x].doc # req[w].doc
    BY <1>1 DEF WrittenBesides, RequestInv, DeletesBesides
  <2>2. QED
    BY <1>1, <1>2, <2>1 DEF Removed, NoneLeft, VectorsOf
<1>6. WrittenStored'
  BY <1>1, <1>2, <1>3 DEF OwnerInv, WrittenStored
<1>7. RemovedGone'
  BY <1>2, <1>3, <1>4 DEF OwnerInv, RemovedGone
<1>8. DeletedGone'
  BY <1>1, <1>3, <1>4, <1>5 DEF OwnerInv, DeletedGone, AtRows
<1>9. VectorsOwned'
  BY <1>1, <1>2, <1>3 DEF OwnerInv, VectorsOwned
<1>10. QED
  BY <1>6, <1>7, <1>8, <1>9 DEF OwnerInv

LEMMA DeleteRowsOwners ==
    ASSUME TypeInv, RequestInv, OwnerInv, NEW w \in Worker, DeleteRows(w)
    PROVE  OwnerInv'
<1>1. /\ Finish(w) /\ w \notin Writing /\ w \in AtRows /\ vectors' = vectors
      /\ tx' = tx \ {req[w].doc} /\ rows' = tx' /\ stray \subseteq stray'
  BY DEF DeleteRows, Writing, AtRows
<1>2. /\ Writing' = Writing /\ AtRows' \subseteq AtRows
      /\ \A x \in Writing \union AtRows' : req'[x] = req[x]
  BY <1>1, FinishViews DEF Writing, AtRows
<1>3. \A d : NoneLeft(d) => NoneLeft(d)'
  BY <1>1, <1>2 DEF NoneLeft, VectorsOf
<1>4. WrittenStored'
  <2>1. ASSUME NEW x \in Writing, req[x].doc = req[w].doc PROVE req[w].doc \in stray'
    <3>1. req[w].doc \in stray
      BY <1>1, <2>1 DEF OwnerInv, DeletedGone, NoneLeft, AtRows
    <3>2. QED
      BY <1>1, <3>1
  <2>2. QED
    BY <1>1, <1>2, <2>1 DEF OwnerInv, WrittenStored
<1>5. RemovedGone'
  BY <1>1 DEF RemovedGone
<1>6. DeletedGone'
  BY <1>1, <1>2, <1>3 DEF OwnerInv, DeletedGone, AtRows
<1>7. VectorsOwned'
  <2>1. ASSUME NEW v \in vectors
        PROVE  v.doc \in tx' \union stray' \union {req[x].doc : x \in Writing}
    <3>1. v.doc \in tx \union rows \union stray \union {req[x].doc : x \in Writing}
      BY <2>1 DEF OwnerInv, VectorsOwned
    <3>2. v.doc \in rows \ tx => v.doc \in stray
      BY <2>1 DEF OwnerInv, RemovedGone, NoneLeft, VectorsOf
    <3>3. v.doc = req[w].doc => v.doc \in stray
      BY <1>1, <2>1 DEF OwnerInv, DeletedGone, NoneLeft, VectorsOf, AtRows
    <3>4. QED
      BY <1>1, <3>1, <3>2, <3>3
  <2>2. QED
    BY <1>1, <1>2, <2>1 DEF VectorsOwned
<1>8. QED
  BY <1>4, <1>5, <1>6, <1>7 DEF OwnerInv

LEMMA RestartOwners == ASSUME OwnerInv, Restart PROVE OwnerInv'
<1>1. /\ tx' = rows /\ UNCHANGED <<rows, vectors>>
      /\ stray' = stray \union (tx \ rows) \union {req[w].doc : w \in Writing}
      /\ req' = [w \in Worker |-> Idle]
  BY DEF Restart
<1>2. Writing' = {} /\ AtRows' = {}
  BY <1>1 DEF Writing, AtRows, Idle
<1>3. VectorsOwned'
  BY <1>1 DEF OwnerInv, VectorsOwned
<1>4. QED
  BY <1>1, <1>2, <1>3 DEF OwnerInv, WrittenStored, RemovedGone, DeletedGone, AtRows

LEMMA ConfigOwners ==
    ASSUME OwnerInv,
           (\E l \in Limit : Expire(l)) \/ (\E m \in Model : PutConfig(m)) \/ UNCHANGED vars
    PROVE  OwnerInv'
<1>1. UNCHANGED <<req, tx, rows, vectors, stray>>
  BY DEF Expire, PutConfig, vars
<1>2. Writing' = Writing /\ AtRows' = AtRows
  BY <1>1 DEF Writing, AtRows
<1>3. QED
  BY <1>1, <1>2, OwnersKept DEF DocsKept

LEMMA OwnerStep == TypeInv /\ RequestInv /\ OwnerInv /\ [Next]_vars => OwnerInv'
<1> SUFFICES ASSUME TypeInv, RequestInv, OwnerInv, [Next]_vars PROVE OwnerInv'
  OBVIOUS
<1>1. ASSUME NEW w \in Worker, Step(w) PROVE OwnerInv'
  <2>1. ASSUME NEW d \in req[w].todo, Fill(w, d) PROVE OwnerInv'
    BY <2>1, FillOwners
  <2>2. ASSUME NEW i \in Part, AddPart(w, i) PROVE OwnerInv'
    BY <2>2, AddOwners
  <2>3. QED
    BY <1>1, <2>1, <2>2, QuietOwners, DropOwners, ImportOwners, CommitOwners, DeleteOwners,
       DeleteRowsOwners DEF Step, Quiet
<1>2. ASSUME NEW w \in Worker, Fails(w) PROVE OwnerInv'
  BY <1>2, FailOwners, QuietOwners, ImportFailOwners, FailImportOwners DEF Fails, Quiet
<1>3. ASSUME NEW w \in Worker, BeginSearch(w) \/ BeginImport(w) \/ BeginDelete(w)
      PROVE  OwnerInv'
  BY <1>3, QuietOwners DEF Quiet
<1>4. QED
  BY <1>1, <1>2, <1>3, ConfigOwners, RestartOwners DEF Next

-----------------------------------------------------------------------------
(* Searches.                                                                *)

LEMMA PartsKept ==
    ASSUME TypeInv', NEW d, \A v \in vectors : v.doc = d => v \in vectors'
    PROVE  PartsOf(d) \subseteq PartsOf(d)' /\ (Searchable(d) => Searchable(d)')
<1>1. PartsOf(d) \subseteq PartsOf(d)'
  BY DEF PartsOf, VectorsOf
<1>2. PartsOf(d)' \subseteq Part
  BY DEF PartsOf, VectorsOf, TypeInv, TypeOK, Vector
<1>3. QED
  BY <1>1, <1>2 DEF Searchable, PartsOf

LEMMA ExcusedKept ==
    ASSUME TypeInv', NEW w \in Worker, Alone(w), NEW d, Excused(d),
           \A v \in vectors : v.doc = d => v \in vectors',
           d \in lost => d \in lost', Redoing(w, d) => Redoing(w, d)' \/ d \in lost'
    PROVE  Excused(d)'
<1>1. \A x \in Worker : x # w /\ Redoing(x, d) => Redoing(x, d)'
  BY DEF Alone, Redoing
<1>2. QED
  BY <1>1, PartsKept DEF Excused

(* The steps that take no document out of the tables.                      *)
LEMMA SearchKept ==
    ASSUME SearchInv, Writing' = Writing, UNCHANGED <<tx, rows>>,
           \A x \in Writing : req'[x].doc = req[x].doc /\ req'[x].old = req[x].old,
           \A x \in Writing : req'[x].parts \subseteq req[x].parts \union PartsOf(req[x].doc)',
           \A d : Excused(d) => Excused(d)',
           \A d : PartsOf(d) \subseteq PartsOf(d)' \/ Excused(d)'
    PROVE  SearchInv'
<1>1. PresentSearchable'
  BY DEF SearchInv, PresentSearchable
<1>2. RemovedExcused'
  BY DEF SearchInv, RemovedExcused
<1>3. PartsMade'
  BY DEF SearchInv, PartsMade
<1>4. QED
  BY <1>1, <1>2, <1>3 DEF SearchInv, OnePerPath

LEMMA QuietSearch ==
    ASSUME TypeInv, TypeInv', SearchInv, NEW w \in Worker, Quiet(w) PROVE SearchInv'
<1>1. /\ UNCHANGED <<tx, rows, vectors, lost>> /\ Alone(w)
      /\ \A d : ~Redoing(w, d)
  BY QuietIs DEF Redoing
<1>2. Writing' = Writing /\ \A x \in Writing : req'[x] = req[x]
  BY QuietViews
<1>3. \A d : Excused(d) => Excused(d)'
  BY <1>1, ExcusedKept
<1>4. \A d : PartsOf(d) \subseteq PartsOf(d)'
  BY <1>1, PartsKept
<1>5. QED
  BY <1>1, <1>2, <1>3, <1>4, SearchKept

(* What the new collection does not get is lost.                           *)
LEMMA DropSearch ==
    ASSUME TypeInv, SearchInv, NEW w \in Worker, DropCollection(w) PROVE SearchInv'
<1>1. /\ UNCHANGED <<tx, rows>>
      /\ lost' = lost \union ((rows \union tx) \ req[w].todo) \union {req[x].doc : x \in Writing}
  BY DEF DropCollection
<1>2. /\ Writing' = Writing
      /\ \A x \in Writing : req'[x].doc = req[x].doc
      /\ \A d \in req[w].todo : Redoing(w, d)'
  BY DropViews DEF Redoing
<1>3. \A d \in rows \union tx : Excused(d)'
  BY <1>1, <1>2 DEF Excused
<1>4. \A x \in Writing' : Excused(req[x].doc)'
  <2>1. \A x \in Writing' : req'[x].doc \in lost'
    BY <1>1, <1>2
  <2>2. QED
    BY <2>1 DEF Excused
<1>5. PresentSearchable'
  BY <1>1, <1>3 DEF PresentSearchable
<1>6. RemovedExcused'
  BY <1>1, <1>3 DEF RemovedExcused
<1>7. PartsMade'
  BY <1>4 DEF PartsMade
<1>8. QED
  BY <1>1, <1>5, <1>6, <1>7 DEF SearchInv, OnePerPath

LEMMA FillSearch ==
    ASSUME TypeInv, TypeInv', SearchInv, NEW w \in Worker, NEW d \in req[w].todo, Fill(w, d)
    PROVE  SearchInv'
<1>1. /\ UNCHANGED <<tx, rows>> /\ lost' = lost \ {d}
      /\ vectors' = vectors \union Embedded({d}, req[w].model)
  BY DEF Fill
<1>2. /\ Writing' = Writing /\ \A x \in Writing : req'[x] = req[x]
      /\ Alone(w) /\ req[w].at = "fill" /\ req'[w].todo = req[w].todo \ {d}
      /\ req'[w].at = "fill" /\ req'[w].live = req[w].live
  BY FillViews DEF Alone, Writing
<1>3. Searchable(d)'
  <2>1. \A i \in Part : \E v \in vectors' : v.doc = d /\ v.part = i
    <3>1. \A i \in Part : [doc |-> d, part |-> i, model |-> req[w].model] \in vectors'
      BY <1>1 DEF Embedded
    <3>2. QED
      BY <3>1
  <2>2. \A v \in vectors' : v.part \in Part
    BY DEF TypeInv, TypeOK, Vector
  <2>3. QED
    BY <2>1, <2>2 DEF Searchable, VectorsOf
<1>4. ASSUME NEW e, Excused(e) PROVE Excused(e)'
  <2>1. CASE e = d
    BY <1>3, <2>1 DEF Excused
  <2>2. CASE e # d
    <3>1. Redoing(w, e) => Redoing(w, e)'
      BY <1>2, <2>2 DEF Redoing
    <3>2. QED
      BY <1>1, <1>2, <1>4, <2>2, <3>1, ExcusedKept
  <2>3. QED
    BY <2>1, <2>2
<1>5. \A e : PartsOf(e) \subseteq PartsOf(e)'
  BY <1>1, PartsKept
<1>6. QED
  BY <1>1, <1>2, <1>4, <1>5, SearchKept

(* A failure leaves what it did not do to the lost documents.              *)
LEMMA FailSearch ==
    ASSUME TypeInv, TypeInv', SearchInv, NEW w \in Worker, FillFails(w) \/ DeleteRowsFail(w)
    PROVE  SearchInv'
<1>1. /\ UNCHANGED <<tx, rows, vectors>> /\ lost \subseteq lost' /\ Finish(w)
      /\ w \notin Writing /\ \A d : Redoing(w, d) => d \in lost'
  BY DEF FillFails, DeleteRowsFail, Writing, Redoing
<1>2. /\ Writing' = Writing /\ \A x \in Writing : req'[x] = req[x]
      /\ Alone(w)
  BY <1>1, FinishViews DEF Alone, Writing
<1>3. \A d : Excused(d) => Excused(d)'
  BY <1>1, <1>2, ExcusedKept
<1>4. \A d : PartsOf(d) \subseteq PartsOf(d)'
  BY <1>1, PartsKept
<1>5. QED
  BY <1>1, <1>2, <1>3, <1>4, SearchKept

LEMMA AddSearch ==
    ASSUME TypeInv, TypeInv', SearchInv, NEW w \in Worker, NEW i \in Part, AddPart(w, i)
    PROVE  SearchInv'
<1>1. /\ Writing' = Writing /\ w \in Writing /\ Alone(w) /\ \A d : ~Redoing(w, d)
      /\ \A x \in Writing : req'[x].doc = req[x].doc /\ req'[x].old = req[x].old
      /\ \A x \in Writing : req'[x].parts \subseteq req[x].parts
                            \/ (x = w /\ req'[x].parts = req[x].parts \union {i})
  <2>1. /\ Writing' = Writing /\ w \in Writing /\ req[w].at = "add"
        /\ req'[w].doc = req[w].doc /\ req'[w].old = req[w].old
        /\ req'[w].parts = req[w].parts \union {i}
        /\ \A x \in Worker \ {w} : req'[x] = req[x]
    BY AddViews
  <2>2. \A d : ~Redoing(w, d)
    BY <2>1 DEF Redoing
  <2>3. \A x \in Writing : x \in Worker
    BY DEF Writing
  <2>4. QED
    BY <2>1, <2>2, <2>3 DEF Alone
<1>2. /\ UNCHANGED <<tx, rows, lost>>
      /\ vectors' = vectors \union
           {[doc |-> req[w].doc, part |-> i, model |-> ModelOf(Pipe(w))]}
  BY DEF AddPart
<1>3. \A d : Excused(d) => Excused(d)'
  BY <1>1, <1>2, ExcusedKept
<1>4. \A d : PartsOf(d) \subseteq PartsOf(d)'
  BY <1>2, PartsKept
<1>5. i \in PartsOf(req[w].doc)'
  <2> DEFINE v == [doc |-> req[w].doc, part |-> i, model |-> ModelOf(Pipe(w))]
  <2>1. v \in vectors' /\ v.doc = req[w].doc /\ v.part = i
    BY <1>2
  <2> HIDE DEF v
  <2>2. QED
    BY <1>1, <2>1 DEF PartsOf, VectorsOf
<1>6. \A x \in Writing : req'[x].parts \subseteq req[x].parts \union PartsOf(req[x].doc)'
  BY <1>1, <1>5
<1>7. QED
  BY <1>1, <1>2, <1>3, <1>4, <1>6, SearchKept

(* An import takes the documents of its path out of the transaction: there *)
(* is one at most, which the request remembers.                            *)
LEMMA OnePathKept ==
    ASSUME TypeInv, OnePerPath(tx), NEW w \in Worker, req[w].at = "run", req[w].kind = "import",
           NEW new \in {{}, Inserted(w)}, tx' = (tx \ Existing(w)) \union new
    PROVE  OnePerPath(tx)'
<1>1. req[w].doc.path = req[w].path
  BY DEF TypeInv, RequestsOK, RequestOK
<1>2. \A d \in new : d.path = req[w].path
  BY <1>1 DEF Inserted
<1>3. \A d \in tx \ Existing(w) : d.path # req[w].path
  BY DEF Existing
<1>4. \A d, e \in new : d = e
  BY DEF Inserted
<1>5. QED
  BY <1>2, <1>3, <1>4 DEF OnePerPath

LEMMA ImportSearch ==
    ASSUME TypeInv, TypeInv', RequestInv, SearchInv, NEW w \in Worker, ImportRows(w)
    PROVE  SearchInv'
<1>1. /\ Writing' = Writing \union {w} /\ \A x \in Writing : req'[x] = req[x]
      /\ req[w].doc \notin Known /\ req'[w].doc = req[w].doc /\ req'[w].parts = {}
      /\ req'[w].old = IF Existing(w) = {} THEN None ELSE CHOOSE d \in Existing(w) : TRUE
      /\ Alone(w)
  BY ImportViews DEF Alone, Writing
<1>2. /\ rows' = rows /\ lost' = lost /\ tx' = (tx \ Existing(w)) \union Inserted(w)
      /\ Removed(w, Existing(w)) /\ req[w].at = "run" /\ req[w].kind = "import"
  BY VectorsRemoved DEF ImportRows
<1>3. \A d : ~Redoing(w, d)
  BY <1>2 DEF Redoing
<1>4. \A d : d \notin Existing(w) => \A v \in vectors : v.doc = d => v \in vectors'
  BY <1>2 DEF Removed
<1>5. \A d : d \notin Existing(w) /\ Excused(d) => Excused(d)'
  BY <1>1, <1>2, <1>3, <1>4, ExcusedKept
<1>6. \A d : d \notin Existing(w) => PartsOf(d) \subseteq PartsOf(d)'
  BY <1>4, PartsKept
<1>7. \A d \in Existing(w) : req'[w].old = d
  <2>1. \A d, e \in Existing(w) : d = e
    BY DEF Existing, SearchInv, OnePerPath
  <2>2. QED
    BY <1>1, <2>1
<1>8. OnePerPath(tx)'
  BY <1>2, OnePathKept DEF SearchInv
<1>9. PresentSearchable'
  BY <1>1, <1>2, <1>5 DEF SearchInv, PresentSearchable, Inserted
<1>10. RemovedExcused'
  BY <1>1, <1>2, <1>5, <1>7 DEF SearchInv, RemovedExcused, Known
<1>11. PartsMade'
  <2>1. \A x \in Writing : req[x].doc # req[w].doc
    BY <1>1 DEF Known
  <2>2. \A x \in Writing : req[x].doc \in tx' =>
           req[x].doc \in tx /\ req[x].doc \notin Existing(w)
    BY <1>2, <2>1 DEF Inserted
  <2>3. \A x \in Writing : req[x].doc \in tx' =>
           Excused(req[x].doc)' \/ req'[x].parts \subseteq PartsOf(req[x].doc)'
    BY <1>1, <1>5, <1>6, <2>2 DEF SearchInv, PartsMade
  <2>4. QED
    BY <1>1, <2>3 DEF PartsMade
<1>12. QED
  BY <1>2, <1>8, <1>9, <1>10, <1>11 DEF SearchInv, OnePerPath

LEMMA ImportFailSearch ==
    ASSUME TypeInv, TypeInv', RequestInv, SearchInv, NEW w \in Worker, ImportRowsFail(w)
    PROVE  SearchInv'
<1>1. /\ Finish(w) /\ rows' = rows /\ w \notin Writing
      /\ req[w].at = "run" /\ req[w].kind = "import" /\ Removed(w, Existing(w))
  BY FailRemoved DEF ImportRowsFail, Writing
<1>2. PICK new \in {{}, Inserted(w)} :
         /\ tx' = (tx \ Existing(w)) \union new
         /\ lost' = lost \union Existing(w) \union new
  BY DEF ImportRowsFail
<1>3. /\ Writing' = Writing /\ \A x \in Writing : req'[x] = req[x]
      /\ Alone(w) /\ \A d : ~Redoing(w, d)
  BY <1>1, FinishViews DEF Alone, Writing, Redoing
<1>4. \A d : d \notin Existing(w) => \A v \in vectors : v.doc = d => v \in vectors'
  BY <1>1 DEF Removed
<1>5. \A d : Excused(d) => Excused(d)'
  <2>1. \A d \in Existing(w) : Excused(d)'
    BY <1>2 DEF Excused
  <2>2. \A d : d \notin Existing(w) /\ Excused(d) => Excused(d)'
    BY <1>2, <1>3, <1>4, ExcusedKept
  <2>3. QED
    BY <2>1, <2>2
<1>6. \A d : d \in Existing(w) \union new => Excused(d)'
  BY <1>2 DEF Excused
<1>7. \A d : d \notin Existing(w) => PartsOf(d) \subseteq PartsOf(d)'
  BY <1>4, PartsKept
<1>8. OnePerPath(tx)'
  BY <1>1, <1>2, OnePathKept DEF SearchInv
<1>9. PresentSearchable'
  BY <1>2, <1>3, <1>5, <1>6 DEF SearchInv, PresentSearchable
<1>10. RemovedExcused'
  BY <1>1, <1>2, <1>3, <1>5, <1>6 DEF SearchInv, RemovedExcused
<1>11. PartsMade'
  BY <1>2, <1>3, <1>5, <1>6, <1>7 DEF SearchInv, PartsMade
<1>12. QED
  BY <1>1, <1>8, <1>9, <1>10, <1>11 DEF SearchInv, OnePerPath

(* An import that commits has made the vectors of all parts.               *)
LEMMA CommitSearch ==
    ASSUME TypeInv, TypeInv', SearchInv, NEW w \in Worker, CommitImport(w)
    PROVE  SearchInv'
<1>1. /\ rows' = tx /\ UNCHANGED <<tx, vectors, lost>> /\ Finish(w)
      /\ w \in Writing /\ req[w].at = "commit" /\ req[w].parts = Part
  BY DEF CommitImport, Writing, TypeInv, RequestsOK, RequestOK
<1>2. /\ Writing' = Writing \ {w} /\ \A x \in Writing' : req'[x] = req[x]
      /\ Alone(w) /\ \A d : ~Redoing(w, d)
  BY <1>1, FinishViews DEF Alone, Writing, Redoing
<1>3. \A d : Excused(d) => Excused(d)'
  BY <1>1, <1>2, ExcusedKept
<1>4. \A d : PartsOf(d) \subseteq PartsOf(d)'
  BY <1>1, PartsKept
<1>5. req[w].doc \in tx => Excused(req[w].doc)
  <2>1. ASSUME Part \subseteq PartsOf(req[w].doc) PROVE Searchable(req[w].doc)
    <3>1. \A v \in vectors : v.part \in Part
      BY DEF TypeInv, TypeOK, Vector
    <3>2. QED
      BY <2>1, <3>1 DEF Searchable, PartsOf, VectorsOf
  <2>2. QED
    BY <1>1, <2>1 DEF SearchInv, PartsMade, Excused
<1>6. PresentSearchable'
  BY <1>1, <1>2, <1>3, <1>5 DEF SearchInv, PresentSearchable
<1>7. RemovedExcused'
  BY <1>1 DEF RemovedExcused
<1>8. PartsMade'
  BY <1>1, <1>2, <1>3, <1>4 DEF SearchInv, PartsMade
<1>9. QED
  BY <1>1, <1>6, <1>7, <1>8 DEF SearchInv, OnePerPath

(* The rows a rollback brings back are lost, and no other import has the   *)
(* document whose vectors are cleaned.                                     *)
LEMMA FailImportSearch ==
    ASSUME TypeInv, TypeInv', RequestInv, SearchInv, NEW w \in Worker, ImportFails(w)
    PROVE  SearchInv'
<1>1. /\ tx' = rows /\ rows' = rows /\ Finish(w) /\ w \in Writing
      /\ lost' = lost \union (rows \ tx) \union (rows \intersect {req[w].doc})
      /\ \A v \in vectors : v.doc # req[w].doc => v \in vectors'
  BY DEF ImportFails, Cleaned, VectorsOf
<1>2. /\ Writing' = Writing \ {w} /\ \A x \in Writing' : req'[x] = req[x]
      /\ Alone(w) /\ \A d : ~Redoing(w, d)
  BY <1>1, FinishViews DEF Alone, Writing, Redoing
<1>3. \A d : d # req[w].doc /\ Excused(d) => Excused(d)'
  BY <1>1, <1>2, ExcusedKept
<1>4. \A d : d # req[w].doc => PartsOf(d) \subseteq PartsOf(d)'
  BY <1>1, PartsKept
<1>5. \A d \in rows : d \notin tx \/ d = req[w].doc => Excused(d)'
  BY <1>1 DEF Excused
<1>6. PresentSearchable'
  BY <1>1, <1>2, <1>3, <1>5 DEF SearchInv, PresentSearchable
<1>7. RemovedExcused'
  BY <1>1 DEF RemovedExcused
<1>8. PartsMade'
  <2>1. \A x \in Writing' : x \in Writing /\ req[x].doc # req[w].doc
    BY <1>1, <1>2 DEF RequestInv, FreshDocs
  <2>2. \A x \in Writing' : req[x].doc \in rows =>
           Excused(req[x].doc)' \/ req'[x].parts \subseteq PartsOf(req[x].doc)'
    BY <1>2, <1>3, <1>4, <1>5, <2>1 DEF SearchInv, PartsMade
  <2>3. QED
    BY <1>1, <1>2, <2>2 DEF PartsMade
<1>9. QED
  BY <1>1, <1>6, <1>7, <1>8 DEF SearchInv, OnePerPath

LEMMA DeleteSearch ==
    ASSUME TypeInv, TypeInv', SearchInv, NEW w \in Worker, DeleteItsVectors(w)
    PROVE  SearchInv'
<1>1. /\ Writing' = Writing /\ \A x \in Writing : req'[x] = req[x] /\ Alone(w)
      /\ req[w].at = "vectors" /\ req'[w].doc = req[w].doc /\ req'[w].at = "rows"
  BY DeleteViews DEF Alone, Writing, DeleteItsVectors
<1>2. UNCHANGED <<tx, rows, lost>> /\ Removed(w, {req[w].doc})
  BY VectorsRemoved DEF DeleteItsVectors
<1>3. Excused(req[w].doc)'
  BY <1>1 DEF Excused, Redoing
<1>4. \A d : d # req[w].doc /\ Excused(d) => Excused(d)'
  <2>1. \A d : ~Redoing(w, d)
    BY <1>1 DEF Redoing
  <2>2. Alone(w)
    BY DeleteViews DEF Alone
  <2>3. QED
    BY <1>2, <2>1, <2>2, ExcusedKept DEF Removed
<1>5. \A d : d # req[w].doc => PartsOf(d) \subseteq PartsOf(d)'
  BY <1>2, PartsKept DEF Removed
<1>6. \A d : d = req[w].doc => Excused(d)'
  BY <1>1, <1>3
<1>7. QED
  BY <1>1, <1>2, <1>4, <1>5, <1>6, SearchKept

LEMMA DeleteRowsSearch ==
    ASSUME TypeInv, TypeInv', SearchInv, NEW w \in Worker, DeleteRows(w)
    PROVE  SearchInv'
<1>1. /\ tx' = tx \ {req[w].doc} /\ rows' = tx' /\ UNCHANGED <<vectors, lost>>
      /\ Finish(w) /\ w \notin Writing /\ req[w].at = "rows"
  BY DEF DeleteRows, Writing
<1>2. /\ Writing' = Writing /\ \A x \in Writing : req'[x] = req[x]
      /\ Alone(w) /\ \A d : d # req[w].doc => ~Redoing(w, d)
  BY <1>1, FinishViews DEF Alone, Writing, Redoing
<1>3. \A d : d # req[w].doc /\ Excused(d) => Excused(d)'
  BY <1>1, <1>2, ExcusedKept
<1>4. \A d : PartsOf(d) \subseteq PartsOf(d)'
  BY <1>1, PartsKept
<1>5. PresentSearchable'
  BY <1>1, <1>2, <1>3 DEF SearchInv, PresentSearchable
<1>6. RemovedExcused'
  BY <1>1 DEF RemovedExcused
<1>7. PartsMade'
  BY <1>1, <1>2, <1>3, <1>4 DEF SearchInv, PartsMade
<1>8. QED
  BY <1>1, <1>5, <1>6, <1>7 DEF SearchInv, OnePerPath

LEMMA RestartSearch ==
    ASSUME TypeInv, TypeInv', SearchInv, Restart PROVE SearchInv'
<1>1. /\ tx' = rows /\ UNCHANGED <<rows, vectors>> /\ req' = [w \in Worker |-> Idle]
      /\ rows \ tx \subseteq lost' /\ lost \subseteq lost'
  BY DEF Restart
<1>2. Writing' = {}
  BY <1>1 DEF Writing, Idle
<1>3. ASSUME NEW d \in rows, NEW x \in Worker, Redoing(x, d) \/ (x \in Writing /\ req[x].doc = d)
      PROVE  d \in lost'
  <2>1. CASE req[x].at \in {"add", "commit", "rows"} /\ req[x].doc = d
    BY <2>1 DEF Restart
  <2>2. CASE req[x].at = "fill" /\ req[x].live /\ d \in req[x].todo
    BY <2>2 DEF Restart
  <2>3. QED
    BY <1>3, <2>1, <2>2 DEF Redoing, Writing
<1>4. \A d : Searchable(d) => Searchable(d)'
  BY <1>1 DEF Searchable, VectorsOf
<1>5. \A d \in rows : Excused(d)'
  <2>1. ASSUME NEW d \in rows PROVE d \in lost' \/ Searchable(d)'
    <3>1. CASE d \notin tx
      BY <1>1, <3>1
    <3>2. CASE d \in tx
      <4>1. Excused(d) \/ \E w \in Writing : req[w].doc = d
        BY <3>2 DEF SearchInv, PresentSearchable
      <4>2. \A w \in Writing : w \in Worker
        BY DEF Writing
      <4>3. QED
        BY <1>1, <1>3, <1>4, <4>1, <4>2 DEF Excused
    <3>3. QED
      BY <3>1, <3>2
  <2>2. QED
    BY <2>1 DEF Excused
<1>6. PresentSearchable' /\ RemovedExcused' /\ PartsMade'
  BY <1>1, <1>2, <1>5 DEF PresentSearchable, RemovedExcused, PartsMade
<1>7. QED
  BY <1>1, <1>6 DEF SearchInv, OnePerPath

LEMMA ConfigSearch ==
    ASSUME TypeInv', SearchInv,
           (\E l \in Limit : Expire(l)) \/ (\E m \in Model : PutConfig(m)) \/ UNCHANGED vars
    PROVE  SearchInv'
<1>1. UNCHANGED <<req, tx, rows, vectors, lost>>
  BY DEF Expire, PutConfig, vars
<1>2. Writing' = Writing
  BY <1>1 DEF Writing
<1>3. \A d : Excused(d) => Excused(d)'
  BY <1>1 DEF Excused, Searchable, VectorsOf, Redoing
<1>4. \A d : PartsOf(d) \subseteq PartsOf(d)'
  BY <1>1, PartsKept
<1>5. QED
  BY <1>1, <1>2, <1>3, <1>4, SearchKept

LEMMA SearchStep ==
    TypeInv /\ TypeInv' /\ RequestInv /\ SearchInv /\ [Next]_vars => SearchInv'
<1> SUFFICES ASSUME TypeInv, TypeInv', RequestInv, SearchInv, [Next]_vars PROVE SearchInv'
  OBVIOUS
<1>1. ASSUME NEW w \in Worker, Step(w) PROVE SearchInv'
  <2>1. ASSUME NEW d \in req[w].todo, Fill(w, d) PROVE SearchInv'
    BY <2>1, FillSearch
  <2>2. ASSUME NEW i \in Part, AddPart(w, i) PROVE SearchInv'
    BY <2>2, AddSearch
  <2>3. QED
    BY <1>1, <2>1, <2>2, QuietSearch, DropSearch, ImportSearch, CommitSearch, DeleteSearch,
       DeleteRowsSearch DEF Step, Quiet
<1>2. ASSUME NEW w \in Worker, Fails(w) PROVE SearchInv'
  BY <1>2, FailSearch, QuietSearch, ImportFailSearch, FailImportSearch DEF Fails, Quiet
<1>3. ASSUME NEW w \in Worker, BeginSearch(w) \/ BeginImport(w) \/ BeginDelete(w)
      PROVE  SearchInv'
  BY <1>3, QuietSearch DEF Quiet
<1>4. QED
  BY <1>1, <1>2, <1>3, ConfigSearch, RestartSearch DEF Next

-----------------------------------------------------------------------------
(* What the index promises.                                                 *)

IndexInv == TypeInv /\ RequestInv /\ OwnerInv /\ SearchInv

LEMMA IndexInit == Init => IndexInv
<1> SUFFICES ASSUME Init PROVE IndexInv
  OBVIOUS
<1>1. TypeInv
  BY TypeInit
<1>2. /\ tx = rows /\ vectors = Embedded(rows, label) /\ req = [w \in Worker |-> Idle]
      /\ asked = 0
  BY DEF Init
<1>3. \A d, e \in rows : d = e /\ d.id = 0
  BY DEF Init
<1>4. Writing = {} /\ Deleting = {} /\ Starting = {} /\ \A x \in Worker : req[x].at = "idle"
  BY <1>2 DEF Writing, Deleting, Starting, Idle
<1>5. RequestInv
  <2>1. \A d \in Known : d.id <= asked
    BY <1>2, <1>3, <1>4 DEF Known
  <2>2. QED
    BY <1>4, <2>1 DEF RequestInv, LocksHeld, FreshDocs, DeletesBesides
<1>6. OwnerInv
  <2>1. VectorsOwned
    BY <1>2 DEF VectorsOwned, Embedded
  <2>2. QED
    BY <1>2, <1>4, <2>1 DEF OwnerInv, WrittenStored, RemovedGone, DeletedGone
<1>7. SearchInv
  <2>1. ASSUME NEW d \in rows PROVE Searchable(d)
    <3>1. \A i \in Part : \E v \in vectors : v.doc = d /\ v.part = i
      <4>1. \A i \in Part : [doc |-> d, part |-> i, model |-> label] \in vectors
        BY <1>2 DEF Embedded
      <4>2. QED
        BY <4>1
    <3>2. \A v \in vectors : v.part \in Part
      BY <1>2 DEF Embedded
    <3>3. QED
      BY <3>1, <3>2 DEF Searchable, VectorsOf
  <2>2. PresentSearchable
    BY <1>2, <2>1 DEF PresentSearchable, Excused
  <2>3. QED
    BY <1>2, <1>3, <1>4, <2>2 DEF SearchInv, OnePerPath, RemovedExcused, PartsMade
<1>8. QED
  BY <1>1, <1>5, <1>6, <1>7 DEF IndexInv

LEMMA IndexStep == IndexInv /\ [Next]_vars => IndexInv'
  BY TypeStep, RequestStep, OwnerStep, SearchStep DEF IndexInv

LEMMA ListedSearchable == IndexInv => DocumentsSearchable
<1> SUFFICES ASSUME IndexInv, NEW d \in rows
             PROVE  Searchable(d) \/ d \in lost \/ Busy(d)
  BY DEF DocumentsSearchable
<1>1. Excused(d) => Searchable(d) \/ d \in lost \/ Busy(d)
  BY DEF Excused, Redoing, Busy
<1>2. \A w \in Writing : req[w].doc = d \/ req[w].old = d => Busy(d)
  BY DEF Busy, Writing
<1>3. CASE d \in tx
  BY <1>1, <1>2, <1>3 DEF IndexInv, SearchInv, PresentSearchable
<1>4. CASE d \notin tx
  BY <1>1, <1>2, <1>4 DEF IndexInv, SearchInv, RemovedExcused
<1>5. QED
  BY <1>3, <1>4

(* The collection and the table tell of the same documents: each that is   *)
(* listed has a vector for each of its chunks, and each vector has its     *)
(* document, but for the documents in `lost' and `stray', however many     *)
(* requests and pipelines there are.                                       *)
THEOREM IndexKept == Spec => []IndexMatchesRows
<1>1. IndexInv => IndexMatchesRows
  BY ListedSearchable DEF IndexMatchesRows, IndexInv, OwnerInv
<1>2. QED
  BY <1>1, IndexInit, IndexStep, PTL DEF Spec

(* An import that answers with success has its rows in the table, however  *)
(* the commits and rollbacks of others on the one connection fall, but for *)
(* those that a request on another pipeline took away.                     *)
THEOREM ImportsStored == Spec => ImportedIsStored
<1>1. IndexInv /\ [Next]_vars
        => [\A w \in Worker : CommitImport(w) => req[w].doc \in rows' \union stray]_vars
  <2> SUFFICES ASSUME IndexInv, NEW w \in Worker, CommitImport(w)
               PROVE  req[w].doc \in rows' \union stray
    OBVIOUS
  <2>1. w \in Writing /\ rows' = tx
    BY DEF CommitImport, Writing
  <2>2. QED
    BY <2>1 DEF IndexInv, OwnerInv, WrittenStored
<1>2. QED
  BY <1>1, IndexInit, IndexStep, PTL DEF Spec, ImportedIsStored

=============================================================================
