----------------------- MODULE WorkflowDocumentsProofs -----------------------
(***************************************************************************)
(* Proofs about WorkflowDocuments, for every number of sessions, documents *)
(* and runs, and for every series of releases.                             *)
(***************************************************************************)
EXTENDS WorkflowDocuments, TLAPS

\* An open transaction with its local variables.
RequestRow == [op : {"none", "create", "update", "delete", "run"},
               pc : {"idle", "write", "reindex", "refused", "commit"},
               id : Document \cup Run \cup {None},
               document : Document \cup {None},
               version : Version \cup {None},
               place : Place \cup {None},
               graph : Graph \cup {None}]

\* Documents only ever hold graphs that were validated.
ValidRow == [place : Place, graph : Valid]

Typed ==
    /\ history \in [Slug -> Seq(Valid \ {Empty})]
    /\ documents \in [Document -> ValidRow \cup {Absent, Deleted}]
    /\ runs \in [Run -> RunRow \cup {Absent}]
    /\ req \in [Request -> RequestRow]

\* A version that exists, and still will after any roll-out.
Published(v) == v \in Version /\ v[2] \in 1..Len(history[v[1]])

\* What an open transaction has read or checked, and may still rely on.
Creating(p) == /\ req[p].id \in Document /\ documents[req[p].id] = Absent
               /\ req[p].document = None
               /\ req[p].place \in Place /\ req[p].graph \in Valid
               /\ req[p].pc \in {"write", "commit"}

Updating(p) == /\ req[p].document \in Document /\ req[p].id = None
               /\ req[p].graph \in Valid \cup {None}
               /\ req[p].pc \in {"write", "reindex", "commit"}
               /\ req[p].pc # "write" => Live(req[p].document)
               /\ req[p].pc = "reindex" => req[p].place \in Place

Deleting(p) == /\ req[p].document \in Document /\ req[p].id = None
               /\ req[p].pc \in {"write", "refused", "commit"}
               /\ req[p].pc = "commit" =>
                     Live(req[p].document) /\ RunsOf(req[p].document) = {}

Starting(p) == /\ req[p].id \in Run /\ runs[req[p].id] = Absent
               /\ req[p].graph \in Valid \ {Empty}
               /\ req[p].pc \in {"write", "commit"}
               /\ \/ /\ req[p].document = None
                     /\ Published(req[p].version)
                     /\ req[p].graph = VersionGraph(req[p].version)
                  \/ /\ req[p].version = None
                     /\ req[p].document \in Document
                     /\ req[p].pc = "commit" => Live(req[p].document)

RequestSound(p) ==
    /\ Op(p, {"none"}) => req[p] = NoRequest
    /\ Op(p, {"create"}) => Creating(p)
    /\ Op(p, {"update"}) => Updating(p)
    /\ Op(p, {"delete"}) => Deleting(p)
    /\ Op(p, {"run"}) => Starting(p)

RequestsSound == \A p \in Request : RequestSound(p)

\* Two transactions never draw one id, lock one document, or delete a document
\* and start a run of it.
Apart(p, o) ==
    /\ req[p].id # None => req[p].id # req[o].id
    /\ \A d \in Document : ~(Writing(p, d) /\ Writing(o, d))
    /\ \A d \in Document : ~(Writing(p, d) /\ Op(p, {"delete"}) /\ KeySharing(o, d))

Exclusive == \A p, o \in Request : p # o => Apart(p, o)

\* A transaction with an entry in the unique index for the place of its row.
Placing(p) == Op(p, {"create", "update"}) /\ At(p, "commit")

PlaceReserved(p) ==
    /\ \A d \in Document \ {req[p].document} :
          Live(d) => documents[d].place # NewRow(p).place
    /\ \A o \in Request \ {p} : Placing(o) => NewRow(o).place # NewRow(p).place

PlacesReserved == \A p \in Request : Placing(p) => PlaceReserved(p)

Committed == UniquePlaces /\ RunsRooted /\ RunsExecuteTheirNodes

IInv == Typed /\ RequestsSound /\ Exclusive /\ PlacesReserved /\ Committed

-----------------------------------------------------------------------------
\* A row is no mark for a missing row.
LEMMA RowIsNoMark == ValidRow \cap {Absent, Deleted} = {}
<1>1. ValidRow \subseteq DocumentRow
  BY DocumentAssumptions DEF ValidRow, DocumentRow
<1>2. QED
  BY <1>1, DocumentAssumptions

\* A live document has a row.
LEMMA LiveIsRow ==
  ASSUME Typed, NEW d \in Document
  PROVE  Live(d) <=> documents[d] \in ValidRow
BY RowIsNoMark DEF Typed, Live

\* A step of one transaction that commits nothing keeps the invariant if what it
\* leaves of that transaction fits: the others rely on committed rows only.
LEMMA SetReqInv ==
  ASSUME IInv, NEW p \in Request, NEW q \in RequestRow, SetReq(p, q),
         RequestSound(p)',
         \A o \in Request \ {p} : Apart(p, o)' /\ Apart(o, p)',
         Placing(p)' => PlaceReserved(p)'
  PROVE  IInv'
<1> USE DEF SetReq
<1>1. /\ req' = [req EXCEPT ![p] = q]
      /\ UNCHANGED <<history, documents, runs>>
  OBVIOUS
<1>2. Typed'
  BY <1>1 DEF IInv, Typed
<1>3. \A o \in Request \ {p} : req'[o] = req[o]
  BY DEF IInv, Typed
<1>4. RequestsSound'
  <2>1. ASSUME NEW o \in Request, o # p  PROVE RequestSound(o)'
    BY <1>1, <1>3, <2>1 DEF IInv, RequestsSound, RequestSound, Op, Creating, Updating, Deleting,
       Starting, Live, RunsOf, Published, VersionGraph
  <2>2. QED
    BY <2>1 DEF RequestsSound
<1>5. Exclusive'
  <2>1. ASSUME NEW o \in Request, NEW u \in Request, o # u, o # p, u # p  PROVE Apart(o, u)'
    BY <1>1, <1>3, <2>1 DEF IInv, Exclusive, Apart, Writing, KeySharing, Op, At
  <2>2. QED
    BY <2>1 DEF Exclusive
<1>6. PlacesReserved'
  <2>1. ASSUME NEW o \in Request, o # p
        PROVE  /\ Placing(o)' <=> Placing(o)
               /\ NewRow(o)' = NewRow(o)
    BY <1>1, <1>3, <2>1 DEF Placing, NewRow, Op, At
  <2>2. ASSUME NEW o \in Request, o # p, Placing(o)'  PROVE PlaceReserved(o)'
    BY <1>1, <1>3, <2>1, <2>2 DEF IInv, PlacesReserved, PlaceReserved, Live
  <2>3. QED
    BY <2>2 DEF PlacesReserved
<1>7. Committed'
  BY <1>1 DEF IInv, Committed, UniquePlaces, RunsRooted, RunsExecuteTheirNodes, Live, RunGraph,
     VersionGraph
<1>8. QED
  BY <1>2, <1>4, <1>5, <1>6, <1>7 DEF IInv

\* A transaction may be over at any time.
LEMMA EndInv == ASSUME IInv, NEW p \in Request, End(p)  PROVE IInv'
<1>1. NoRequest \in RequestRow
  BY DEF NoRequest, RequestRow
<1>2. SetReq(p, NoRequest) /\ req'[p] = NoRequest
  BY DEF End, SetReq, IInv, Typed
<1>3. RequestSound(p)' /\ ~Placing(p)'
  BY <1>2 DEF RequestSound, Placing, Op, At, NoRequest
<1>4. ASSUME NEW o \in Request, o # p  PROVE Apart(p, o)' /\ Apart(o, p)'
  BY <1>2, <1>4 DEF Apart, Writing, KeySharing, Op, At, NoRequest
<1>5. QED
  BY <1>1, <1>2, <1>3, <1>4, SetReqInv

-----------------------------------------------------------------------------
(* Requests arrive.                                                        *)

\* A transaction that has only just begun holds no lock and reserves no place.
LEMMA BeginInv ==
  ASSUME IInv, NEW p \in Request, NEW q \in RequestRow, Begin(p, q), q.pc = "write",
         RequestSound(p)',
         q.id # None => \A o \in Request : req[o].id # q.id
  PROVE  IInv'
<1>1. SetReq(p, q) /\ req'[p] = q /\ \A o \in Request \ {p} : req'[o] = req[o]
  BY DEF Begin, SetReq, IInv, Typed
<1>2. ~Placing(p)'
  BY <1>1 DEF Placing, At
<1>3. ASSUME NEW o \in Request, o # p  PROVE Apart(p, o)' /\ Apart(o, p)'
  BY <1>1, <1>3 DEF Apart, Writing, KeySharing, Op, At
<1>4. QED
  BY <1>1, <1>2, <1>3, SetReqInv

LEMMA CreateInv ==
  ASSUME IInv, NEW p \in Request, NEW place \in Place, NEW graph \in Valid,
         Create(p, place, graph)
  PROVE  IInv'
<1>1. PICK d \in FreshDocuments : Begin(p, [NoRequest EXCEPT !.op = "create", !.pc = "write",
                                            !.id = d, !.place = place, !.graph = graph])
  BY DEF Create
<1> DEFINE q == [NoRequest EXCEPT !.op = "create", !.pc = "write",
                                  !.id = d, !.place = place, !.graph = graph]
<1>2. d \in Document /\ documents[d] = Absent /\ \A o \in Request : req[o].id # d
  BY <1>1 DEF FreshDocuments
<1>3. q \in RequestRow
  BY <1>2, DocumentAssumptions DEF NoRequest, RequestRow
<1>4. req'[p] = q /\ documents' = documents
  BY <1>1 DEF Begin, SetReq, IInv, Typed
<1>5. RequestSound(p)'
  BY <1>2, <1>4 DEF RequestSound, Creating, Op, NoRequest
<1>6. q.pc = "write" /\ q.id = d
  BY DEF NoRequest
<1> HIDE DEF q
<1>7. QED
  BY <1>1, <1>2, <1>3, <1>5, <1>6, BeginInv DEF q

LEMMA StartRunInv ==
  ASSUME IInv, NEW p \in Request, NEW version \in Version \cup {None},
         NEW d \in Document \cup {None}, NEW graph \in Valid \ {Empty},
         \/ d = None /\ Published(version) /\ graph = VersionGraph(version)
         \/ version = None /\ d \in Document,
         StartRun(p, version, d, graph)
  PROVE  IInv'
<1>1. PICK r \in FreshRuns : Begin(p, [NoRequest EXCEPT !.op = "run", !.pc = "write", !.id = r,
                                       !.version = version, !.document = d, !.graph = graph])
  BY DEF StartRun
<1> DEFINE q == [NoRequest EXCEPT !.op = "run", !.pc = "write", !.id = r,
                                  !.version = version, !.document = d, !.graph = graph]
<1>2. r \in Run /\ runs[r] = Absent /\ \A o \in Request : req[o].id # r
  BY <1>1 DEF FreshRuns
<1>3. q \in RequestRow
  BY <1>2, DocumentAssumptions DEF NoRequest, RequestRow
<1>4. req'[p] = q /\ UNCHANGED <<runs, history>>
  BY <1>1 DEF Begin, SetReq, IInv, Typed
<1>5. RequestSound(p)'
  <2>1. q.op = "run" /\ q.pc = "write" /\ q.id = r /\ q.version = version /\ q.document = d
        /\ q.graph = graph
    BY DEF NoRequest
  <2> HIDE DEF q
  <2>2. QED
    BY <1>2, <1>4, <2>1 DEF RequestSound, Starting, Op, Published, VersionGraph
<1>6. q.pc = "write" /\ q.id = r
  BY DEF NoRequest
<1> HIDE DEF q
<1>7. QED
  BY <1>1, <1>2, <1>3, <1>5, <1>6, BeginInv DEF q

\* The active version of a template on offer is published, and its graph runs.
LEMMA OfferedIsPublished ==
  ASSUME Typed, NEW slug \in Slug, Offered(slug)
  PROVE  /\ ActiveVersion(slug) \in Version
         /\ Published(ActiveVersion(slug))
         /\ VersionGraph(ActiveVersion(slug)) \in Valid \ {Empty}
<1>1. history[slug] \in Seq(Valid \ {Empty}) /\ history[slug] # <<>>
  BY DEF Typed, Offered
<1>2. Len(history[slug]) \in Nat \ {0}
  BY <1>1
<1>3. QED
  BY <1>1, <1>2 DEF ActiveVersion, Published, VersionGraph, Version

LEMMA ArriveInv == ASSUME IInv, NEW p \in Request, Arrive(p)  PROVE IInv'
<1> USE DEF IInv
<1>1. ASSUME NEW place \in Place, CreateBlankDocument(p, place)  PROVE IInv'
  BY <1>1, CreateInv, DocumentAssumptions DEF CreateBlankDocument
<1>2. ASSUME NEW place \in Place, NEW slug \in Slug, CreateDocumentFromTemplate(p, place, slug)
      PROVE  IInv'
  <2>1. Offered(slug) /\ Create(p, place, VersionGraph(ActiveVersion(slug)))
    BY <1>2 DEF CreateDocumentFromTemplate
  <2>2. VersionGraph(ActiveVersion(slug)) \in Valid
    BY <2>1, OfferedIsPublished
  <2> HIDE DEF IInv
  <2>3. QED
    BY <2>1, <2>2, CreateInv
<1>3. ASSUME NEW d \in Document, NEW patch \in Patches, UpdateDocument(p, d, patch[1], patch[2])
      PROVE  IInv'
  <2> DEFINE q == [NoRequest EXCEPT !.op = "update", !.pc = "write", !.document = d,
                                    !.place = patch[1], !.graph = patch[2]]
  <2>1. Begin(p, q) /\ patch[2] \in Valid \cup {None}
    BY <1>3 DEF UpdateDocument
  <2>2. patch[1] \in Place \cup {None}
    BY DocumentAssumptions
  <2>3. q \in RequestRow
    BY <2>1, <2>2, DocumentAssumptions DEF NoRequest, RequestRow
  <2>4. q.op = "update" /\ q.pc = "write" /\ q.id = None /\ q.document = d /\ q.graph = patch[2]
    BY DEF NoRequest
  <2> HIDE DEF q
  <2>5. req'[p] = q
    BY <2>1 DEF Begin, SetReq, Typed
  <2>6. RequestSound(p)'
    BY <2>1, <2>4, <2>5 DEF RequestSound, Updating, Op
  <2> HIDE DEF IInv
  <2>7. QED
    BY <2>1, <2>3, <2>4, <2>6, BeginInv
<1>4. ASSUME NEW d \in Document, DeleteDocument(p, d)  PROVE IInv'
  <2> DEFINE q == [NoRequest EXCEPT !.op = "delete", !.pc = "write", !.document = d]
  <2>1. Begin(p, q)
    BY <1>4 DEF DeleteDocument
  <2>2. q \in RequestRow
    BY DEF NoRequest, RequestRow
  <2>3. q.op = "delete" /\ q.pc = "write" /\ q.id = None /\ q.document = d
    BY DEF NoRequest
  <2> HIDE DEF q
  <2>4. req'[p] = q
    BY <2>1 DEF Begin, SetReq, Typed
  <2>5. RequestSound(p)'
    BY <2>3, <2>4 DEF RequestSound, Deleting, Op
  <2> HIDE DEF IInv
  <2>6. QED
    BY <2>1, <2>2, <2>3, <2>5, BeginInv
<1>5. ASSUME NEW slug \in Slug, CreateRun(p, slug)  PROVE IInv'
  <2>1. Offered(slug)
        /\ StartRun(p, ActiveVersion(slug), None, VersionGraph(ActiveVersion(slug)))
    BY <1>5 DEF CreateRun
  <2>2. /\ ActiveVersion(slug) \in Version
        /\ Published(ActiveVersion(slug))
        /\ VersionGraph(ActiveVersion(slug)) \in Valid \ {Empty}
    BY <2>1, OfferedIsPublished
  <2> HIDE DEF IInv
  <2>3. QED
    BY <2>1, <2>2, StartRunInv
<1>6. ASSUME NEW d \in Document, CreateRunFromDocument(p, d)  PROVE IInv'
  <2>1. Live(d) /\ documents[d].graph # Empty /\ StartRun(p, None, d, documents[d].graph)
    BY <1>6 DEF CreateRunFromDocument
  <2>2. documents[d].graph \in Valid \ {Empty}
    BY <2>1, LiveIsRow DEF ValidRow
  <2> HIDE DEF IInv
  <2>3. QED
    BY <2>1, <2>2, StartRunInv
<1>7. QED
  BY <1>1, <1>2, <1>3, <1>4, <1>5, <1>6 DEF Arrive

-----------------------------------------------------------------------------
(* They write.                                                             *)

\* The row an update leaves behind fits, and has the place that was asked for.
LEMMA NewRowFits ==
  ASSUME IInv, NEW p \in Request,
         Placing(p) \/ (Op(p, {"update"}) /\ Live(req[p].document))
  PROVE  /\ NewRow(p) \in ValidRow
         /\ req[p].place # None => NewRow(p).place = req[p].place
<1>1. CASE Op(p, {"create"})
  BY <1>1, DocumentAssumptions
     DEF IInv, RequestsSound, RequestSound, Creating, NewRow, ValidRow, Op
<1>2. CASE Op(p, {"update"})
  <2>1. /\ req[p].document \in Document /\ documents[req[p].document] \in ValidRow
        /\ req[p].graph \in Valid \cup {None}
        /\ req[p].place \in Place \cup {None}
    BY <1>2, LiveIsRow DEF IInv, RequestsSound, RequestSound, Updating, Placing, At, Typed, RequestRow
  <2>2. NewRow(p) = [place |-> Or(req[p].place, documents[req[p].document].place),
                     graph |-> Or(req[p].graph, documents[req[p].document].graph)]
    BY <1>2 DEF NewRow, Op
  <2>3. QED
    BY <2>1, <2>2, DocumentAssumptions DEF Or, ValidRow
<1>3. QED
  BY <1>1, <1>2 DEF Placing, Op

\* Only the control state changes: locks are taken that no one else holds.
LEMMA MoveOnInv ==
  ASSUME IInv, NEW p \in Request, NEW pc \in {"reindex", "refused", "commit"},
         SetReq(p, [req[p] EXCEPT !.pc = pc]),
         RequestSound(p)',
         \A o \in Request \ {p} : Apart(p, o)' /\ Apart(o, p)',
         Placing(p)' => PlaceReserved(p)'
  PROVE  IInv'
<1>1. [req[p] EXCEPT !.pc = pc] \in RequestRow
  BY DEF IInv, Typed, RequestRow
<1>2. QED
  BY <1>1, SetReqInv

\* The index entry for a place is taken only when no one else has or gets it.
LEMMA PlacedInv ==
  ASSUME IInv, NEW p \in Request, NEW place \in Place, Placed(p, place),
         req[p].place = place,
         \/ Op(p, {"create"}) /\ At(p, "write")
         \/ Op(p, {"update"}) /\ At(p, "reindex")
  PROVE  IInv'
<1>1. CASE End(p)
  BY <1>1, EndInv
<1>2. CASE ~End(p)
  <2> DEFINE q == [req[p] EXCEPT !.pc = "commit"]
  <2>1. SetReq(p, q) /\ ~PlaceTaken(p, place)
    BY <1>2 DEF Placed
  <2>2. /\ req' = [req EXCEPT ![p] = q] /\ req[p] \in RequestRow
        /\ UNCHANGED <<history, documents, runs>>
    BY <2>1 DEF SetReq, IInv, Typed
  <2>3. /\ req'[p] = q /\ q.pc = "commit" /\ q.op = req[p].op /\ q.id = req[p].id
        /\ q.document = req[p].document /\ q.place = req[p].place /\ q.graph = req[p].graph
        /\ \A o \in Request \ {p} : req'[o] = req[o]
    BY <2>2 DEF RequestRow, IInv, Typed
  <2> HIDE DEF q
  <2>4. RequestSound(p)'
    BY <2>2, <2>3, DocumentAssumptions DEF IInv, RequestsSound, RequestSound, Creating, Updating, Op, At, Live
  <2>5. ASSUME NEW o \in Request, o # p  PROVE Apart(p, o)' /\ Apart(o, p)'
    BY <2>3, <2>5 DEF IInv, Exclusive, Apart, Writing, KeySharing, Op, At
  <2>6. NewRow(p)' = NewRow(p) /\ NewRow(p).place = place
    <3>1. NewRow(p)' = NewRow(p)
      BY <2>2, <2>3 DEF NewRow, Op
    <3>2. CASE Op(p, {"create"})
      BY <3>1, <3>2 DEF NewRow, Op
    <3>3. CASE Op(p, {"update"}) /\ At(p, "reindex")
      <4>1. Live(req[p].document) /\ req[p].place # None
        BY <3>3, DocumentAssumptions DEF IInv, RequestsSound, RequestSound, Updating, At
      <4>2. QED
        BY <3>1, <3>3, <4>1, NewRowFits
    <3>4. QED
      BY <3>1, <3>2, <3>3
  <2>7. PlaceReserved(p)'
    <3>1. ASSUME NEW d \in Document, d # req[p].document, Live(d)
          PROVE  documents[d].place # place
      BY <2>1, <3>1 DEF PlaceTaken
    <3>2. ASSUME NEW o \in Request, o # p, Placing(o)  PROVE NewRow(o).place # place
      BY <1>2, <3>2 DEF Placed, Others, PlaceInDoubt, Placing
    <3>3. \A o \in Request \ {p} : NewRow(o)' = NewRow(o) /\ (Placing(o)' <=> Placing(o))
      BY <2>2, <2>3 DEF NewRow, Placing, Op, At
    <3>4. QED
      BY <2>2, <2>3, <2>6, <3>1, <3>2, <3>3 DEF PlaceReserved, Live
  <2>8. QED
    BY <2>1, <2>4, <2>5, <2>7, MoveOnInv DEF q
<1>3. QED
  BY <1>1, <1>2

LEMMA InsertDocumentInv == ASSUME IInv, NEW p \in Request, InsertDocument(p)  PROVE IInv'
<1>1. req[p].place \in Place
  BY DEF InsertDocument, IInv, RequestsSound, RequestSound, Creating
<1>2. QED
  BY <1>1, PlacedInv DEF InsertDocument

LEMMA MoveDocumentInv == ASSUME IInv, NEW p \in Request, MoveDocument(p)  PROVE IInv'
<1>1. Op(p, {"update"}) /\ req[p].place \in Place
  BY DEF MoveDocument, IInv, Typed, RequestRow, RequestsSound, RequestSound, Creating, Updating,
         Deleting, Starting, NoRequest, Op, At
<1>2. QED
  BY <1>1, PlacedInv DEF MoveDocument

LEMMA UpdateDocumentRowInv == ASSUME IInv, NEW p \in Request, UpdateDocumentRow(p)  PROVE IInv'
<1> DEFINE d == req[p].document
<1>1. CASE End(p)
  BY <1>1, EndInv
<1>2. CASE ~End(p)
  <2>1. /\ Op(p, {"update"}) /\ At(p, "write") /\ Live(d) /\ d \in Document
        /\ \A o \in Request \ {p} : ~Writing(o, d)
    BY <1>2 DEF UpdateDocumentRow, Others, IInv, RequestsSound, RequestSound, Updating
  <2>2. PICK pc \in {"reindex", "commit"} :
           /\ SetReq(p, [req[p] EXCEPT !.pc = pc])
           /\ pc = "commit" <=> NewRow(p).place = documents[d].place
    BY <1>2 DEF UpdateDocumentRow
  <2> DEFINE q == [req[p] EXCEPT !.pc = pc]
  <2>3. /\ req' = [req EXCEPT ![p] = q] /\ req[p] \in RequestRow
        /\ UNCHANGED <<history, documents, runs>>
    BY <2>2 DEF SetReq, IInv, Typed
  <2>4. /\ req'[p] = q /\ q.pc = pc /\ q.op = req[p].op /\ q.id = req[p].id
        /\ q.document = d /\ q.place = req[p].place /\ q.graph = req[p].graph
        /\ \A o \in Request \ {p} : req'[o] = req[o]
    BY <2>3 DEF RequestRow, IInv, Typed
  <2> HIDE DEF q, d
  <2>5. RequestSound(p)'
    <3>1. pc = "reindex" => req[p].place \in Place
      <4>1. req[p].place \in Place \cup {None}
        BY <2>3 DEF RequestRow
      <4>2. req[p].place = None => NewRow(p).place = documents[d].place
        BY <2>1 DEF NewRow, Or, Op, d
      <4>3. QED
        BY <2>2, <4>1, <4>2
    <3>2. QED
      BY <2>1, <2>3, <2>4, <3>1 DEF IInv, RequestsSound, RequestSound, Updating, Op, At, Live, d
  <2>6. ASSUME NEW o \in Request, o # p  PROVE Apart(p, o)' /\ Apart(o, p)'
    BY <2>1, <2>4, <2>6 DEF IInv, Exclusive, Apart, Writing, KeySharing, Op, At
  <2>7. Placing(p)' => PlaceReserved(p)'
    <3> SUFFICES ASSUME pc = "commit"  PROVE PlaceReserved(p)'
      BY <2>4 DEF Placing, At
    <3>1. NewRow(p).place = documents[d].place /\ NewRow(p)' = NewRow(p)
      BY <2>2, <2>3, <2>4 DEF NewRow, Op, d
    <3>2. \A e \in Document \ {d} : Live(e) => documents[e].place # documents[d].place
      BY <2>1 DEF IInv, Committed, UniquePlaces
    <3>3. ASSUME NEW o \in Request, o # p, Placing(o)
          PROVE  NewRow(o).place # documents[d].place
      <4>1. d # req[o].document
        BY <2>1, <3>3, DocumentAssumptions DEF Writing, Placing, Op, At, IInv, RequestsSound, RequestSound, Creating,
           Typed, d
      <4>2. QED
        BY <2>1, <3>3, <4>1 DEF IInv, PlacesReserved, PlaceReserved
    <3>4. \A o \in Request \ {p} : NewRow(o)' = NewRow(o) /\ (Placing(o)' <=> Placing(o))
      BY <2>3, <2>4 DEF NewRow, Placing, Op, At
    <3>5. QED
      BY <2>3, <2>4, <3>1, <3>2, <3>3, <3>4 DEF PlaceReserved, Live, d
  <2>8. QED
    BY <2>2, <2>5, <2>6, <2>7, MoveOnInv
<1>3. QED
  BY <1>1, <1>2

\* A delete that the check lets through leaves no run without a root: it finds
\* no run of the document, and no run of it can be inserted until it ends.
LEMMA DeleteDocumentRowInv == ASSUME IInv, NEW p \in Request, DeleteDocumentRow(p)  PROVE IInv'
<1> DEFINE d == req[p].document
<1>1. CASE End(p)
  BY <1>1, EndInv
<1>2. CASE ~End(p)
  <2>1. /\ Op(p, {"delete"}) /\ At(p, "write") /\ Live(d) /\ d \in Document
        /\ \A o \in Request \ {p} : ~Writing(o, d) /\ ~KeySharing(o, d)
    BY <1>2 DEF DeleteDocumentRow, Others, IInv, RequestsSound, RequestSound, Deleting
  <2>2. PICK pc \in {"refused", "commit"} :
           /\ SetReq(p, [req[p] EXCEPT !.pc = pc])
           /\ pc = "commit" => \A r \in RunsOf(d) : RootCheck(Detached(runs[r]))
    BY <1>2 DEF DeleteDocumentRow
  <2> DEFINE q == [req[p] EXCEPT !.pc = pc]
  <2>3. /\ req' = [req EXCEPT ![p] = q] /\ req[p] \in RequestRow
        /\ UNCHANGED <<history, documents, runs>>
    BY <2>2 DEF SetReq, IInv, Typed
  <2>4. /\ req'[p] = q /\ q.pc = pc /\ q.op = req[p].op /\ q.id = req[p].id /\ q.document = d
        /\ \A o \in Request \ {p} : req'[o] = req[o]
    BY <2>3 DEF RequestRow, IInv, Typed
  <2> HIDE DEF q, d
  <2>5. pc = "commit" => RunsOf(d) = {}
    <3>1. ASSUME NEW r \in RunsOf(d)  PROVE ~RootCheck(Detached(runs[r]))
      <4>1. runs[r] \in RunRow /\ runs[r].document = d /\ d # None
        BY <2>1, DocumentAssumptions DEF RunsOf, IInv, Typed
      <4>2. runs[r].version = None
        BY <4>1, DocumentAssumptions DEF IInv, Committed, RunsRooted, RunsOf
      <4>3. QED
        BY <4>1, <4>2 DEF RootCheck, Detached, RunRow
    <3>2. QED
      BY <2>2, <3>1
  <2>6. RequestSound(p)'
    BY <2>1, <2>3, <2>4, <2>5 DEF IInv, RequestsSound, RequestSound, Deleting, Op, At, Live, RunsOf, d
  <2>7. ASSUME NEW o \in Request, o # p  PROVE Apart(p, o)' /\ Apart(o, p)'
    BY <2>1, <2>4, <2>7 DEF IInv, Exclusive, Apart, Writing, KeySharing, Op, At
  <2>8. ~Placing(p)'
    BY <2>1, <2>4 DEF Placing, Op
  <2>9. QED
    BY <2>2, <2>6, <2>7, <2>8, MoveOnInv
<1>3. QED
  BY <1>1, <1>2

LEMMA InsertRunInv == ASSUME IInv, NEW p \in Request, InsertRun(p)  PROVE IInv'
<1> DEFINE d == req[p].document
<1>1. CASE End(p)
  BY <1>1, EndInv
<1>2. CASE ~End(p)
  <2> DEFINE q == [req[p] EXCEPT !.pc = "commit"]
  <2>1. /\ Op(p, {"run"}) /\ At(p, "write") /\ (d # None => Live(d))
        /\ \A o \in Request \ {p} : ~KeyWriting(o, d)
        /\ SetReq(p, q)
    BY <1>2 DEF InsertRun, Others
  <2>2. /\ req' = [req EXCEPT ![p] = q] /\ req[p] \in RequestRow
        /\ UNCHANGED <<history, documents, runs>>
    BY <2>1 DEF SetReq, IInv, Typed
  <2>3. /\ req'[p] = q /\ q.pc = "commit" /\ q.op = req[p].op /\ q.id = req[p].id
        /\ q.document = d /\ q.version = req[p].version /\ q.graph = req[p].graph
        /\ \A o \in Request \ {p} : req'[o] = req[o]
    BY <2>2 DEF RequestRow, IInv, Typed
  <2> HIDE DEF q, d
  <2>4. RequestSound(p)'
    <3>1. Starting(p)
      BY <2>1 DEF IInv, RequestsSound, RequestSound
    <3>2. d \in Document => Live(d)
      BY <2>1, DocumentAssumptions
    <3>3. Starting(p)'
      BY <2>2, <2>3, <3>1, <3>2 DEF Starting, Published, VersionGraph, Live, d
    <3>4. QED
      BY <2>1, <2>3, <3>3 DEF RequestSound, Op
  <2>5. ASSUME NEW o \in Request, o # p  PROVE Apart(p, o)' /\ Apart(o, p)'
    BY <2>1, <2>3, <2>5 DEF IInv, Exclusive, Apart, Writing, KeyWriting, KeySharing, Op, At
  <2>6. ~Placing(p)'
    BY <2>1, <2>3 DEF Placing, Op
  <2>7. QED
    BY <2>1, <2>4, <2>5, <2>6, MoveOnInv DEF q
<1>3. QED
  BY <1>1, <1>2

-----------------------------------------------------------------------------
(* Commits.                                                                *)

LEMMA ExclusiveAfterEnd ==
  ASSUME IInv, NEW p \in Request, req' = [req EXCEPT ![p] = NoRequest]
  PROVE  Exclusive'
<1>1. /\ req'[p] = NoRequest
      /\ \A o \in Request \ {p} : req'[o] = req[o]
  BY DEF IInv, Typed
<1> SUFFICES ASSUME NEW o \in Request, NEW u \in Request, o # u  PROVE Apart(o, u)'
  BY DEF Exclusive
<1>2. CASE o = p \/ u = p
  BY <1>1, <1>2 DEF Apart, Writing, KeySharing, Op, At, NoRequest
<1>3. CASE o # p /\ u # p
  BY <1>1, <1>3 DEF IInv, Exclusive, Apart, Writing, KeySharing, Op, At
<1>4. QED
  BY <1>2, <1>3

\* A commit of one document row: nobody else holds the row or its new place.
LEMMA CommitDocument ==
  ASSUME IInv, NEW p \in Request, NEW d \in Document, NEW row \in ValidRow,
         At(p, "commit"), NewRow(p) = row,
         \/ Op(p, {"create"}) /\ req[p].id = d
         \/ Op(p, {"update"}) /\ req[p].document = d,
         documents' = [documents EXCEPT ![d] = row],
         req' = [req EXCEPT ![p] = NoRequest],
         UNCHANGED <<runs, history>>
  PROVE  IInv'
<1>1. NoRequest \in RequestRow
  BY DEF NoRequest, RequestRow
<1>2. /\ req'[p] = NoRequest
      /\ \A o \in Request \ {p} : req'[o] = req[o]
      /\ documents'[d] = row
      /\ \A e \in Document \ {d} : documents'[e] = documents[e]
  BY DEF IInv, Typed
<1>3. Typed'
  BY <1>1 DEF IInv, Typed
<1>4. Live(d)' /\ \A e \in Document \ {d} : Live(e)' <=> Live(e)
  BY <1>2, RowIsNoMark DEF Live
<1>5. Placing(p) /\ PlaceReserved(p)
  BY DEF Placing, Op, At, IInv, PlacesReserved
<1>6. \A o \in Request \ {p} : ~(Op(o, {"create"}) /\ req[o].id = d) /\ ~Writing(o, d)
  <2>1. CASE Op(p, {"create"}) /\ req[p].id = d
    <3>1. documents[d] = Absent /\ ~Live(d) /\ d # None
      BY <2>1, DocumentAssumptions DEF IInv, RequestsSound, RequestSound, Creating, Live
    <3>2. \A o \in Request \ {p} : req[o].id # d
      BY <2>1, <3>1 DEF IInv, Exclusive, Apart
    <3>3. \A o \in Request : ~Writing(o, d)
      BY <3>1 DEF Writing, IInv, RequestsSound, RequestSound, Updating, Deleting, Op
    <3>4. QED
      BY <3>2, <3>3
  <2>2. CASE Op(p, {"update"}) /\ req[p].document = d
    <3>1. Writing(p, d) /\ Live(d)
      BY <2>2 DEF Writing, Op, At, IInv, RequestsSound, RequestSound, Updating
    <3>2. \A o \in Request : Op(o, {"create"}) => req[o].id # d
      BY <3>1 DEF Live, IInv, RequestsSound, RequestSound, Creating
    <3>3. QED
      BY <3>1, <3>2 DEF IInv, Exclusive, Apart
  <2>3. QED
    BY <2>1, <2>2
<1>7. RequestsSound'
  <2> SUFFICES ASSUME NEW o \in Request  PROVE RequestSound(o)'
    BY DEF RequestsSound
  <2>1. CASE o = p
    BY <1>2, <2>1 DEF RequestSound, Op, NoRequest
  <2>2. CASE o # p
    <3>1. RequestSound(o) /\ req'[o] = req[o]
      BY <1>2, <2>2 DEF IInv, RequestsSound
    <3>2. Op(o, {"create"}) => Creating(o)'
      BY <1>2, <1>6, <2>2, <3>1 DEF RequestSound, Creating, Op
    <3>3. Op(o, {"update"}) => Updating(o)'
      BY <1>4, <3>1 DEF RequestSound, Updating, Op
    <3>4. Op(o, {"delete"}) => Deleting(o)'
      BY <1>4, <3>1 DEF RequestSound, Deleting, Op, RunsOf
    <3>5. Op(o, {"run"}) => Starting(o)'
      BY <1>4, <3>1 DEF RequestSound, Starting, Op, Published, VersionGraph
    <3>6. QED
      BY <3>1, <3>2, <3>3, <3>4, <3>5 DEF RequestSound, Op
  <2>3. QED
    BY <2>1, <2>2
<1>8. Exclusive'
  BY ExclusiveAfterEnd
<1>9. PlacesReserved'
  <2>1. ~Placing(p)'
    BY <1>2 DEF Placing, Op, NoRequest
  <2>2. ASSUME NEW o \in Request \ {p}, Placing(o)
        PROVE  NewRow(o)' = NewRow(o) /\ NewRow(o).place # row.place
    <3>1. Op(o, {"update"}) => req[o].document \in Document \ {d}
      BY <1>6, <2>2 DEF Writing, Placing, Op, At, IInv, RequestsSound, RequestSound, Updating
    <3>2. NewRow(o)' = NewRow(o)
      BY <1>2, <2>2, <3>1 DEF NewRow, Op, Placing
    <3>3. QED
      BY <1>5, <2>2, <3>2 DEF PlaceReserved
  <2>3. \A o \in Request \ {p} : Placing(o)' <=> Placing(o)
    BY <1>2 DEF Placing, Op, At
  <2>4. ASSUME NEW o \in Request \ {p}, Placing(o)  PROVE PlaceReserved(o)'
    <3>1. PlaceReserved(o)
      BY <2>4 DEF IInv, PlacesReserved
    <3>2. ASSUME NEW e \in Document \ {req[o].document}, Live(e)'
          PROVE  documents'[e].place # NewRow(o)'.place
      BY <1>2, <1>4, <2>2, <2>4, <3>1, <3>2 DEF PlaceReserved
    <3>3. \A u \in Request \ {o} : Placing(u)' => NewRow(u)'.place # NewRow(o)'.place
      BY <2>1, <2>2, <2>3, <2>4, <3>1 DEF PlaceReserved
    <3>4. QED
      BY <1>2, <3>2, <3>3 DEF PlaceReserved
  <2>5. QED
    BY <2>1, <2>3, <2>4 DEF PlacesReserved
<1>10. Committed'
  <2>1. \A e \in Document \ {d} : Live(e) => documents[e].place # row.place
    BY <1>5, DocumentAssumptions DEF PlaceReserved, IInv, RequestsSound, RequestSound, Creating, Op
  <2>2. UniquePlaces'
    BY <1>2, <1>4, <2>1 DEF IInv, Committed, UniquePlaces
  <2>3. RunsRooted' /\ RunsExecuteTheirNodes'
    BY <1>4 DEF IInv, Committed, RunsRooted, RunsExecuteTheirNodes, RunGraph, VersionGraph, Typed,
       RunRow
  <2>4. QED
    BY <2>2, <2>3 DEF Committed
<1>11. QED
  BY <1>3, <1>7, <1>8, <1>9, <1>10 DEF IInv

\* A commit of a delete: the document has no runs, and none is being started.
LEMMA CommitDelete ==
  ASSUME IInv, NEW p \in Request, Op(p, {"delete"}), At(p, "commit"),
         NEW d \in Document, req[p].document = d,
         documents' = [documents EXCEPT ![d] = Deleted],
         runs' = [r \in Run |-> IF r \in RunsOf(d)
                                THEN Detached(runs[r]) ELSE runs[r]],
         req' = [req EXCEPT ![p] = NoRequest],
         UNCHANGED history
  PROVE  IInv'
<1>1. RunsOf(d) = {} /\ Writing(p, d) /\ Live(d)
  BY DEF IInv, RequestsSound, RequestSound, Deleting, Writing, Op, At
<1>2. runs' = runs
  BY <1>1 DEF IInv, Typed
<1>3. /\ req'[p] = NoRequest
      /\ \A o \in Request \ {p} : req'[o] = req[o]
      /\ \A e \in Document \ {d} : documents'[e] = documents[e]
      /\ documents'[d] = Deleted
      /\ NoRequest \in RequestRow
  BY <1>1 DEF IInv, Typed, NoRequest, RequestRow
<1>4. Typed'
  BY <1>2, <1>3 DEF IInv, Typed
<1>5. ~Live(d)' /\ \A e \in Document \ {d} : Live(e)' <=> Live(e)
  BY <1>3 DEF Live
<1>6. \A o \in Request \ {p} : /\ ~(Op(o, {"create"}) /\ req[o].id = d)
                               /\ ~Writing(o, d) /\ ~KeySharing(o, d)
  <2>1. \A o \in Request : Op(o, {"create"}) => req[o].id # d
    BY <1>1 DEF Live, IInv, RequestsSound, RequestSound, Creating
  <2>2. QED
    BY <1>1, <2>1 DEF IInv, Exclusive, Apart
<1>7. RequestsSound'
  <2> SUFFICES ASSUME NEW o \in Request  PROVE RequestSound(o)'
    BY DEF RequestsSound
  <2>1. CASE o = p
    BY <1>3, <2>1 DEF RequestSound, Op, NoRequest
  <2>2. CASE o # p
    <3>1. RequestSound(o) /\ req'[o] = req[o]
      BY <1>3, <2>2 DEF IInv, RequestsSound
    <3>2. Op(o, {"create"}) => Creating(o)'
      BY <1>3, <1>6, <2>2, <3>1 DEF RequestSound, Creating, Op
    <3>3. Op(o, {"update"}) => Updating(o)'
      BY <1>5, <1>6, <2>2, <3>1 DEF RequestSound, Updating, Op, Writing
    <3>4. Op(o, {"delete"}) => Deleting(o)'
      BY <1>2, <1>5, <1>6, <2>2, <3>1 DEF RequestSound, Deleting, Op, RunsOf, Writing
    <3>5. Op(o, {"run"}) => Starting(o)'
      BY <1>2, <1>5, <1>6, <2>2, <3>1
         DEF RequestSound, Starting, Op, At, Published, VersionGraph, KeySharing
    <3>6. QED
      BY <3>1, <3>2, <3>3, <3>4, <3>5 DEF RequestSound, Op
  <2>3. QED
    BY <2>1, <2>2
<1>8. Exclusive'
  BY ExclusiveAfterEnd
<1>9. PlacesReserved'
  <2>1. ~Placing(p)'
    BY <1>3 DEF Placing, Op, NoRequest
  <2>2. ASSUME NEW o \in Request \ {p}, Placing(o)  PROVE NewRow(o)' = NewRow(o)
    <3>1. Op(o, {"update"}) => req[o].document \in Document \ {d}
      BY <1>6, <2>2 DEF Writing, Placing, Op, At, IInv, RequestsSound, RequestSound, Updating
    <3>2. QED
      BY <1>3, <2>2, <3>1 DEF NewRow, Op, Placing
  <2>3. \A o \in Request \ {p} : Placing(o)' <=> Placing(o)
    BY <1>3 DEF Placing, Op, At
  <2>4. ASSUME NEW o \in Request \ {p}, Placing(o)  PROVE PlaceReserved(o)'
    <3>1. PlaceReserved(o)
      BY <2>4 DEF IInv, PlacesReserved
    <3>2. ASSUME NEW e \in Document \ {req[o].document}, Live(e)'
          PROVE  documents'[e].place # NewRow(o)'.place
      BY <1>3, <1>5, <2>2, <2>4, <3>1, <3>2 DEF PlaceReserved
    <3>3. \A u \in Request \ {o} : Placing(u)' => NewRow(u)'.place # NewRow(o)'.place
      BY <2>1, <2>2, <2>3, <2>4, <3>1 DEF PlaceReserved
    <3>4. QED
      BY <1>3, <3>2, <3>3 DEF PlaceReserved
  <2>5. QED
    BY <2>1, <2>3, <2>4 DEF PlacesReserved
<1>10. Committed'
  <2>1. UniquePlaces'
    BY <1>3, <1>5 DEF IInv, Committed, UniquePlaces
  <2>2. ASSUME NEW r \in Run, runs[r] # Absent  PROVE runs[r].document # d
    BY <1>1, <2>2 DEF RunsOf
  <2>3. RunsRooted' /\ RunsExecuteTheirNodes'
    <3>1. RunsExecuteTheirNodes'
      BY <1>2 DEF IInv, Committed, RunsExecuteTheirNodes, RunGraph, VersionGraph
    <3>2. ASSUME NEW r \in Run, runs[r] # Absent, runs[r].document # None
          PROVE  runs[r].document \in Document \ {d}
      BY <2>2, <3>2 DEF IInv, Typed, RunRow
    <3>3. RunsRooted'
      BY <1>2, <1>5, <3>2 DEF IInv, Committed, RunsRooted
    <3>4. QED
      BY <3>1, <3>3
  <2>4. QED
    BY <2>1, <2>3 DEF Committed
<1>11. QED
  BY <1>4, <1>7, <1>8, <1>9, <1>10 DEF IInv

\* A commit of a run: it has its root, and the graph of its nodes.
LEMMA CommitRun ==
  ASSUME IInv, NEW p \in Request, Op(p, {"run"}), At(p, "commit"),
         runs' = [runs EXCEPT ![req[p].id] = NewRun(p)],
         req' = [req EXCEPT ![p] = NoRequest],
         UNCHANGED <<documents, history>>
  PROVE  IInv'
<1> DEFINE r == req[p].id  d == req[p].document
<1>1. Starting(p) /\ r # None
  BY DocumentAssumptions DEF IInv, RequestsSound, RequestSound, Starting
<1>2. NewRun(p) \in RunRow
  <2>1. req[p] \in RequestRow /\ req[p].graph \in Graph
    BY <1>1, DocumentAssumptions DEF IInv, Typed, Starting
  <2>2. QED
    BY <2>1 DEF RequestRow, RunRow, NewRun
<1>3. /\ req'[p] = NoRequest
      /\ \A o \in Request \ {p} : req'[o] = req[o]
      /\ runs'[r] = NewRun(p)
      /\ \A s \in Run \ {r} : runs'[s] = runs[s]
      /\ NoRequest \in RequestRow
      /\ r \in Run
  BY <1>1 DEF IInv, Typed, NoRequest, RequestRow, Starting
<1>4. Typed'
  BY <1>2, <1>3 DEF IInv, Typed
<1>5. \A o \in Request \ {p} : req[o].id # r
  BY <1>1 DEF IInv, Exclusive, Apart
<1>6. NewRun(p) # Absent
  BY <1>2, DocumentAssumptions
<1>7. RequestsSound'
  <2> SUFFICES ASSUME NEW o \in Request  PROVE RequestSound(o)'
    BY DEF RequestsSound
  <2>1. CASE o = p
    BY <1>3, <2>1 DEF RequestSound, Op, NoRequest
  <2>2. CASE o # p
    <3>1. RequestSound(o) /\ req'[o] = req[o]
      BY <1>3, <2>2 DEF IInv, RequestsSound
    <3>2. Op(o, {"create"}) => Creating(o)'
      BY <3>1 DEF RequestSound, Creating, Op
    <3>3. Op(o, {"update"}) => Updating(o)'
      BY <3>1 DEF RequestSound, Updating, Op, Live
    <3>4. Op(o, {"delete"}) => Deleting(o)'
      <4> SUFFICES ASSUME Op(o, {"delete"}), req[o].pc = "commit"
                   PROVE  RunsOf(req[o].document)' = {}
        BY <3>1 DEF RequestSound, Deleting, Op, Live
      <4>1. Deleting(o) /\ Writing(o, req[o].document)
        BY <3>1 DEF RequestSound, Writing, Deleting, Op
      <4>2. ~KeySharing(p, req[o].document)
        BY <2>2, <4>1 DEF IInv, Exclusive, Apart, Deleting
      <4>3. NewRun(p).document # req[o].document
        BY <4>2 DEF KeySharing, NewRun
      <4>4. QED
        BY <1>3, <3>1, <4>1, <4>3 DEF Deleting, RunsOf
    <3>5. Op(o, {"run"}) => Starting(o)'
      BY <1>3, <1>5, <2>2, <3>1
         DEF RequestSound, Starting, Op, Published, VersionGraph, Live
    <3>6. QED
      BY <3>1, <3>2, <3>3, <3>4, <3>5 DEF RequestSound, Op
  <2>3. QED
    BY <2>1, <2>2
<1>8. Exclusive'
  BY ExclusiveAfterEnd
<1>9. PlacesReserved'
  BY <1>3 DEF IInv, PlacesReserved, PlaceReserved, Placing, NewRow, Op, At, Live, NoRequest
<1>10. Committed'
  <2>1. UniquePlaces'
    BY DEF IInv, Committed, UniquePlaces, Live
  <2>2. /\ NewRun(p).version = req[p].version /\ NewRun(p).document = d
        /\ NewRun(p).nodes = req[p].graph /\ req[p].graph \in Valid \ {Empty}
        /\ NewRun(p).snapshot = IF d = None THEN None ELSE req[p].graph
    BY <1>1 DEF NewRun, Starting
  <2>3. \/ /\ d = None /\ req[p].version # None /\ Published(req[p].version)
           /\ req[p].graph = VersionGraph(req[p].version)
        \/ req[p].version = None /\ d # None /\ Live(d)
    BY <1>1, DocumentAssumptions DEF Starting, Published, At
  <2>4. RunsExecuteTheirNodes'
    <3>1. RunGraph(NewRun(p)) = req[p].graph
      BY <2>2, <2>3 DEF RunGraph
    <3>2. ASSUME NEW s \in Run, runs'[s] # Absent
          PROVE  RunGraph(runs'[s]) = runs'[s].nodes /\ runs'[s].nodes \in Valid \ {Empty}
      BY <1>3, <2>2, <3>1, <3>2 DEF IInv, Committed, RunsExecuteTheirNodes
    <3>3. QED
      BY <3>2 DEF RunsExecuteTheirNodes, RunGraph, VersionGraph
  <2>5. RunsRooted'
    BY <1>3, <2>2, <2>3 DEF IInv, Committed, RunsRooted, Published, Live
  <2>6. QED
    BY <2>1, <2>4, <2>5 DEF Committed
<1>11. QED
  BY <1>4, <1>7, <1>8, <1>9, <1>10 DEF IInv

LEMMA CommitInv == ASSUME IInv, NEW p \in Request, Commit(p)  PROVE IInv'
<1>1. At(p, "commit") /\ req' = [req EXCEPT ![p] = NoRequest] /\ UNCHANGED history
  BY DEF Commit
<1>2. CASE Op(p, {"create"})
  <2>1. NewRow(p) \in ValidRow
    <3>1. Placing(p)
      BY <1>1, <1>2 DEF Placing, Op
    <3>2. QED
      BY <3>1, NewRowFits
  <2>2. req[p].id \in Document
    BY <1>2 DEF IInv, RequestsSound, RequestSound, Creating
  <2>3. documents' = [documents EXCEPT ![req[p].id] = NewRow(p)] /\ UNCHANGED runs
    BY <1>2 DEF Commit, Op
  <2>4. QED
    BY <1>1, <1>2, <2>1, <2>2, <2>3, CommitDocument
<1>3. CASE Op(p, {"update"})
  <2>1. NewRow(p) \in ValidRow
    <3>1. Placing(p)
      BY <1>1, <1>3 DEF Placing, Op
    <3>2. QED
      BY <3>1, NewRowFits
  <2>2. req[p].document \in Document
    BY <1>3 DEF IInv, RequestsSound, RequestSound, Updating
  <2>3. documents' = [documents EXCEPT ![req[p].document] = NewRow(p)] /\ UNCHANGED runs
    BY <1>3 DEF Commit, Op
  <2>4. QED
    BY <1>1, <1>3, <2>1, <2>2, <2>3, CommitDocument
<1>4. CASE Op(p, {"delete"})
  <2>1. /\ documents' = [documents EXCEPT ![req[p].document] = Deleted]
        /\ runs' = [r \in Run |-> IF r \in RunsOf(req[p].document)
                                  THEN Detached(runs[r]) ELSE runs[r]]
    BY <1>4 DEF Commit, Op
  <2>2. req[p].document \in Document
    BY <1>4 DEF IInv, RequestsSound, RequestSound, Deleting
  <2>3. QED
    BY <1>1, <1>4, <2>1, <2>2, CommitDelete
<1>5. CASE Op(p, {"run"})
  <2>1. runs' = [runs EXCEPT ![req[p].id] = NewRun(p)] /\ UNCHANGED documents
    BY <1>5 DEF Commit, Op
  <2>2. QED
    BY <1>1, <1>5, <2>1, CommitRun
<1>6. CASE Op(p, {"none"})
  BY <1>1, <1>6 DEF IInv, RequestsSound, RequestSound, NoRequest, At
<1>7. QED
  BY <1>2, <1>3, <1>4, <1>5, <1>6 DEF IInv, Typed, RequestRow, Op

-----------------------------------------------------------------------------
(* Roll-outs.                                                              *)

\* A release adds a version to a history or leaves it alone.
LEMMA ExtendedGrows ==
  ASSUME NEW S, NEW past \in Seq(S), NEW graph \in S
  PROVE  /\ Catalog!Extended(past, graph) \in Seq(S)
         /\ Len(past) <= Len(Catalog!Extended(past, graph))
         /\ \A n \in 1..Len(past) : Catalog!Extended(past, graph)[n] = past[n]
BY DEF Catalog!Extended

\* What was published stays, with the same graph.
LEMMA InstallKeeps ==
  ASSUME IInv, NEW release \in Releases, Catalog!Install(release)
  PROVE  /\ history' \in [Slug -> Seq(Valid \ {Empty})]
         /\ \A v : Published(v) => Published(v)' /\ VersionGraph(v)' = VersionGraph(v)
<1>1. history \in [Slug -> Seq(Valid \ {Empty})]
  BY DEF IInv, Typed
<1>2. \A slug \in DOMAIN release : release[slug] \in Valid \ {Empty}
  BY DocumentAssumptions
<1>3. ASSUME NEW slug \in Slug
      PROVE  /\ history'[slug] \in Seq(Valid \ {Empty})
             /\ Len(history[slug]) <= Len(history'[slug])
             /\ \A n \in 1..Len(history[slug]) : history'[slug][n] = history[slug][n]
  <2>1. CASE slug \in DOMAIN release
    <3>1. history'[slug] = Catalog!Extended(history[slug], release[slug])
      BY <2>1 DEF Catalog!Install
    <3> DEFINE Runnable == Valid \ {Empty}
    <3>2. history[slug] \in Seq(Runnable) /\ release[slug] \in Runnable
      BY <1>1, <1>2, <2>1
    <3>3. history'[slug] \in Seq(Runnable) <=> history'[slug] \in Seq(Valid \ {Empty})
      OBVIOUS
    <3> HIDE DEF Runnable
    <3>4. /\ Catalog!Extended(history[slug], release[slug]) \in Seq(Runnable)
          /\ Len(history[slug]) <= Len(Catalog!Extended(history[slug], release[slug]))
          /\ \A n \in 1..Len(history[slug]) :
                Catalog!Extended(history[slug], release[slug])[n] = history[slug][n]
      BY <3>2, ExtendedGrows
    <3>5. QED
      BY <3>1, <3>3, <3>4
  <2>2. CASE slug \notin DOMAIN release
    BY <1>1, <2>2 DEF Catalog!Install
  <2>3. QED
    BY <2>1, <2>2
<1>4. history' \in [Slug -> Seq(Valid \ {Empty})]
  BY <1>3 DEF Catalog!Install
<1>5. ASSUME NEW v, Published(v)  PROVE Published(v)' /\ VersionGraph(v)' = VersionGraph(v)
  <2>1. /\ v[1] \in Slug /\ v[2] \in 1..Len(history[v[1]])
        /\ Len(history[v[1]]) \in Nat /\ Len(history'[v[1]]) \in Nat
    BY <1>1, <1>4, <1>5 DEF Published, Version
  <2>2. QED
    BY <1>3, <1>5, <2>1 DEF Published, VersionGraph
<1>6. QED
  BY <1>4, <1>5

LEMMA DeployInv == ASSUME IInv, Deploy  PROVE IInv'
<1>1. PICK release \in Releases : Catalog!Install(release)
  BY DEF Deploy
<1>2. UNCHANGED <<documents, runs, req>>
  BY DEF Deploy
<1>3. /\ history' \in [Slug -> Seq(Valid \ {Empty})]
      /\ \A v : Published(v) => Published(v)' /\ VersionGraph(v)' = VersionGraph(v)
  BY <1>1, InstallKeeps
<1>4. Typed'
  BY <1>2, <1>3 DEF IInv, Typed
<1>5. RequestsSound'
  <2> SUFFICES ASSUME NEW o \in Request  PROVE RequestSound(o)'
    BY DEF RequestsSound
  <2>1. RequestSound(o)
    BY DEF IInv, RequestsSound
  <2>2. Starting(o) => Starting(o)'
    BY <1>2, <1>3 DEF Starting, Live
  <2>3. QED
    BY <1>2, <2>1, <2>2 DEF RequestSound, Creating, Updating, Deleting, Op, Live, RunsOf
<1>6. Exclusive'
  BY <1>2 DEF IInv, Exclusive, Apart, Writing, KeySharing, Op, At
<1>7. PlacesReserved'
  BY <1>2 DEF IInv, PlacesReserved, PlaceReserved, Placing, NewRow, Op, At, Live
<1>8. Committed'
  <2>1. UniquePlaces'
    BY <1>2 DEF IInv, Committed, UniquePlaces, Live
  <2>2. ASSUME NEW r \in Run, runs[r] # Absent, runs[r].version # None
        PROVE  Published(runs[r].version)
    BY <2>2 DEF IInv, Typed, RunRow, Committed, RunsRooted, Published
  <2>3. RunsRooted'
    BY <1>2, <1>3, <2>2 DEF IInv, Committed, RunsRooted, Live, Published
  <2>4. RunsExecuteTheirNodes'
    BY <1>2, <1>3, <2>2 DEF IInv, Committed, RunsExecuteTheirNodes, RunGraph
  <2>5. QED
    BY <2>1, <2>3, <2>4 DEF Committed
<1>9. QED
  BY <1>4, <1>5, <1>6, <1>7, <1>8 DEF IInv

-----------------------------------------------------------------------------
(* The theorems.                                                           *)

LEMMA InitIInv == Init => IInv
<1> SUFFICES ASSUME Init  PROVE IInv
  OBVIOUS
<1>1. NoRequest \in RequestRow
  BY DEF NoRequest, RequestRow
<1>2. Typed
  BY <1>1 DEF Init, Typed, Catalog!Init
<1>3. \A p \in Request : req[p] = NoRequest
  BY DEF Init
<1>4. RequestsSound
  <2>1. NoRequest.op = "none"
    BY DEF NoRequest
  <2>2. QED
    BY <1>3, <2>1 DEF RequestsSound, RequestSound, Op
<1>5. Exclusive
  BY <1>3 DEF Exclusive, Apart, Writing, KeySharing, Op, NoRequest
<1>6. PlacesReserved
  BY <1>3 DEF PlacesReserved, Placing, Op, NoRequest
<1>7. Committed
  BY DEF Init, Committed, UniquePlaces, RunsRooted, RunsExecuteTheirNodes, Live
<1>8. QED
  BY <1>2, <1>4, <1>5, <1>6, <1>7 DEF IInv

LEMMA StepInv == ASSUME IInv, NEW p \in Request, Step(p)  PROVE IInv'
BY InsertDocumentInv, UpdateDocumentRowInv, MoveDocumentInv, DeleteDocumentRowInv, InsertRunInv,
   CommitInv, EndInv DEF Step, Rollback

LEMMA NextInv == IInv /\ [Next]_vars => IInv'
<1> SUFFICES ASSUME IInv, [Next]_vars  PROVE IInv'
  OBVIOUS
<1>1. ASSUME NEW p \in Request, Arrive(p)  PROVE IInv'
  BY <1>1, ArriveInv
<1>2. ASSUME NEW p \in Request, Step(p)  PROVE IInv'
  BY <1>2, StepInv
<1>3. ASSUME NEW p \in Request, Rollback(p)  PROVE IInv'
  BY <1>3, EndInv DEF Rollback
<1>4. CASE Deploy
  BY <1>4, DeployInv
<1>5. CASE UNCHANGED vars
  BY <1>5 DEF vars, IInv, Typed, RequestsSound, RequestSound, Creating, Updating, Deleting,
     Starting, Published, VersionGraph, Live, RunsOf, Exclusive, Apart, Writing, KeySharing,
     PlacesReserved, PlaceReserved, Placing, NewRow, Op, At, Committed, UniquePlaces, RunsRooted,
     RunsExecuteTheirNodes, RunGraph
<1>6. QED
  BY <1>1, <1>2, <1>3, <1>4, <1>5 DEF Next

\* The inductive invariant holds of every session, however they overlap.
THEOREM Inductive == Spec => []IInv
BY InitIInv, NextInv, PTL DEF Spec

\* Every row and every open transaction has its type, in every reachable state.
THEOREM TypeCorrect == Spec => []TypeOK
<1>1. IInv => TypeOK
  <2> SUFFICES ASSUME IInv  PROVE TypeOK
    OBVIOUS
  <2>1. ValidRow \subseteq DocumentRow
    BY DocumentAssumptions DEF ValidRow, DocumentRow
  <2>2. QED
    BY <2>1 DEF IInv, Typed, TypeOK, RequestRow
<1>2. QED
  BY <1>1, Inductive, PTL

\* The graph the engine reads for a run is for ever the one its nodes were
\* inserted for, whatever happens to its document or template.
THEOREM RunGraphsFrozen == Spec => []RunsExecuteTheirNodes
<1>1. IInv => RunsExecuteTheirNodes
  BY DEF IInv, Committed
<1>2. QED
  BY <1>1, Inductive, PTL

\* No run loses its template or document, under deletes, inserts and roll-outs.
THEOREM RunsKeepTheirRoot == Spec => []RunsRooted
<1>1. IInv => RunsRooted
  BY DEF IInv, Committed
<1>2. QED
  BY <1>1, Inductive, PTL

\* Concurrent creates and moves never give one place to two documents.
THEOREM PlacesAreUnique == Spec => []UniquePlaces
<1>1. IInv => UniquePlaces
  BY DEF IInv, Committed
<1>2. QED
  BY <1>1, Inductive, PTL

\* The documents and runs use the template catalog as it is promised: requests
\* leave it alone, and every roll-out installs a whole release.
THEOREM UsesCatalog == Spec => Catalog!Spec
<1>1. Init => Catalog!Init
  BY DEF Init
<1>2. [Next]_vars => [Catalog!Next]_history
  <2> SUFFICES ASSUME [Next]_vars  PROVE Catalog!Next \/ UNCHANGED history
    OBVIOUS
  <2>1. ASSUME NEW p \in Request, Arrive(p) \/ Step(p) \/ Rollback(p)  PROVE UNCHANGED history
    BY <2>1 DEF Arrive, Step, Rollback, CreateBlankDocument, CreateDocumentFromTemplate,
       UpdateDocument, DeleteDocument, CreateRun, CreateRunFromDocument, Create, StartRun, Begin,
       InsertDocument, UpdateDocumentRow, MoveDocument, DeleteDocumentRow, InsertRun, Commit,
       Placed, End, SetReq
  <2>2. CASE Deploy
    BY <2>2 DEF Deploy, Catalog!Next
  <2>3. CASE UNCHANGED vars
    BY <2>3 DEF vars
  <2>4. QED
    BY <2>1, <2>2, <2>3 DEF Next
<1>3. QED
  BY <1>1, <1>2, PTL DEF Spec, Catalog!Spec
=============================================================================
