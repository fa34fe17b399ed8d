-------------------------- MODULE TemplateSyncProofs --------------------------
(***************************************************************************)
(* Proofs about TemplateSync: processes that sync at once, for any number  *)
(* of processes and any set of releases, and that they implement the       *)
(* template catalog.                                                       *)
(***************************************************************************)
EXTENDS TemplateSync, FiniteSetTheorems, SequenceTheorems, InductionLemmas

PC == {"idle", "find", "insert", "update", "compare", "mint", "commit"}

Sync == [pc : PC, release : Releases \cup {<<>>}, queue : Seq(Slug),
         inserted : SUBSET Slug, locked : SUBSET Slug,
         retired : SUBSET Version, minted : SUBSET Version]

\* The versions of one template.
RowsOf(rows, slug) == {v \in rows : v.slug = slug}

\* The versions mine of a template are numbered 1..k, and the last is active.
Chain(mine, k) ==
    /\ {v.number : v \in mine} = 1..k
    /\ \A v, w \in mine : v.number = w.number => v = w
    /\ \A v \in mine : v.active <=> v.number = k

\* What is committed.
CatalogSound(temps, rows) ==
    /\ temps \subseteq Slug /\ rows \subseteq Version
    /\ \A slug \in Slug : \E k \in Nat :
          Chain(RowsOf(rows, slug), k) /\ (slug \in temps <=> k # 0)

\* The version on offer has this graph.
Offers(mine, graph) == \E v \in mine : v.active /\ v.graph = graph

\* The templates a sync has dealt with, those it has written, and those it has
\* given a new version.
Done(t)   == DOMAIN t.release \ ToSet(t.queue)
Owned(t)  == t.inserted \cup t.locked
Minted(t) == {m.slug : m \in t.minted}

\* Where an open sync stands.
PlaceSound(temps, rows, t) ==
    /\ t.release \in Releases
    /\ ToSet(t.queue) \subseteq DOMAIN t.release
    /\ \A i, j \in DOMAIN t.queue : i # j => t.queue[i] # t.queue[j]
    /\ t.pc = "commit" <=> t.queue = <<>>
    /\ t.pc = "update" => Head(t.queue) \in temps \cup t.inserted
    /\ t.pc \in {"compare", "mint"} => Head(t.queue) \in Owned(t)
    /\ t.pc = "mint" => ~Offers(RowsOf(rows, Head(t.queue)), t.release[Head(t.queue)])

\* The template rows it has written.
OwnedSound(temps, t) ==
    /\ t.inserted \cap temps = {}
    /\ t.locked \subseteq temps \cup t.inserted
    /\ Done(t) \subseteq Owned(t)
    /\ t.inserted \subseteq
          Done(t) \cup (IF t.pc \in {"compare", "mint"} THEN {Head(t.queue)} ELSE {})

\* The version rows it has written: a new version for each template it has dealt
\* with whose graph differs from the one on offer, which is retired.
MintedSound(rows, t) ==
    /\ \A slug \in Done(t) :
          slug \in Minted(t) <=> ~Offers(RowsOf(rows, slug), t.release[slug])
    /\ \A m \in t.minted : /\ m.slug \in Done(t)
                           /\ m.active /\ m.graph = t.release[m.slug]
                           /\ m.number = NextNumber(rows, m.slug)
    /\ \A m, n \in t.minted : m.slug = n.slug => m = n
    /\ t.retired = {v \in rows : v.active /\ v.slug \in Minted(t)}

SyncSound(temps, rows, t) ==
    /\ t.pc = "idle" => t = NoSync
    /\ t.pc # "idle" => /\ PlaceSound(temps, rows, t)
                        /\ OwnedSound(temps, t)
                        /\ MintedSound(rows, t)

\* The unique index and the row locks keep the syncs apart.
Apart(t, u) == t.inserted \cap u.inserted = {} /\ t.locked \cap u.locked = {}

Typed == /\ sync \in [Process -> Sync]
         /\ boots \in 0..BootLimit

IInv ==
    /\ Typed
    /\ CatalogSound(templates, versions)
    /\ \A p \in Process : SyncSound(templates, versions, sync[p])
    /\ \A p, o \in Process : p # o => Apart(sync[p], sync[o])

-----------------------------------------------------------------------------
(* Releases, queues and versions.                                          *)

\* What a build registers.
LEMMA ReleaseFacts ==
  ASSUME NEW release \in Releases
  PROVE  /\ DOMAIN release \subseteq Slug /\ DOMAIN release # {}
         /\ IsFiniteSet(DOMAIN release)
         /\ \A slug \in DOMAIN release : release[slug] \in Graph
<1>1. DOMAIN release \subseteq Slug /\ DOMAIN release # {}
  BY SyncAssumptions
<1>2. IsFiniteSet(Slug)
  <2>1. Slugs \in Surjection(1..Len(Slugs), Slug)
    <3>1. Slugs \in [1..Len(Slugs) -> Slug]
      BY SyncAssumptions
    <3>2. \A slug \in Slug : \E i \in DOMAIN Slugs : Slugs[i] = slug
      BY DEF Slug, ToSet
    <3> HIDE DEF Slug
    <3>3. QED
      BY <3>1, <3>2 DEF Surjection
  <2>2. IsFiniteSet(1..Len(Slugs))
    BY SyncAssumptions, FS_Interval
  <2>3. QED
    BY <2>1, <2>2, FS_Surjection
<1>3. \A slug \in DOMAIN release : release[slug] \in Graph
  BY DEF Graph, Range
<1>4. QED
  BY <1>1, <1>2, <1>3, FS_Subset

\* An order of a finite set names each of its elements once.
LEMMA OrderCovers ==
  ASSUME NEW S, IsFiniteSet(S), NEW q \in SetToSeqs(S)
  PROVE  /\ q \in Seq(S) /\ ToSet(q) = S
         /\ \A i, j \in DOMAIN q : i # j => q[i] # q[j]
<1> DEFINE n == Cardinality(S)
<1>1. n \in Nat
  BY FS_CardinalityType
<1>2. /\ q \in [1..n -> S]
      /\ \A i, j \in 1..n : i # j => q[i] # q[j]
  BY DEF SetToSeqs
<1>3. IsFiniteSet(1..n) /\ Cardinality(1..n) = n
  BY <1>1, FS_Interval
<1>4. q \in Injection(1..n, S)
  BY <1>2 DEF Injection, IsInjective
<1>5. q \in Surjection(1..n, S)
  BY <1>3, <1>4, FS_Injection
<1>6. ToSet(q) = S
  BY <1>2, <1>5 DEF Surjection, ToSet
<1>7. q \in Seq(S)
  BY <1>1, <1>2
<1>8. QED
  BY <1>2, <1>6, <1>7

\* One element less to go.
LEMMA QueueTail ==
  ASSUME NEW S, NEW q \in Seq(S), q # <<>>, \A i, j \in DOMAIN q : i # j => q[i] # q[j]
  PROVE  /\ Tail(q) \in Seq(S) /\ Head(q) \in ToSet(q) /\ Head(q) \in S
         /\ ToSet(Tail(q)) = ToSet(q) \ {Head(q)}
         /\ \A i, j \in DOMAIN Tail(q) : i # j => Tail(q)[i] # Tail(q)[j]
         /\ Tail(q) = <<>> <=> Len(q) = 1
<1>1. /\ Tail(q) \in Seq(S) /\ Len(q) \in Nat /\ Len(q) # 0 /\ Len(Tail(q)) = Len(q) - 1
      /\ Head(q) = q[1]
      /\ \A i \in 1..Len(q) - 1 : Tail(q)[i] = q[i + 1]
      /\ DOMAIN q = 1..Len(q) /\ DOMAIN Tail(q) = 1..Len(q) - 1
  BY HeadTailProperties
<1>2. \A i, j \in DOMAIN Tail(q) : i # j => Tail(q)[i] # Tail(q)[j]
  <2>1. \A i \in 1..Len(q) - 1 : i + 1 \in 1..Len(q)
    BY <1>1
  <2>2. QED
    BY <1>1, <2>1
<1>3. ToSet(Tail(q)) \subseteq ToSet(q) \ {Head(q)}
  <2>1. \A i \in 1..Len(q) - 1 : i + 1 \in 1..Len(q) /\ i + 1 # 1 /\ 1 \in 1..Len(q)
    BY <1>1
  <2>2. QED
    BY <1>1, <2>1 DEF ToSet
<1>4. ToSet(q) \ {Head(q)} \subseteq ToSet(Tail(q))
  <2>1. SUFFICES ASSUME NEW i \in 1..Len(q), q[i] # q[1]  PROVE q[i] \in ToSet(Tail(q))
    BY <1>1 DEF ToSet
  <2>2. i - 1 \in 1..Len(q) - 1 /\ Tail(q)[i - 1] = q[i]
    BY <1>1, <2>1
  <2>3. QED
    BY <1>1, <2>2 DEF ToSet
<1>5. Head(q) \in ToSet(q) /\ Head(q) \in S
  <2>1. 1 \in DOMAIN q
    BY <1>1
  <2>2. QED
    BY <1>1, <2>1 DEF ToSet
<1>6. QED
  BY <1>1, <1>2, <1>3, <1>4, <1>5

\* The next number after those of a chain.
LEMMA NextOfChain ==
  ASSUME NEW rows, NEW slug, NEW k \in Nat, Chain(RowsOf(rows, slug), k)
  PROVE  NextNumber(rows, slug) = k + 1
<1>1. {0} \cup Numbers(rows, slug) = 0..k
  BY DEF Chain, Numbers, RowsOf
<1>2. Max(0..k) = k
  <2>1. k \in 0..k /\ \A y \in 0..k : k >= y
    OBVIOUS
  <2>2. \A x \in 0..k : (\A y \in 0..k : x >= y) => x = k
    BY <2>1
  <2>3. QED
    BY <2>1, <2>2 DEF Max
<1>3. NextNumber(rows, slug) = 1 + Max(0..k)
  BY <1>1, Zenon DEF NextNumber
<1>4. QED
  BY <1>2, <1>3

\* A chain has as many versions as its last number.
LEMMA ChainLength ==
  ASSUME NEW mine, NEW k \in Nat, Chain(mine, k)
  PROVE  IsFiniteSet(mine) /\ Cardinality(mine) = k
<1> DEFINE at == [n \in 1..k |-> CHOOSE v \in mine : v.number = n]
<1>1. \A n \in 1..k : at[n] \in mine /\ at[n].number = n
  BY DEF Chain
<1> HIDE DEF at
<1>2. at \in [1..k -> mine]
  BY <1>1 DEF at
<1>3. at \in Injection(1..k, mine)
  BY <1>1, <1>2 DEF Injection, IsInjective
<1>4. at \in Surjection(1..k, mine)
  <2>1. \A v \in mine : v.number \in 1..k /\ at[v.number] = v
    BY <1>1 DEF Chain
  <2>2. QED
    BY <1>2, <2>1 DEF Surjection
<1>5. ExistsBijection(1..k, mine)
  BY <1>3, <1>4 DEF ExistsBijection, Bijection
<1>6. QED
  BY <1>5, FS_CountingElements, FS_NatBijection

-----------------------------------------------------------------------------
(* What a sync sees, and what it commits.                                  *)

\* The rows after a commit of t.
Installed(rows, t) == Retire(rows, t.retired) \cup t.minted

\* The templates without a new version keep their rows.
LEMMA OthersKept ==
  ASSUME NEW rows \in SUBSET Version, NEW t \in Sync, MintedSound(rows, t), NEW slug,
         slug \notin Minted(t)
  PROVE  RowsOf(Installed(rows, t), slug) = RowsOf(rows, slug)
<1>1. \A v \in t.retired : v \in rows /\ v.slug # slug /\ v \in Version
  BY DEF MintedSound
<1>2. \A v \in t.retired : [v EXCEPT !.active = FALSE].slug = v.slug
  BY <1>1 DEF Version
<1>3. \A m \in t.minted : m.slug # slug
  BY DEF Minted
<1>4. \A w : w \in Installed(rows, t) <=>
               \/ w \in rows \ t.retired
               \/ \E v \in t.retired : w = [v EXCEPT !.active = FALSE]
               \/ w \in t.minted
  BY DEF Installed, Retire
<1>5. \A w : w \in Installed(rows, t) /\ w.slug = slug <=> w \in rows /\ w.slug = slug
  BY <1>1, <1>2, <1>3, <1>4
<1>6. QED
  BY <1>5 DEF RowsOf

\* The others have their versions retired, and the new one.
LEMMA MintedRows ==
  ASSUME NEW rows \in SUBSET Version, NEW t \in Sync, MintedSound(rows, t),
         NEW m \in t.minted, NEW k \in Nat, Chain(RowsOf(rows, m.slug), k)
  PROVE  /\ m.number = k + 1
         /\ Chain(RowsOf(Installed(rows, t), m.slug), k + 1)
         /\ m \in RowsOf(Installed(rows, t), m.slug)
         /\ \A v \in RowsOf(rows, m.slug) :
               \E w \in RowsOf(Installed(rows, t), m.slug) :
                  w.number = v.number /\ w.graph = v.graph
<1> DEFINE old(v) == IF v \in t.retired THEN [v EXCEPT !.active = FALSE] ELSE v
           new == RowsOf(Installed(rows, t), m.slug)
           mine == RowsOf(rows, m.slug)
<1>1. m.number = k + 1 /\ m.active = TRUE /\ m.slug \in Minted(t)
  BY NextOfChain DEF MintedSound, Minted, Sync, Version
<1>2. \A v \in rows : /\ old(v).slug = v.slug /\ old(v).number = v.number
                      /\ old(v).graph = v.graph
                      /\ v.slug = m.slug => old(v).active = FALSE
  <2>1. \A v \in rows : v \in Version
    OBVIOUS
  <2>2. \A v \in rows : v.slug = m.slug => (v \in t.retired <=> v.active)
    BY <1>1 DEF MintedSound
  <2>3. QED
    BY <2>1, <2>2 DEF Version
<1>3. \A w : w \in new <=> w = m \/ \E v \in mine : w = old(v)
  <2>1. t.retired \subseteq rows
    BY DEF MintedSound
  <2>2. \A w : w \in Installed(rows, t) <=> (\E v \in rows : w = old(v)) \/ w \in t.minted
    BY <2>1 DEF Installed, Retire
  <2>3. \A w \in t.minted : w.slug = m.slug => w = m
    BY DEF MintedSound
  <2> HIDE DEF old
  <2>4. QED
    BY <1>2, <2>2, <2>3 DEF RowsOf
<1>4. /\ \A v \in mine : v \in rows /\ v.slug = m.slug
      /\ {v.number : v \in mine} = 1..k
      /\ \A v, w \in mine : v.number = w.number => v = w
  BY DEF RowsOf, Chain
<1> HIDE DEF old, new, mine
<1>5. \A w \in new : IF w = m THEN w.number = k + 1 /\ w.active = TRUE
                     ELSE w.number \in 1..k /\ w.active = FALSE
  BY <1>1, <1>2, <1>3, <1>4
<1>6. {w.number : w \in new} = 1..(k + 1)
  <2>1. \A w \in new : w.number \in 1..(k + 1)
    BY <1>5
  <2>2. \A n \in 1..(k + 1) : \E w \in new : w.number = n
    <3>1. SUFFICES ASSUME NEW n \in 1..(k + 1)  PROVE \E w \in new : w.number = n
      OBVIOUS
    <3>2. CASE n = k + 1
      BY <1>1, <1>3, <3>2
    <3>3. CASE n \in 1..k
      BY <1>2, <1>3, <1>4, <3>3
    <3>4. QED
      BY <3>2, <3>3
  <2>3. QED
    BY <2>1, <2>2
<1>7. \A v, w \in new : v.number = w.number => v = w
  <2>1. SUFFICES ASSUME NEW v \in new, NEW w \in new, v.number = w.number  PROVE v = w
    OBVIOUS
  <2>2. CASE v = m \/ w = m
    BY <1>5, <2>1, <2>2
  <2>3. CASE v # m /\ w # m
    BY <1>2, <1>3, <1>4, <2>1, <2>3
  <2>4. QED
    BY <2>2, <2>3
<1>8. \A w \in new : w.active <=> w.number = k + 1
  BY <1>5
<1>9. Chain(new, k + 1)
  BY <1>6, <1>7, <1>8 DEF Chain
<1>10. \A v \in mine : \E w \in new : w.number = v.number /\ w.graph = v.graph
  BY <1>2, <1>3, <1>4
<1>11. QED
  BY <1>1, <1>3, <1>9, <1>10 DEF new, mine

-----------------------------------------------------------------------------
(* Steps that commit nothing.                                              *)

LEMMA NoSyncType == NoSync \in Sync /\ \A t : Apart(NoSync, t)
BY DEF NoSync, Sync, PC, Apart

LEMMA NoSyncSound == \A temps, rows : SyncSound(temps, rows, NoSync)
BY DEF NoSync, SyncSound

\* What the invariant says of one process.
LEMMA OneSync ==
  ASSUME IInv, NEW p \in Process
  PROVE  /\ sync[p] \in Sync
         /\ templates \subseteq Slug /\ versions \in SUBSET Version
         /\ CatalogSound(templates, versions)
         /\ SyncSound(templates, versions, sync[p])
         /\ \A o \in Process : o # p => Apart(sync[p], sync[o])
BY DEF IInv, Typed, CatalogSound

LEMMA LocalStep ==
  ASSUME IInv, NEW p \in Process, NEW w \in Sync, sync' = [sync EXCEPT ![p] = w],
         UNCHANGED <<templates, versions>>, boots' \in 0..BootLimit,
         SyncSound(templates, versions, w),
         \A o \in Process : o # p => Apart(w, sync[o])
  PROVE  IInv'
<1>1. \A o \in Process : sync'[o] = IF o = p THEN w ELSE sync[o]
  BY DEF IInv, Typed
<1>2. Typed'
  BY DEF IInv, Typed
<1>3. CatalogSound(templates, versions)'
  BY DEF IInv
<1>4. \A o \in Process : SyncSound(templates, versions, sync[o])'
  <2>1. \A o \in Process : SyncSound(templates, versions, sync[o])
    BY DEF IInv
  <2>2. QED
    BY <1>1, <2>1
<1>5. \A o, q \in Process : o # q => Apart(sync[o], sync[q])'
  <2>1. \A o, q \in Process : o # q => Apart(sync[o], sync[q])
    BY DEF IInv
  <2>2. \A o \in Process : o # p => Apart(sync[o], w)
    BY DEF Apart
  <2>3. QED
    BY <1>1, <2>1, <2>2
<1>6. QED
  BY <1>2, <1>3, <1>4, <1>5 DEF IInv

\* A step of one process that leaves the rest as it is.
LEMMA SetInv ==
  ASSUME IInv, NEW p \in Process, NEW w \in Sync, SetSync(p, w),
         SyncSound(templates, versions, w),
         \A o \in Process : o # p => Apart(w, sync[o])
  PROVE  IInv'
<1>1. /\ sync' = [sync EXCEPT ![p] = w]
      /\ UNCHANGED <<templates, versions, boots>>
  BY DEF SetSync
<1>2. boots' \in 0..BootLimit
  BY <1>1 DEF IInv, Typed
<1>3. QED
  BY <1>1, <1>2, LocalStep

LEMMA RollbackInv == ASSUME IInv, NEW p \in Process, SetSync(p, NoSync)  PROVE IInv'
BY NoSyncType, NoSyncSound, SetInv

LEMMA BootInv ==
  ASSUME IInv, NEW p \in Process, NEW release \in Releases, Boot(p, release)
  PROVE  IInv'
<1>1. PICK queue \in SyncOrder(release) :
         sync' = [sync EXCEPT ![p] = [NoSync EXCEPT !.pc = "find", !.release = release,
                                                    !.queue = queue]]
  BY DEF Boot
<1>2. boots < BootLimit /\ boots' = boots + 1 /\ UNCHANGED <<templates, versions>>
  BY DEF Boot
<1>3. boots' \in 0..BootLimit
  BY <1>2, SyncAssumptions DEF IInv, Typed
<1>4. /\ DOMAIN release \subseteq Slug /\ DOMAIN release # {}
      /\ IsFiniteSet(DOMAIN release)
  BY ReleaseFacts
<1>5. /\ queue \in Seq(DOMAIN release) /\ ToSet(queue) = DOMAIN release
      /\ \A i, j \in DOMAIN queue : i # j => queue[i] # queue[j]
  <2>1. queue \in SetToSeqs(DOMAIN release)
    BY DEF SyncOrder
  <2>2. QED
    BY <1>4, <2>1, OrderCovers
<1>6. queue # <<>> /\ queue \in Seq(Slug)
  <2>1. \E slug \in DOMAIN release : slug \in ToSet(queue)
    BY <1>4, <1>5
  <2>2. \E i \in DOMAIN queue : TRUE
    BY <2>1 DEF ToSet
  <2>3. QED
    BY <1>4, <1>5, <2>2
<1> DEFINE w == [NoSync EXCEPT !.pc = "find", !.release = release, !.queue = queue]
<1>7. /\ w \in Sync /\ w.pc = "find" /\ w.release = release /\ w.queue = queue
      /\ w.inserted = {} /\ w.locked = {} /\ w.retired = {} /\ w.minted = {}
  BY <1>6, NoSyncType DEF NoSync, Sync, PC
<1> HIDE DEF w
<1>8. Done(w) = {}
  BY <1>5, <1>7 DEF Done
<1>9. SyncSound(templates, versions, w)
  BY <1>5, <1>6, <1>7, <1>8
     DEF SyncSound, PlaceSound, OwnedSound, MintedSound, Minted, Owned
<1>10. \A o \in Process : o # p => Apart(w, sync[o])
  BY <1>7 DEF Apart
<1>11. QED
  BY <1>1, <1>2, <1>3, <1>7, <1>9, <1>10, LocalStep DEF w

\* The pending template of an open sync.
LEMMA AtHead ==
  ASSUME NEW temps, NEW rows, NEW t \in Sync, t.pc \notin {"idle", "commit"},
         SyncSound(temps, rows, t)
  PROVE  /\ PlaceSound(temps, rows, t) /\ OwnedSound(temps, t) /\ MintedSound(rows, t)
         /\ t.queue # <<>>
         /\ Head(t.queue) \in Slug /\ Head(t.queue) \in DOMAIN t.release
         /\ Head(t.queue) \notin Done(t) /\ Head(t.queue) \notin Minted(t)
         /\ t.release \in Releases
<1>1. PlaceSound(temps, rows, t) /\ OwnedSound(temps, t) /\ MintedSound(rows, t)
  BY DEF SyncSound
<1>2. /\ t.queue \in Seq(Slug) /\ t.queue # <<>>
      /\ \A i, j \in DOMAIN t.queue : i # j => t.queue[i] # t.queue[j]
      /\ ToSet(t.queue) \subseteq DOMAIN t.release
      /\ t.release \in Releases
  BY <1>1 DEF PlaceSound, Sync
<1>3. Head(t.queue) \in ToSet(t.queue) /\ Head(t.queue) \in Slug
  BY <1>2, QueueTail
<1>4. Head(t.queue) \notin Done(t)
  BY <1>3 DEF Done
<1>5. Minted(t) \subseteq Done(t)
  BY <1>1 DEF MintedSound, Minted
<1>6. QED
  BY <1>1, <1>2, <1>3, <1>4, <1>5

LEMMA FindTemplateInv == ASSUME IInv, NEW p \in Process, FindTemplate(p)  PROVE IInv'
<1> DEFINE t == sync[p]  slug == Head(t.queue)
           pc == IF slug \in templates \cup t.inserted THEN "update" ELSE "insert"
           w == [t EXCEPT !.pc = pc]
<1>1. t.pc = "find" /\ SetSync(p, w)
  BY DEF FindTemplate, At, TemplatesSeen
<1>2. /\ t \in Sync /\ SyncSound(templates, versions, t)
      /\ \A o \in Process : o # p => Apart(t, sync[o])
  BY OneSync
<1>3. PlaceSound(templates, versions, t) /\ OwnedSound(templates, t) /\ MintedSound(versions, t)
  BY <1>1, <1>2, AtHead
<1>4. /\ pc \in {"update", "insert"}
      /\ pc = "update" => slug \in templates \cup t.inserted
  OBVIOUS
<1> HIDE DEF pc
<1>5. /\ w \in Sync /\ w.pc = pc /\ w.queue = t.queue /\ w.release = t.release
      /\ w.inserted = t.inserted /\ w.locked = t.locked /\ w.retired = t.retired
      /\ w.minted = t.minted
  BY <1>2, <1>4 DEF Sync, PC
<1> HIDE DEF w
<1>6. Done(w) = Done(t) /\ Owned(w) = Owned(t) /\ Minted(w) = Minted(t)
  BY <1>5 DEF Done, Owned, Minted
<1>7. PlaceSound(templates, versions, w)
  BY <1>1, <1>3, <1>4, <1>5 DEF PlaceSound
<1>8. OwnedSound(templates, w)
  BY <1>1, <1>3, <1>4, <1>5, <1>6 DEF OwnedSound
<1>9. MintedSound(versions, w)
  BY <1>3, <1>5, <1>6 DEF MintedSound
<1>10. SyncSound(templates, versions, w)
  BY <1>4, <1>5, <1>7, <1>8, <1>9 DEF SyncSound
<1>11. \A o \in Process : o # p => Apart(w, sync[o])
  BY <1>2, <1>5 DEF Apart
<1>12. QED
  BY <1>1, <1>5, <1>10, <1>11, SetInv

\* The row of the pending template has been written.
LEMMA TemplateWritten ==
  ASSUME IInv, NEW p \in Process, NEW w \in Sync, SetSync(p, w),
         sync[p].pc \in {"insert", "update"}, w.pc = "compare",
         w.release = sync[p].release, w.queue = sync[p].queue,
         w.retired = sync[p].retired, w.minted = sync[p].minted,
         \/ /\ w.inserted = sync[p].inserted \cup {Head(sync[p].queue)}
            /\ w.locked = sync[p].locked
            /\ Head(sync[p].queue) \notin templates
            /\ \A o \in Process \ {p} : Head(sync[p].queue) \notin sync[o].inserted
         \/ /\ w.inserted = sync[p].inserted
            /\ w.locked = sync[p].locked \cup {Head(sync[p].queue)}
            /\ Head(sync[p].queue) \in templates \cup sync[p].inserted
            /\ \A o \in Process \ {p} : Head(sync[p].queue) \notin sync[o].locked
  PROVE  IInv'
<1> DEFINE t == sync[p]  slug == Head(t.queue)
<1>1. /\ t \in Sync /\ SyncSound(templates, versions, t)
      /\ \A o \in Process : o # p => Apart(t, sync[o])
  BY OneSync
<1>2. /\ PlaceSound(templates, versions, t) /\ OwnedSound(templates, t)
      /\ MintedSound(versions, t) /\ t.queue # <<>>
  BY <1>1, AtHead
<1>3. Done(w) = Done(t) /\ Minted(w) = Minted(t) /\ Owned(w) = Owned(t) \cup {slug}
  BY DEF Done, Owned, Minted
<1>4. PlaceSound(templates, versions, w)
  BY <1>2, <1>3 DEF PlaceSound
<1>5. OwnedSound(templates, w)
  BY <1>2, <1>3 DEF OwnedSound
<1>6. MintedSound(versions, w)
  BY <1>2, <1>3 DEF MintedSound
<1>7. SyncSound(templates, versions, w)
  BY <1>4, <1>5, <1>6 DEF SyncSound
<1>8. \A o \in Process : o # p => Apart(w, sync[o])
  BY <1>1 DEF Apart
<1>9. QED
  BY <1>7, <1>8, SetInv

LEMMA InsertTemplateInv == ASSUME IInv, NEW p \in Process, InsertTemplate(p)  PROVE IInv'
<1> DEFINE t == sync[p]  slug == Head(t.queue)
           w == [t EXCEPT !.pc = "compare", !.inserted = @ \cup {slug}]
<1>1. /\ t.pc = "insert" /\ \A o \in Process \ {p} : slug \notin sync[o].inserted
      /\ SetSync(p, IF slug \in templates THEN NoSync ELSE w)
  BY DEF InsertTemplate, At
<1>2. CASE slug \in templates
  BY <1>1, <1>2, RollbackInv
<1>3. CASE slug \notin templates
  <2>1. t \in Sync /\ slug \in Slug
    BY <1>1, OneSync, AtHead
  <2>2. /\ w \in Sync /\ w.pc = "compare" /\ w.queue = t.queue /\ w.release = t.release
        /\ w.inserted = t.inserted \cup {slug} /\ w.locked = t.locked
        /\ w.retired = t.retired /\ w.minted = t.minted
    BY <2>1 DEF Sync, PC
  <2> HIDE DEF w
  <2>3. QED
    BY <1>1, <1>3, <2>2, TemplateWritten
<1>4. QED
  BY <1>2, <1>3

LEMMA UpdateTemplateInv == ASSUME IInv, NEW p \in Process, UpdateTemplate(p)  PROVE IInv'
<1> DEFINE t == sync[p]  slug == Head(t.queue)
           w == [t EXCEPT !.pc = "compare", !.locked = @ \cup {slug}]
<1>1. /\ t.pc = "update" /\ \A o \in Process \ {p} : slug \notin sync[o].locked
      /\ SetSync(p, w)
  BY DEF UpdateTemplate, At
<1>2. t \in Sync /\ slug \in Slug /\ slug \in templates \cup t.inserted
  BY <1>1, OneSync, AtHead DEF PlaceSound
<1>3. /\ w \in Sync /\ w.pc = "compare" /\ w.queue = t.queue /\ w.release = t.release
      /\ w.inserted = t.inserted /\ w.locked = t.locked \cup {slug}
      /\ w.retired = t.retired /\ w.minted = t.minted
  BY <1>2 DEF Sync, PC
<1> HIDE DEF w
<1>4. QED
  BY <1>1, <1>2, <1>3, TemplateWritten

\* The pending template is done.
LEMMA TemplateDone ==
  ASSUME IInv, NEW p \in Process, NEW w \in Sync, SetSync(p, w),
         sync[p].pc \in {"compare", "mint"},
         w.pc = (IF Len(sync[p].queue) = 1 THEN "commit" ELSE "find"),
         w.queue = Tail(sync[p].queue), w.release = sync[p].release,
         w.inserted = sync[p].inserted, w.locked = sync[p].locked,
         Done(w) = Done(sync[p]) \cup {Head(sync[p].queue)} => MintedSound(versions, w)
  PROVE  IInv'
<1> DEFINE t == sync[p]  slug == Head(t.queue)
<1>1. /\ t \in Sync /\ SyncSound(templates, versions, t)
      /\ \A o \in Process : o # p => Apart(t, sync[o])
  BY OneSync
<1>2. /\ PlaceSound(templates, versions, t) /\ OwnedSound(templates, t)
      /\ t.queue # <<>> /\ slug \in DOMAIN t.release
  BY <1>1, AtHead
<1>3. /\ t.queue \in Seq(Slug)
      /\ \A i, j \in DOMAIN t.queue : i # j => t.queue[i] # t.queue[j]
  BY <1>1, <1>2 DEF Sync, PlaceSound
<1>4. /\ slug \in ToSet(t.queue)
      /\ ToSet(w.queue) = ToSet(t.queue) \ {slug}
      /\ \A i, j \in DOMAIN w.queue : i # j => w.queue[i] # w.queue[j]
      /\ w.queue = <<>> <=> Len(t.queue) = 1
  BY <1>2, <1>3, QueueTail
<1>5. Done(w) = Done(t) \cup {slug} /\ Owned(w) = Owned(t)
  BY <1>2, <1>4 DEF Done, Owned
<1>6. slug \in Owned(t)
  BY <1>2 DEF PlaceSound
<1>7. PlaceSound(templates, versions, w)
  BY <1>2, <1>4 DEF PlaceSound
<1>8. OwnedSound(templates, w)
  BY <1>2, <1>5, <1>6 DEF OwnedSound
<1>9. MintedSound(versions, w)
  BY <1>5
<1>10. SyncSound(templates, versions, w)
  BY <1>7, <1>8, <1>9 DEF SyncSound
<1>11. \A o \in Process : o # p => Apart(w, sync[o])
  BY <1>1 DEF Apart
<1>12. QED
  BY <1>10, <1>11, SetInv

\* The record of a sync that is done with a template.
LEMMA UpsertedFields ==
  ASSUME NEW t \in Sync, t.queue # <<>>
  PROVE  /\ Upserted(t) \in Sync
         /\ Upserted(t).pc = (IF Len(t.queue) = 1 THEN "commit" ELSE "find")
         /\ Upserted(t).queue = Tail(t.queue) /\ Upserted(t).release = t.release
         /\ Upserted(t).inserted = t.inserted /\ Upserted(t).locked = t.locked
         /\ Upserted(t).retired = t.retired /\ Upserted(t).minted = t.minted
<1> DEFINE pc == IF Len(t.queue) = 1 THEN "commit" ELSE "find"
           rest == Tail(t.queue)
<1>1. rest \in Seq(Slug) /\ pc \in PC
  BY DEF Sync, PC
<1>2. Upserted(t) = [t EXCEPT !.queue = rest, !.pc = pc]
  BY DEF Upserted
<1> HIDE DEF rest, pc
<1>3. /\ Upserted(t) \in Sync /\ Upserted(t).pc = pc
      /\ Upserted(t).queue = rest /\ Upserted(t).release = t.release
      /\ Upserted(t).inserted = t.inserted /\ Upserted(t).locked = t.locked
      /\ Upserted(t).retired = t.retired /\ Upserted(t).minted = t.minted
  BY <1>1, <1>2 DEF Sync
<1>4. QED
  BY <1>3 DEF rest, pc

\* What the statements of a sync see of the pending template: what is committed.
LEMMA PendingSeen ==
  ASSUME IInv, NEW p \in Process, sync[p].pc \in {"compare", "mint"}
  PROVE  LET slug == Head(sync[p].queue) IN
         /\ RowsOf(VersionsSeen(p), slug) = RowsOf(versions, slug)
         /\ NextNumber(VersionsSeen(p), slug) = NextNumber(versions, slug)
         /\ \E k \in Nat : Chain(RowsOf(versions, slug), k)
<1> DEFINE slug == Head(sync[p].queue)
<1>1. /\ sync[p] \in Sync /\ versions \in SUBSET Version
      /\ slug \in Slug /\ slug \notin Minted(sync[p]) /\ MintedSound(versions, sync[p])
  BY OneSync, AtHead
<1>2. VersionsSeen(p) = Installed(versions, sync[p])
  BY DEF VersionsSeen, Installed
<1> HIDE DEF slug
<1>3. RowsOf(VersionsSeen(p), slug) = RowsOf(versions, slug)
  BY <1>1, <1>2, OthersKept
<1>4. Numbers(VersionsSeen(p), slug) = Numbers(versions, slug)
  BY <1>3, Zenon DEF Numbers, RowsOf
<1>5. NextNumber(VersionsSeen(p), slug) = NextNumber(versions, slug)
  BY <1>4, Zenon DEF NextNumber
<1>6. \E k \in Nat : Chain(RowsOf(versions, slug), k)
  BY <1>1, OneSync DEF CatalogSound
<1>7. QED
  BY <1>3, <1>5, <1>6 DEF slug

LEMMA CompareVersionInv == ASSUME IInv, NEW p \in Process, CompareVersion(p)  PROVE IInv'
<1> DEFINE t == sync[p]  slug == Head(t.queue)
           active == Active(VersionsSeen(p), slug)
           same == \E v \in active : /\ \A w \in active : w.number <= v.number
                                     /\ v.graph = t.release[slug]
           on == [t EXCEPT !.pc = "mint"]
<1>1. t.pc = "compare" /\ SetSync(p, IF same THEN Upserted(t) ELSE on)
  BY DEF CompareVersion, At
<1>2. /\ t \in Sync /\ SyncSound(templates, versions, t)
      /\ \A o \in Process : o # p => Apart(t, sync[o])
  BY OneSync
<1>3. /\ PlaceSound(templates, versions, t) /\ OwnedSound(templates, t)
      /\ MintedSound(versions, t)
      /\ t.queue # <<>> /\ slug \in DOMAIN t.release
      /\ slug \notin Done(t) /\ slug \notin Minted(t)
  BY <1>1, <1>2, AtHead
<1>4. same <=> Offers(RowsOf(versions, slug), t.release[slug])
  <2>1. active = {v \in RowsOf(versions, slug) : v.active}
    <3>1. active = {v \in RowsOf(VersionsSeen(p), slug) : v.active}
      BY DEF Active, RowsOf
    <3>2. QED
      BY <1>1, <3>1, PendingSeen
  <2>2. PICK k \in Nat : Chain(RowsOf(versions, slug), k)
    BY <1>1, PendingSeen
  <2>3. \A v, w \in active : v.number = k /\ w.number = k /\ w.number <= v.number
    BY <2>1, <2>2 DEF Chain
  <2> HIDE DEF slug
  <2>4. QED
    BY <2>1, <2>3 DEF Offers
<1>5. CASE same
  <2> DEFINE w == Upserted(t)
  <2>1. /\ w \in Sync
        /\ w.pc = (IF Len(t.queue) = 1 THEN "commit" ELSE "find")
        /\ w.queue = Tail(t.queue) /\ w.release = t.release
        /\ w.inserted = t.inserted /\ w.locked = t.locked
        /\ w.retired = t.retired /\ w.minted = t.minted
    BY <1>2, <1>3, UpsertedFields
  <2>2. SetSync(p, w)
    BY <1>1, <1>5
  <2>3. Offers(RowsOf(versions, slug), t.release[slug])
    BY <1>4, <1>5
  <2> HIDE DEF w
  <2>4. Minted(w) = Minted(t)
    BY <2>1 DEF Minted
  <2>5. ASSUME Done(w) = Done(t) \cup {slug}  PROVE MintedSound(versions, w)
    BY <1>3, <2>1, <2>3, <2>4, <2>5 DEF MintedSound
  <2>6. QED
    BY <1>1, <2>1, <2>2, <2>5, TemplateDone
<1>6. CASE ~same
  <2>1. /\ on \in Sync /\ on.pc = "mint" /\ on.queue = t.queue /\ on.release = t.release
        /\ on.inserted = t.inserted /\ on.locked = t.locked /\ on.retired = t.retired
        /\ on.minted = t.minted
    BY <1>2 DEF Sync, PC
  <2>2. SetSync(p, on)
    BY <1>1, <1>6
  <2>3. ~Offers(RowsOf(versions, slug), t.release[slug])
    BY <1>4, <1>6
  <2> HIDE DEF on
  <2>4. Done(on) = Done(t) /\ Owned(on) = Owned(t) /\ Minted(on) = Minted(t)
    BY <2>1 DEF Done, Owned, Minted
  <2>5. PlaceSound(templates, versions, on)
    BY <1>1, <1>3, <2>1, <2>3, <2>4 DEF PlaceSound
  <2>6. OwnedSound(templates, on)
    BY <1>1, <1>3, <2>1, <2>4 DEF OwnedSound
  <2>7. MintedSound(versions, on)
    BY <1>3, <2>1, <2>4 DEF MintedSound
  <2>8. SyncSound(templates, versions, on)
    BY <2>1, <2>5, <2>6, <2>7 DEF SyncSound
  <2>9. \A o \in Process : o # p => Apart(on, sync[o])
    BY <1>2, <2>1 DEF Apart
  <2>10. QED
    BY <2>1, <2>2, <2>8, <2>9, SetInv
<1>7. QED
  BY <1>5, <1>6

LEMMA MintVersionInv == ASSUME IInv, NEW p \in Process, MintVersion(p)  PROVE IInv'
<1> DEFINE t == sync[p]  slug == Head(t.queue)  u == Upserted(t)
           m == [slug |-> slug, number |-> NextNumber(versions, slug),
                 graph |-> t.release[slug], active |-> TRUE]
           retired == t.retired \cup Active(versions, slug)
           minted == t.minted \cup {m}
           w == [u EXCEPT !.retired = retired, !.minted = minted]
<1>1. t.pc = "mint"
  BY DEF MintVersion, At
<1>2. /\ t \in Sync /\ SyncSound(templates, versions, t)
      /\ versions \in SUBSET Version
  BY OneSync
<1>3. /\ PlaceSound(templates, versions, t)
      /\ MintedSound(versions, t)
      /\ t.queue # <<>> /\ slug \in DOMAIN t.release /\ slug \in Slug
      /\ slug \notin Done(t) /\ slug \notin Minted(t) /\ t.release \in Releases
  BY <1>1, <1>2, AtHead
<1>4. /\ u \in Sync
      /\ u.pc = (IF Len(t.queue) = 1 THEN "commit" ELSE "find")
      /\ u.queue = Tail(t.queue) /\ u.release = t.release
      /\ u.inserted = t.inserted /\ u.locked = t.locked
      /\ u.retired = t.retired /\ u.minted = t.minted
  BY <1>2, <1>3, UpsertedFields
<1>5. SetSync(p, w)
  <2>1. NextNumber(VersionsSeen(p), slug) = NextNumber(versions, slug)
    BY <1>1, PendingSeen
  <2>2. SetSync(p, [Upserted(t) EXCEPT
            !.retired = u.retired \cup Active(versions, slug),
            !.minted = u.minted \cup {[slug |-> slug, number |-> NextNumber(VersionsSeen(p), slug),
                                graph |-> t.release[slug], active |-> TRUE]}])
    BY DEF MintVersion
  <2> HIDE DEF u
  <2>3. QED
    BY <1>4, <2>1, <2>2 DEF u
<1>6. m \in Version
  <2>1. PICK k \in Nat : Chain(RowsOf(versions, slug), k)
    BY <1>1, PendingSeen
  <2>2. NextNumber(versions, slug) = k + 1
    BY <2>1, NextOfChain
  <2>3. t.release[slug] \in Graph
    BY <1>3, ReleaseFacts
  <2> HIDE DEF slug
  <2>4. QED
    BY <1>3, <2>2, <2>3 DEF Version
<1>7. /\ m.slug = slug /\ m.number = NextNumber(versions, slug)
      /\ m.graph = t.release[slug] /\ m.active
  OBVIOUS
<1> HIDE DEF m
<1>8. retired \subseteq Version /\ minted \subseteq Version
  BY <1>2, <1>6 DEF Sync, Active
<1> HIDE DEF u
<1>9. /\ w \in Sync /\ w.pc = u.pc /\ w.queue = u.queue /\ w.release = u.release
      /\ w.inserted = u.inserted /\ w.locked = u.locked
      /\ w.retired = retired /\ w.minted = minted
  <2> HIDE DEF retired, minted
  <2>1. QED
    BY <1>4, <1>8 DEF Sync
<1> HIDE DEF w
<1>10. Minted(w) = Minted(t) \cup {slug}
  BY <1>7, <1>9 DEF Minted
<1>11. ~Offers(RowsOf(versions, slug), t.release[slug])
  BY <1>1, <1>3 DEF PlaceSound
<1>12. ASSUME Done(w) = Done(t) \cup {slug}  PROVE MintedSound(versions, w)
  <2>1. \A k \in Done(w) : k \in Minted(w) <=> ~Offers(RowsOf(versions, k), w.release[k])
    BY <1>3, <1>4, <1>9, <1>10, <1>11, <1>12 DEF MintedSound
  <2>2. \A n \in w.minted : /\ n.slug \in Done(w)
                            /\ n.active /\ n.graph = w.release[n.slug]
                            /\ n.number = NextNumber(versions, n.slug)
    BY <1>3, <1>4, <1>7, <1>9, <1>12 DEF MintedSound
  <2>3. \A n, o \in w.minted : n.slug = o.slug => n = o
    <3>1. \A n \in t.minted : n.slug # slug
      BY <1>3 DEF Minted
    <3>2. QED
      BY <1>3, <1>7, <1>9, <3>1 DEF MintedSound
  <2>4. w.retired = {v \in versions : v.active /\ v.slug \in Minted(w)}
    BY <1>3, <1>9, <1>10 DEF MintedSound, Active
  <2>5. QED
    BY <2>1, <2>2, <2>3, <2>4 DEF MintedSound
<1>13. QED
  BY <1>1, <1>4, <1>5, <1>9, <1>12, TemplateDone

-----------------------------------------------------------------------------
(* A commit.                                                               *)

\* What it does to one template.
LEMMA CommitOne ==
  ASSUME NEW temps, NEW rows \in SUBSET Version, NEW t \in Sync, t.pc = "commit",
         SyncSound(temps, rows, t), NEW slug \in Slug, NEW k \in Nat,
         Chain(RowsOf(rows, slug), k), slug \in temps <=> k # 0
  PROVE  IF slug \in Minted(t)
         THEN Chain(RowsOf(Installed(rows, t), slug), k + 1) /\ slug \in temps \cup t.inserted
         ELSE /\ RowsOf(Installed(rows, t), slug) = RowsOf(rows, slug)
              /\ slug \in temps \cup t.inserted <=> slug \in temps
<1>1. MintedSound(rows, t) /\ OwnedSound(temps, t)
  BY DEF SyncSound
<1>2. CASE slug \in Minted(t)
  <2>1. PICK m \in t.minted : m.slug = slug
    BY <1>2 DEF Minted
  <2>2. Chain(RowsOf(Installed(rows, t), slug), k + 1)
    BY <1>1, <2>1, MintedRows
  <2>3. slug \in Done(t)
    BY <1>1, <2>1 DEF MintedSound
  <2>4. slug \in temps \cup t.inserted
    BY <1>1, <2>3 DEF OwnedSound, Owned
  <2>5. QED
    BY <1>2, <2>2, <2>4
<1>3. CASE slug \notin Minted(t)
  <2>1. RowsOf(Installed(rows, t), slug) = RowsOf(rows, slug)
    BY <1>1, <1>3, OthersKept
  <2>2. ASSUME slug \in t.inserted  PROVE FALSE
    <3>1. slug \in Done(t) /\ slug \notin temps
      BY <1>1, <2>2 DEF OwnedSound
    <3>2. Offers(RowsOf(rows, slug), t.release[slug])
      BY <1>1, <1>3, <3>1 DEF MintedSound
    <3>3. k = 0
      BY <3>1
    <3>4. RowsOf(rows, slug) = {}
      BY <3>3 DEF Chain
    <3>5. QED
      BY <3>2, <3>4 DEF Offers
  <2>3. QED
    BY <1>3, <2>1, <2>2
<1>4. QED
  BY <1>2, <1>3

LEMMA CommitSound ==
  ASSUME NEW temps, NEW rows, NEW t \in Sync, CatalogSound(temps, rows),
         t.pc = "commit", SyncSound(temps, rows, t)
  PROVE  CatalogSound(temps \cup t.inserted, Installed(rows, t))
<1>1. rows \in SUBSET Version /\ temps \subseteq Slug
  BY DEF CatalogSound
<1>2. temps \cup t.inserted \subseteq Slug
  BY <1>1 DEF Sync
<1>3. Installed(rows, t) \subseteq Version
  <2>1. t.retired \subseteq Version /\ t.minted \subseteq Version
    BY DEF Sync
  <2>2. \A v \in t.retired : [v EXCEPT !.active = FALSE] \in Version
    BY <2>1 DEF Version
  <2>3. QED
    BY <1>1, <2>1, <2>2 DEF Installed, Retire
<1>4. ASSUME NEW slug \in Slug
      PROVE  \E k \in Nat : /\ Chain(RowsOf(Installed(rows, t), slug), k)
                            /\ slug \in temps \cup t.inserted <=> k # 0
  <2>1. PICK k \in Nat : Chain(RowsOf(rows, slug), k) /\ (slug \in temps <=> k # 0)
    BY DEF CatalogSound
  <2>2. IF slug \in Minted(t)
        THEN Chain(RowsOf(Installed(rows, t), slug), k + 1) /\ slug \in temps \cup t.inserted
        ELSE /\ RowsOf(Installed(rows, t), slug) = RowsOf(rows, slug)
             /\ slug \in temps \cup t.inserted <=> slug \in temps
    BY <1>1, <2>1, CommitOne
  <2>3. k + 1 \in Nat /\ k + 1 # 0
    OBVIOUS
  <2>4. QED
    BY <2>1, <2>2, <2>3
<1>5. QED
  BY <1>2, <1>3, <1>4 DEF CatalogSound

\* A sync that stays open owns other templates, and is as sound as before.
LEMMA CommitKeeps ==
  ASSUME NEW temps, NEW rows \in SUBSET Version, NEW t \in Sync, NEW u \in Sync, Apart(t, u),
         t.pc = "commit", SyncSound(temps, rows, t), SyncSound(temps, rows, u)
  PROVE  SyncSound(temps \cup t.inserted, Installed(rows, t), u)
<1>1. CASE u.pc = "idle"
  BY <1>1 DEF SyncSound
<1>2. CASE u.pc # "idle"
  <2>1. MintedSound(rows, t) /\ OwnedSound(temps, t)
    BY DEF SyncSound
  <2>2. PlaceSound(temps, rows, u) /\ OwnedSound(temps, u) /\ MintedSound(rows, u)
    BY <1>2 DEF SyncSound
  <2>3. Owned(t) \cap Owned(u) = {}
    BY <2>1, <2>2 DEF Owned, OwnedSound, Apart
  <2>4. Minted(t) \subseteq Owned(t) /\ Minted(u) \subseteq Done(u) /\ Done(u) \subseteq Owned(u)
    BY <2>1, <2>2 DEF Minted, MintedSound, OwnedSound
  <2>5. \A slug \in Owned(u) : RowsOf(Installed(rows, t), slug) = RowsOf(rows, slug)
    BY <2>1, <2>3, <2>4, OthersKept
  <2>6. \A slug \in Owned(u) : NextNumber(Installed(rows, t), slug) = NextNumber(rows, slug)
    <3>1. \A slug \in Owned(u) : Numbers(Installed(rows, t), slug) = Numbers(rows, slug)
      BY <2>5, Zenon DEF Numbers, RowsOf
    <3>2. QED
      BY <3>1, Zenon DEF NextNumber
  <2>7. PlaceSound(temps \cup t.inserted, Installed(rows, t), u)
    <3>1. u.pc = "mint" => Head(u.queue) \in Owned(u)
      BY <2>2 DEF PlaceSound
    <3>2. u.pc = "mint" =>
             RowsOf(Installed(rows, t), Head(u.queue)) = RowsOf(rows, Head(u.queue))
      BY <2>5, <3>1
    <3>3. QED
      BY <2>2, <3>2 DEF PlaceSound
  <2>8. OwnedSound(temps \cup t.inserted, u)
    BY <2>2 DEF OwnedSound, Apart
  <2>9. MintedSound(Installed(rows, t), u)
    <3>1. \A slug \in Done(u) : slug \in Minted(u) <=>
                                   ~Offers(RowsOf(Installed(rows, t), slug), u.release[slug])
      BY <2>2, <2>4, <2>5 DEF MintedSound
    <3>2. \A m \in u.minted : /\ m.slug \in Done(u)
                              /\ m.active /\ m.graph = u.release[m.slug]
                              /\ m.number = NextNumber(Installed(rows, t), m.slug)
      BY <2>2, <2>4, <2>6 DEF MintedSound
    <3>3. u.retired = {v \in Installed(rows, t) : v.active /\ v.slug \in Minted(u)}
      <4>1. \A slug \in Minted(u) : RowsOf(Installed(rows, t), slug) = RowsOf(rows, slug)
        BY <2>4, <2>5
      <4>2. \A v : v.slug \in Minted(u) => (v \in Installed(rows, t) <=> v \in rows)
        BY <4>1 DEF RowsOf
      <4>3. u.retired = {v \in rows : v.active /\ v.slug \in Minted(u)}
        BY <2>2 DEF MintedSound
      <4>4. QED
        BY <4>2, <4>3
    <3>4. QED
      BY <2>2, <3>1, <3>2, <3>3 DEF MintedSound
  <2>10. QED
    BY <1>2, <2>7, <2>8, <2>9 DEF SyncSound
<1>3. QED
  BY <1>1, <1>2

LEMMA CommitInv == ASSUME IInv, NEW p \in Process, Commit(p)  PROVE IInv'
<1> DEFINE t == sync[p]
<1>1. /\ t.pc = "commit" /\ templates' = templates \cup t.inserted
      /\ versions' = Installed(versions, t)
      /\ sync' = [sync EXCEPT ![p] = NoSync] /\ boots' = boots
  BY DEF Commit, At, TemplatesSeen, VersionsSeen, Installed
<1>2. /\ t \in Sync /\ SyncSound(templates, versions, t) /\ versions \in SUBSET Version
      /\ CatalogSound(templates, versions)
      /\ \A o \in Process : o # p => Apart(t, sync[o])
  BY OneSync
<1>3. \A o \in Process : sync'[o] = IF o = p THEN NoSync ELSE sync[o]
  BY <1>1 DEF IInv, Typed
<1>4. Typed'
  BY <1>1, NoSyncType DEF IInv, Typed
<1>5. CatalogSound(templates, versions)'
  BY <1>1, <1>2, CommitSound
<1>6. \A o \in Process : SyncSound(templates, versions, sync[o])'
  <2>1. \A o \in Process : o # p =>
           SyncSound(templates \cup t.inserted, Installed(versions, t), sync[o])
    BY <1>1, <1>2, OneSync, CommitKeeps
  <2>2. QED
    BY <1>1, <1>3, <2>1, NoSyncSound
<1>7. \A o, q \in Process : o # q => Apart(sync[o], sync[q])'
  <2>1. \A o, q \in Process : o # q => Apart(sync[o], sync[q])
    BY DEF IInv
  <2>2. \A o \in Process : Apart(NoSync, sync[o]) /\ Apart(sync[o], NoSync)
    BY DEF Apart, NoSync
  <2>3. QED
    BY <1>3, <2>1, <2>2
<1>8. QED
  BY <1>4, <1>5, <1>6, <1>7 DEF IInv

-----------------------------------------------------------------------------
(* The theorems.                                                           *)

LEMMA InitInv == Init => IInv
<1> SUFFICES ASSUME Init  PROVE IInv
  OBVIOUS
<1>1. templates = {} /\ versions = {} /\ sync = [p \in Process |-> NoSync] /\ boots = 0
  BY DEF Init
<1>2. Typed
  BY <1>1, NoSyncType, SyncAssumptions DEF Typed
<1>3. CatalogSound({}, {})
  <2>1. \A slug : RowsOf({}, slug) = {}
    BY DEF RowsOf
  <2>2. Chain({}, 0)
    BY DEF Chain
  <2>3. QED
    BY <2>1, <2>2 DEF CatalogSound
<1>4. \A p \in Process : SyncSound(templates, versions, sync[p])
  BY <1>1, NoSyncSound
<1>5. QED
  BY <1>1, <1>2, <1>3, <1>4, NoSyncType DEF IInv

LEMMA NextInv == IInv /\ [Next]_vars => IInv'
<1> SUFFICES ASSUME IInv, [Next]_vars  PROVE IInv'
  OBVIOUS
<1>1. CASE UNCHANGED vars
  BY <1>1 DEF vars, IInv, Typed
<1>2. ASSUME NEW p \in Process, NEW release \in Releases, Boot(p, release)  PROVE IInv'
  BY <1>2, BootInv
<1>3. ASSUME NEW p \in Process, Step(p)  PROVE IInv'
  BY <1>3, FindTemplateInv, InsertTemplateInv, UpdateTemplateInv, CompareVersionInv,
     MintVersionInv, CommitInv DEF Step
<1>4. ASSUME NEW p \in Process, Rollback(p)  PROVE IInv'
  BY <1>4, RollbackInv DEF Rollback
<1>5. QED
  BY <1>1, <1>2, <1>3, <1>4 DEF Next

\* The inductive invariant: what is committed, what each open sync has written,
\* and the unique index and row locks that keep the syncs apart.
THEOREM Inductive == Spec => []IInv
BY InitInv, NextInv, PTL DEF Spec

\* Every variable keeps its type.
THEOREM TypeCorrect == Spec => []TypeOK
<1>1. IInv => TypeOK
  BY DEF IInv, Typed, CatalogSound, Sync, PC, TypeOK
<1>2. QED
  BY <1>1, Inductive, PTL

\* However many processes sync at once, and with whatever builds, each template
\* offers exactly one version, its newest, and versions have no gaps.
THEOREM OneVersionOnOffer == Spec => []OneActiveVersion
<1>1. IInv => OneActiveVersion
  <2> SUFFICES ASSUME IInv, NEW slug \in templates
               PROVE  LET mine == {v \in versions : v.slug = slug} IN
                      /\ Numbers(versions, slug) = 1..Cardinality(mine)
                      /\ {v.number : v \in Active(versions, slug)} = {Cardinality(mine)}
    BY DEF OneActiveVersion
  <2> DEFINE mine == RowsOf(versions, slug)
  <2>1. slug \in Slug /\ CatalogSound(templates, versions)
    BY DEF IInv, CatalogSound
  <2>2. PICK k \in Nat : Chain(mine, k) /\ k # 0
    BY <2>1 DEF CatalogSound
  <2>3. Cardinality(mine) = k
    BY <2>2, ChainLength
  <2>4. Numbers(versions, slug) = 1..k
    BY <2>2 DEF Chain, Numbers, RowsOf
  <2>5. Active(versions, slug) = {v \in mine : v.active}
    BY DEF Active, RowsOf
  <2>6. mine = {v \in versions : v.slug = slug}
    BY DEF RowsOf
  <2> HIDE DEF mine
  <2>7. {v.number : v \in {v \in mine : v.active}} = {k}
    <3>1. k \in 1..k
      BY <2>2
    <3>2. \E v \in mine : v.number = k
      BY <2>2, <3>1 DEF Chain
    <3>3. \A v \in mine : v.active <=> v.number = k
      BY <2>2 DEF Chain
    <3>4. QED
      BY <3>2, <3>3
  <2>8. QED
    BY <2>3, <2>4, <2>5, <2>6, <2>7
<1>2. QED
  BY <1>1, Inductive, PTL

-----------------------------------------------------------------------------
(* The refinement.                                                         *)

\* The history of a template whose versions are a chain.
LEMMA HistoryFields ==
  ASSUME NEW rows \in SUBSET Version, NEW slug, NEW k \in Nat, Chain(RowsOf(rows, slug), k)
  PROVE  /\ HistoryOf(rows, slug) \in Seq(Graph)
         /\ Len(HistoryOf(rows, slug)) = k
         /\ \A v \in RowsOf(rows, slug) :
               v.number \in 1..k /\ HistoryOf(rows, slug)[v.number] = v.graph
         /\ \A n \in 1..k : \E v \in RowsOf(rows, slug) : v.number = n
<1> DEFINE mine == RowsOf(rows, slug)
           at(n) == CHOOSE v \in mine : v.number = n
<1>1. Cardinality(mine) = k
  BY ChainLength
<1>2. HistoryOf(rows, slug) = [n \in 1..k |-> at(n).graph]
  <2>1. HistoryOf(rows, slug) = [n \in 1..Cardinality(mine) |-> at(n).graph]
    BY DEF HistoryOf, RowsOf
  <2>2. QED
    BY <1>1, <2>1
<1>3. \A n \in 1..k : \E v \in mine : v.number = n
  BY DEF Chain
<1>4. \A n \in 1..k : at(n) \in mine /\ at(n).number = n
  BY <1>3
<1>5. \A v \in mine : v.graph \in Graph
  BY DEF RowsOf, Version
<1>6. \A v \in mine : v.number \in 1..k /\ at(v.number) = v
  BY <1>4 DEF Chain
<1> HIDE DEF mine, at
<1>7. HistoryOf(rows, slug) \in [1..k -> Graph]
  BY <1>2, <1>4, <1>5
<1>8. HistoryOf(rows, slug) \in Seq(Graph) /\ Len(HistoryOf(rows, slug)) = k
  BY <1>7
<1>9. QED
  BY <1>2, <1>3, <1>6, <1>8 DEF mine

\* A history depends on nothing but the rows of its own template.
LEMMA SameHistory ==
    ASSUME NEW rows, NEW others, NEW slug, RowsOf(rows, slug) = RowsOf(others, slug)
    PROVE  HistoryOf(rows, slug) = HistoryOf(others, slug)
<1> DEFINE Told(mine) ==
        [n \in 1..Cardinality(mine) |-> (CHOOSE v \in mine : v.number = n).graph]
<1>1. HistoryOf(rows, slug) = Told(RowsOf(rows, slug))
  BY Zenon DEF HistoryOf, RowsOf
<1>2. HistoryOf(others, slug) = Told(RowsOf(others, slug))
  BY Zenon DEF HistoryOf, RowsOf
<1> HIDE DEF Told
<1>3. QED
  BY <1>1, <1>2

\* A commit gives each template of its release the graph it registers, if that
\* is not the last one, and leaves the other templates alone.
LEMMA CommitHistory ==
  ASSUME IInv, NEW p \in Process, sync[p].pc = "commit", NEW slug \in Slug
  PROVE  HistoryOf(Installed(versions, sync[p]), slug) =
            IF slug \in DOMAIN sync[p].release
            THEN Catalog!Extended(HistoryOf(versions, slug), sync[p].release[slug])
            ELSE HistoryOf(versions, slug)
<1> DEFINE t == sync[p]  new == Installed(versions, t)
           old == HistoryOf(versions, slug)
<1>1. /\ t \in Sync /\ SyncSound(templates, versions, t) /\ versions \in SUBSET Version
      /\ CatalogSound(templates, versions)
  BY OneSync
<1>2. PlaceSound(templates, versions, t) /\ MintedSound(versions, t)
  BY <1>1 DEF SyncSound
<1>3. Done(t) = DOMAIN t.release
  <2>1. t.queue = <<>>
    BY <1>2 DEF PlaceSound
  <2>2. QED
    BY <2>1 DEF Done, ToSet
<1>4. PICK k \in Nat : Chain(RowsOf(versions, slug), k) /\ (slug \in templates <=> k # 0)
  BY <1>1 DEF CatalogSound
<1>5. /\ old \in Seq(Graph) /\ Len(old) = k
      /\ \A v \in RowsOf(versions, slug) : v.number \in 1..k /\ old[v.number] = v.graph
      /\ \A n \in 1..k : \E v \in RowsOf(versions, slug) : v.number = n
  BY <1>1, <1>4, HistoryFields
<1> HIDE DEF old
<1>6. \A graph : Offers(RowsOf(versions, slug), graph) <=> old # <<>> /\ old[Len(old)] = graph
  <2>1. \A v \in RowsOf(versions, slug) : v.active <=> v.number = k
    BY <1>4 DEF Chain
  <2>2. ASSUME NEW graph, Offers(RowsOf(versions, slug), graph)
        PROVE  old # <<>> /\ old[Len(old)] = graph
    <3>1. PICK v \in RowsOf(versions, slug) : v.number = k /\ v.graph = graph
      BY <2>1, <2>2 DEF Offers
    <3>2. QED
      BY <1>5, <3>1
  <2>3. ASSUME NEW graph, old # <<>>, old[Len(old)] = graph
        PROVE  Offers(RowsOf(versions, slug), graph)
    <3>1. k \in 1..k
      BY <1>5, <2>3
    <3>2. PICK v \in RowsOf(versions, slug) : v.number = k
      BY <1>5, <3>1
    <3>3. v.graph = graph
      BY <1>5, <2>3, <3>2
    <3>4. QED
      BY <2>1, <3>2, <3>3 DEF Offers
  <2>4. QED
    BY <2>2, <2>3
<1>7. CASE slug \in Minted(t)
  <2>1. PICK m \in t.minted : m.slug = slug
    BY <1>7 DEF Minted
  <2>2. slug \in Done(t) /\ m.graph = t.release[slug]
        /\ ~Offers(RowsOf(versions, slug), t.release[slug])
    BY <1>2, <1>7, <2>1 DEF MintedSound
  <2>3. /\ m.number = k + 1
        /\ Chain(RowsOf(new, slug), k + 1)
        /\ m \in RowsOf(new, slug)
        /\ \A v \in RowsOf(versions, slug) :
              \E w \in RowsOf(new, slug) : w.number = v.number /\ w.graph = v.graph
    BY <1>1, <1>2, <1>4, <2>1, MintedRows
  <2>4. new \in SUBSET Version
    BY <1>1, CommitSound DEF CatalogSound
  <2> DEFINE now == HistoryOf(new, slug)
  <2>5. /\ now \in Seq(Graph) /\ Len(now) = k + 1
        /\ \A v \in RowsOf(new, slug) : now[v.number] = v.graph
    BY <2>3, <2>4, HistoryFields
  <2> HIDE DEF now, new
  <2>6. m.graph \in Graph
    BY <1>1, <2>1 DEF Sync, Version
  <2>7. now[k + 1] = m.graph /\ \A n \in 1..k : now[n] = old[n]
    BY <1>5, <2>3, <2>5
  <2>8. now = Append(old, m.graph)
    <3>1. /\ Append(old, m.graph) \in Seq(Graph) /\ Len(Append(old, m.graph)) = k + 1
          /\ \A n \in 1..k : Append(old, m.graph)[n] = old[n]
          /\ Append(old, m.graph)[k + 1] = m.graph
      BY <1>5, <2>6, AppendProperties
    <3>2. \A n \in 1..(k + 1) : now[n] = Append(old, m.graph)[n]
      <4>1. \A n \in 1..(k + 1) : n \in 1..k \/ n = k + 1
        OBVIOUS
      <4>2. QED
        BY <2>7, <3>1, <4>1
    <3>3. QED
      BY <2>5, <3>1, <3>2, SeqEqual
  <2>9. Catalog!Extended(old, t.release[slug]) = Append(old, t.release[slug])
    BY <1>6, <2>2 DEF Catalog!Extended, Catalog!Last
  <2>10. now = Catalog!Extended(old, t.release[slug]) /\ slug \in DOMAIN t.release
    BY <1>3, <2>2, <2>8, <2>9
  <2>11. QED
    BY <2>10 DEF now, new, old
<1>8. CASE slug \notin Minted(t)
  <2>1. RowsOf(new, slug) = RowsOf(versions, slug)
    BY <1>1, <1>2, <1>8, OthersKept
  <2>2. HistoryOf(new, slug) = old
    BY <2>1, SameHistory DEF old
  <2>3. slug \in DOMAIN t.release => Offers(RowsOf(versions, slug), t.release[slug])
    BY <1>2, <1>3, <1>8 DEF MintedSound
  <2>4. slug \in DOMAIN t.release => Catalog!Extended(old, t.release[slug]) = old
    BY <1>6, <2>3 DEF Catalog!Extended, Catalog!Last
  <2> HIDE DEF new
  <2>5. QED
    BY <2>2, <2>4 DEF new, old
<1>9. QED
  BY <1>7, <1>8

\* Processes that sync at the same time implement the template catalog: every
\* committed sync is one installation of a whole release.
THEOREM SyncsInstallReleases == Spec => ImplementsCatalog
<1> DEFINE history == [slug \in Slug |-> HistoryOf(versions, slug)]
<1>1. Init => Catalog!Init
  <2> SUFFICES ASSUME Init  PROVE Catalog!Init
    OBVIOUS
  <2>1. versions = {} /\ versions \in SUBSET Version
    BY DEF Init
  <2>2. \A slug : Chain(RowsOf(versions, slug), 0)
    BY <2>1 DEF RowsOf, Chain
  <2>3. \A slug : HistoryOf(versions, slug) \in Seq(Graph) /\ Len(HistoryOf(versions, slug)) = 0
    BY <2>1, <2>2, HistoryFields
  <2>4. \A slug : HistoryOf(versions, slug) = <<>>
    BY <2>3
  <2>5. QED
    BY <2>4 DEF Catalog!Init
<1>2. IInv /\ [Next]_vars => [Catalog!Next]_history
  <2> SUFFICES ASSUME IInv, [Next]_vars  PROVE Catalog!Next \/ UNCHANGED history
    OBVIOUS
  <2>1. ASSUME UNCHANGED versions  PROVE UNCHANGED history
    BY <2>1
  <2>2. ASSUME NEW p \in Process, Commit(p)  PROVE Catalog!Next
    <3> DEFINE t == sync[p]
    <3>1. t.pc = "commit" /\ versions' = Installed(versions, t)
      BY <2>2 DEF Commit, At, VersionsSeen, Installed
    <3>2. t.release \in Releases
      <4>1. PlaceSound(templates, versions, t)
        BY <3>1, OneSync DEF SyncSound
      <4>2. QED
        BY <4>1 DEF PlaceSound
    <3>3. \A slug \in Slug :
             HistoryOf(versions', slug) =
                IF slug \in DOMAIN t.release
                THEN Catalog!Extended(HistoryOf(versions, slug), t.release[slug])
                ELSE HistoryOf(versions, slug)
      BY <3>1, CommitHistory
    <3>4. Catalog!Install(t.release)
      BY <3>3 DEF Catalog!Install
    <3>5. QED
      BY <3>2, <3>4 DEF Catalog!Next
  <2>3. ASSUME NEW p \in Process, NEW release \in Releases, Boot(p, release)
        PROVE  UNCHANGED versions
    BY <2>3 DEF Boot
  <2>4. ASSUME NEW p \in Process, Step(p), ~Commit(p)  PROVE UNCHANGED versions
    BY <2>4 DEF Step, FindTemplate, InsertTemplate, UpdateTemplate, CompareVersion,
                MintVersion, SetSync
  <2>5. ASSUME NEW p \in Process, Rollback(p)  PROVE UNCHANGED versions
    BY <2>5 DEF Rollback, SetSync
  <2>6. CASE UNCHANGED vars
    BY <2>1, <2>6 DEF vars
  <2>7. QED
    BY <2>1, <2>2, <2>3, <2>4, <2>5, <2>6 DEF Next
<1>3. QED
  BY <1>1, <1>2, Inductive, PTL DEF Spec, ImplementsCatalog, Catalog!Spec
=============================================================================
