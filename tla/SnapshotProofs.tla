--------------------------- MODULE SnapshotProofs ---------------------------
(***************************************************************************)
(* Proofs about Netlist, continued: copies, the rollback to a snapshot,    *)
(* the properties of every sequence of calls, the sources of pins behind   *)
(* buffers, and the floating subnets.                                      *)
(***************************************************************************)
EXTENDS NetlistProofs, FloatingSubnet

\* Zenon, unless a step names another prover.
USE ZenonT(20)

-----------------------------------------------------------------------------
(* Copies.                                                                 *)

\* A netlist without models.
LEMMA EmptyChunks ==
    ASSUME NEW T
    PROVE  <<>> \in ChunksOf(T) /\ SlotsIn(<<>>) = {} /\ LiveIn(<<>>) = {} /\ Counted(<<>>)
<1>1. <<>> \in ChunksOf(T)
  <2>1. <<>> \in Seq([slots : Seq(T), nulls : 0..(SizeMod - 1)]) /\ Len(<<>>) = 0  BY SMT
  <2> QED BY <2>1, SMT DEF ChunksOf
<1>2. 1..Len(<<>>) = {}  BY SMT
<1> QED BY <1>1, <1>2 DEF SlotsIn, LiveIn, Counted

\* The slots at some places, in the order of the places.
LEMMA ListingFacts ==
    ASSUME NEW n, NEW N, n.models \in ChunksOf(SlotOf(N)), NEW P \in SUBSET Slots(n)
    PROVE  /\ Listing(n, P) \in Seq(SlotOf(N)) /\ Len(Listing(n, P)) = Cardinality(P)
           /\ Cardinality(P) \in Nat /\ P \in SUBSET (Nat \X Nat) /\ IsFiniteSet(P)
           /\ \A i \in 1..Cardinality(P) : Listing(n, P)[i] = SlotAt(n.models, InOrder(P)[i])
<1> DEFINE w == Cardinality(P)
<1>1. /\ SlotsIn(n.models) \in SUBSET (Nat \X Nat) /\ IsFiniteSet(SlotsIn(n.models))
      /\ Slots(n) = SlotsIn(n.models)
  BY SlotsFinite DEF Slots
<1>2. P \in SUBSET (Nat \X Nat) /\ IsFiniteSet(P)  BY <1>1, FS_Subset
<1>3. w \in Nat /\ InOrder(P) \in [1..w -> P]  BY <1>2, InOrderBijective
<1> HIDE DEF w
<1>4. Listing(n, P) = [i \in 1..w |-> SlotAt(n.models, InOrder(P)[i])]  BY <1>3 DEF Listing, At
<1>5. \A i \in 1..w : SlotAt(n.models, InOrder(P)[i]) \in SlotOf(N)  BY <1>1, <1>3, ChunkFacts, SMT
<1>6. Listing(n, P) \in [1..w -> SlotOf(N)]  BY <1>4, <1>5
<1> QED BY <1>2, <1>3, <1>4, <1>6, SMTT(30) DEF w

\* copy_with_node_ptr() keeps every slot but for the address of its model.
LEMMA CopyFacts ==
    ASSUME NEW N, NEW slots \in Seq(SlotOf(N)), NEW ids \in [1..Len(slots) -> Nat \ {0}]
    PROVE  LET r == CopyWithNodePtr(slots, ids)
           IN  /\ r \in Seq(SlotOf(N)) /\ Len(r) = Len(slots)
               /\ \A i \in 1..Len(slots) :
                    /\ r[i].type = slots[i].type /\ r[i].kind = slots[i].kind /\ r[i].nodes = slots[i].nodes
                    /\ r[i].type = "normal" => r[i].id = ids[i]
<1> DEFINE w == Len(slots)
           e(i) == IF slots[i].type = "normal" THEN [slots[i] EXCEPT !.id = ids[i]] ELSE slots[i]
           r == CopyWithNodePtr(slots, ids)
<1>0. w \in Nat /\ \A i \in 1..w : slots[i] \in SlotOf(N)  BY SMT
<1>1. ASSUME NEW i \in 1..w
      PROVE  /\ e(i) \in SlotOf(N)
             /\ e(i).type = slots[i].type /\ e(i).kind = slots[i].kind /\ e(i).nodes = slots[i].nodes
             /\ e(i).type = "normal" => e(i).id = ids[i]
  <2>1. CASE slots[i].type = "normal"
    <3> DEFINE s == slots[i]
    <3>1. /\ s = [type |-> "normal", kind |-> s.kind, id |-> s.id, nodes |-> s.nodes]
          /\ s.kind \in DOMAIN Devices
          /\ s.nodes \in [1..Devices[s.kind].pins -> N \cup {Nullptr}]
      BY <1>0, <2>1, SlotFacts
    <3>2. e(i) = [s EXCEPT !.id = ids[i]]  BY <2>1
    <3>3. e(i) = [type |-> "normal", kind |-> s.kind, id |-> ids[i], nodes |-> s.nodes]
      <4> HIDE DEF e, s
      <4> QED BY <3>1, <3>2, SMT
    <3>4. e(i) \in SlotOf(N)
      <4> HIDE DEF e, s
      <4> QED BY <3>1, <3>3, SlotIntro, SMT
    <3> HIDE DEF e
    <3> QED BY <2>1, <3>3, <3>4, SMT
  <2>2. CASE slots[i].type # "normal"
    BY <1>0, <2>2
  <2> QED BY <2>1, <2>2
<1>2. r = [i \in 1..w |-> e(i)]  BY DEF CopyWithNodePtr
<1> HIDE DEF r, e
<1>3. r \in [1..w -> SlotOf(N)]  BY <1>1, <1>2
<1> HIDE DEF w
<1>4. r \in Seq(SlotOf(N)) /\ Len(r) = w  BY <1>0, <1>3, SMT
<1> QED BY <1>1, <1>2, <1>4 DEF w, r

\* new holds the live models of m where they were, and beside them models of set S.
Grown(m, new, S) ==
    /\ \A q \in LiveIn(m) : q \in LiveIn(new) /\ SlotAt(new, q) = SlotAt(m, q)
    /\ \A q \in LiveIn(new) : q \in LiveIn(m) \/ SlotAt(new, q) \in S

\* Appending models of addresses of their own to chunks.
LEMMA ExtendEffect ==
    ASSUME NEW N, NEW m \in ChunksOf(SlotOf(N)), UniqueIn(m), NEW slots \in Seq(SlotOf(N)),
           \A i, j \in 1..Len(slots) :
              slots[i].type = "normal" /\ slots[j].type = "normal" /\ slots[i].id = slots[j].id => i = j,
           \A i \in 1..Len(slots), p \in LiveIn(m) : slots[i].type = "normal" => slots[i].id # SlotAt(m, p).id
    PROVE  LET new == EmplaceAll(m, slots)
           IN  /\ new \in ChunksOf(SlotOf(N)) /\ UniqueIn(new) /\ Keeps(m, new)
               /\ Grown(m, new, Range(slots))
               /\ \A pin, k : Holds(new, pin, k) <=> Holds(m, pin, k) \/ pin \in PinsOfSlots(Range(slots), k)
               /\ Counted(m) /\ (\A i \in 1..Len(slots) : slots[i].type = "normal") => Counted(new)
<1> DEFINE new == EmplaceAll(m, slots)
           w == Len(slots)
<1>1. /\ new \in ChunksOf(SlotOf(N))
      /\ \E pos : PlacedAll(m, new, pos, slots, w)
      /\ Counted(m) /\ (\A i \in 1..w : slots[i].type = "normal") => Counted(new)
  BY EmplaceAllEffect
<1>2. PICK pos : PlacedAll(m, new, pos, slots, w)  BY <1>1
<1> HIDE DEF new
<1>3. \A q : q \in LiveIn(new) <=> q \in LiveIn(m) \/ \E i \in 1..w : q = pos[i] /\ slots[i].type = "normal"
  BY <1>2, SMT DEF PlacedAll, LiveIn
<1>4. /\ \A q \in LiveIn(m) : SlotAt(new, q) = SlotAt(m, q)
      /\ \A i \in 1..w : SlotAt(new, pos[i]) = slots[i]
  BY <1>2 DEF PlacedAll, LiveIn
<1>5. UniqueIn(new) /\ Keeps(m, new)
  BY <1>3, <1>4, SMT DEF UniqueIn, Keeps
<1>6. w \in Nat /\ DOMAIN slots = 1..w /\ \A i \in 1..w : slots[i] \in SlotOf(N)  BY SMT
<1>7. \A i \in 1..w : slots[i].type # "normal" => DOMAIN slots[i].nodes = {}
  <2>1. DOMAIN NullSlot.nodes = {}  BY SMT DEF NullSlot
  <2> QED BY <1>6, <2>1, SlotFacts
<1>8. ASSUME NEW pin, NEW k
      PROVE  Holds(new, pin, k) <=> Holds(m, pin, k) \/ pin \in PinsOfSlots(Range(slots), k)
  <2>1. pin \in PinsOfSlots(Range(slots), k) <=>
            \E i \in 1..w : \E j \in DOMAIN slots[i].nodes : pin = <<slots[i].id, j>> /\ slots[i].nodes[j] = k
    <3>1. \A s : s \in Range(slots) <=> \E i \in 1..w : s = slots[i]  BY <1>6 DEF Range
    <3>2. pin \in PinsOfSlots(Range(slots), k) <=>
            \E s \in Range(slots) : \E j \in DOMAIN s.nodes : pin = <<s.id, j>> /\ s.nodes[j] = k
      BY SMT DEF PinsOfSlots, PinsOn
    <3> QED BY <3>1, <3>2, SMT
  <2>2. ASSUME Holds(new, pin, k) PROVE Holds(m, pin, k) \/ pin \in PinsOfSlots(Range(slots), k)
    <3>1. PICK q \in LiveIn(new) : \E j \in DOMAIN SlotAt(new, q).nodes :
                pin = <<SlotAt(new, q).id, j>> /\ SlotAt(new, q).nodes[j] = k
      BY <2>2 DEF Holds
    <3>2. CASE q \in LiveIn(m)  BY <1>4, <3>1, <3>2 DEF Holds
    <3>3. CASE q \notin LiveIn(m)
      <4>1. PICK i \in 1..w : q = pos[i]  BY <1>3, <3>3
      <4> QED BY <1>4, <2>1, <3>1, <4>1
    <3> QED BY <3>2, <3>3
  <2>3. ASSUME Holds(m, pin, k) PROVE Holds(new, pin, k)
    BY <1>3, <1>4, <2>3, SMT DEF Holds
  <2>4. ASSUME pin \in PinsOfSlots(Range(slots), k) PROVE Holds(new, pin, k)
    <3>1. PICK i \in 1..w : \E j \in DOMAIN slots[i].nodes : pin = <<slots[i].id, j>> /\ slots[i].nodes[j] = k
      BY <2>1, <2>4
    <3>2. slots[i].type = "normal"  BY <1>7, <3>1
    <3>3. pos[i] \in LiveIn(new)  BY <1>3, <3>2
    <3> QED BY <1>4, <3>1, <3>3 DEF Holds
  <2> QED BY <2>2, <2>3, <2>4
<1>9. Grown(m, new, Range(slots))
  <2>1. \A i \in 1..w : slots[i] \in Range(slots)  BY <1>6 DEF Range
  <2> QED BY <1>3, <1>4, <2>1, SMT DEF Grown
<1> QED BY <1>1, <1>5, <1>8, <1>9 DEF new

\* The connections, by the order of the live models.
LEMMA ConnectionsFacts ==
    ASSUME NEW n, NEW N, n.models \in ChunksOf(SlotOf(N))
    PROVE  LET L == LiveIn(n.models)
           IN  /\ L \in SUBSET (Nat \X Nat) /\ IsFiniteSet(L) /\ Cardinality(L) \in Nat
               /\ Connections(n) = [i \in 1..Cardinality(L) |->
                     <<SlotAt(n.models, InOrder(L)[i]).kind, SlotAt(n.models, InOrder(L)[i]).nodes>>]
<1> DEFINE L == LiveIn(n.models)
           w == Cardinality(L)
           live == Listing(n, L)
<1>1. Live(n) = L /\ L \in SUBSET Slots(n)  BY DEF Live, LiveIn, Slots, At
<1> HIDE DEF L
<1>2. /\ Len(live) = w /\ w \in Nat /\ L \in SUBSET (Nat \X Nat) /\ IsFiniteSet(L)
      /\ \A i \in 1..w : live[i] = SlotAt(n.models, InOrder(L)[i])
  BY <1>1, ListingFacts
<1>3. Connections(n) = [i \in 1..Len(live) |-> <<live[i].kind, live[i].nodes>>]
  BY <1>1 DEF Connections
<1> HIDE DEF live, w
<1>4. Connections(n) = [i \in 1..w |-> <<SlotAt(n.models, InOrder(L)[i]).kind, SlotAt(n.models, InOrder(L)[i]).nodes>>]
  BY <1>2, <1>3
<1> QED BY <1>2, <1>4 DEF L, w

\* Building chunks from copies of the models at the places P, which miss no live one.
LEMMA RebuildEffect ==
    ASSUME NEW src, Sound(src), NEW P \in SUBSET Slots(src), Live(src) \subseteq P, NEW r,
           r.models = EmplaceAll(<<>>, CopyWithNodePtr(Listing(src, P), [i \in 1..Len(Listing(src, P)) |-> i]))
    PROVE  LET slots == CopyWithNodePtr(Listing(src, P), [i \in 1..Len(Listing(src, P)) |-> i])
           IN  /\ slots \in Seq(SlotOf(Nodes(src)))
               /\ r.models \in ChunksOf(SlotOf(Nodes(src))) /\ UniqueIn(r.models)
               /\ \A pin, k : Holds(r.models, pin, k) <=> pin \in PinsOfSlots(Range(slots), k)
               /\ P = Live(src) => Counted(r.models)
               /\ Connections(r) = Connections(src)
<1> DEFINE T == SlotOf(Nodes(src))
           all == Listing(src, P)
           ids == [i \in 1..Len(all) |-> i]
           slots == CopyWithNodePtr(all, ids)
           w == Cardinality(P)
           new == r.models
           order == InOrder(P)
           L == LiveIn(src.models)
           M == Cardinality(L)
           oL == InOrder(L)
<1>0. src.models \in ChunksOf(T) /\ Live(src) = L /\ L \subseteq P  BY SoundFacts
<1>1. /\ all \in Seq(T) /\ Len(all) = w /\ w \in Nat /\ P \in SUBSET (Nat \X Nat) /\ IsFiniteSet(P)
      /\ \A i \in 1..w : all[i] = SlotAt(src.models, order[i])
  BY <1>0, ListingFacts
<1>2. ids \in [1..Len(all) -> Nat \ {0}] /\ \A i \in 1..w : ids[i] = i
  <2> HIDE DEF all
  <2>1. \A i \in 1..Len(all) : i \in Nat \ {0}  BY SMT
  <2> QED BY <1>1, <2>1
<1> HIDE DEF all, ids
<1>3. /\ slots \in Seq(T) /\ Len(slots) = w
      /\ \A i \in 1..w : /\ slots[i].type = all[i].type /\ slots[i].kind = all[i].kind
                         /\ slots[i].nodes = all[i].nodes
                         /\ slots[i].type = "normal" => slots[i].id = i
  <2>1. /\ slots \in Seq(T) /\ Len(slots) = Len(all)
        /\ \A i \in 1..Len(all) : /\ slots[i].type = all[i].type /\ slots[i].kind = all[i].kind
                                  /\ slots[i].nodes = all[i].nodes
                                  /\ slots[i].type = "normal" => slots[i].id = ids[i]
    BY <1>1, <1>2, CopyFacts, SMT
  <2> QED BY <1>1, <1>2, <2>1
<1>e. new = EmplaceAll(<<>>, slots)  BY DEF all, ids
<1> HIDE DEF slots, new, T, w, order
<1>4. <<>> \in ChunksOf(T) /\ LiveIn(<<>>) = {} /\ UniqueIn(<<>>) /\ Counted(<<>>) /\ \A pin, k : ~Holds(<<>>, pin, k)
  <2>1. <<>> \in ChunksOf(T) /\ LiveIn(<<>>) = {} /\ Counted(<<>>)  BY EmptyChunks
  <2> QED BY <2>1 DEF UniqueIn, Holds
<1>5. /\ new \in ChunksOf(T) /\ UniqueIn(new)
      /\ \A pin, k : Holds(new, pin, k) <=> pin \in PinsOfSlots(Range(slots), k)
      /\ (\A i \in 1..w : slots[i].type = "normal") => Counted(new)
  <2>1. \A i, j \in 1..Len(slots) :
              slots[i].type = "normal" /\ slots[j].type = "normal" /\ slots[i].id = slots[j].id => i = j
    BY <1>3
  <2>2. \A i \in 1..Len(slots), p \in LiveIn(<<>>) : slots[i].type = "normal" => slots[i].id # SlotAt(<<>>, p).id
    BY <1>4
  <2> DEFINE e == <<>>
  <2>3. /\ e \in ChunksOf(T) /\ UniqueIn(e) /\ Counted(e)
        /\ \A i \in 1..Len(slots), p \in LiveIn(e) : slots[i].type = "normal" => slots[i].id # SlotAt(e, p).id
        /\ \A pin, k : ~Holds(e, pin, k)
        /\ new = EmplaceAll(e, slots)
    BY <1>4, <1>e, <2>2
  <2> HIDE DEF e
  <2>4. /\ new \in ChunksOf(T) /\ UniqueIn(new)
        /\ \A pin, k : Holds(new, pin, k) <=> Holds(e, pin, k) \/ pin \in PinsOfSlots(Range(slots), k)
        /\ Counted(e) /\ (\A i \in 1..Len(slots) : slots[i].type = "normal") => Counted(new)
    BY <1>3, <2>1, <2>3, ExtendEffect DEF T
  <2> QED BY <1>3, <2>3, <2>4
<1>6. PICK pos : PlacedAll(<<>>, new, pos, slots, w)
  <2> DEFINE e == <<>>
  <2>1. e \in ChunksOf(T) /\ new = EmplaceAll(e, slots) /\ slots \in Seq(T) /\ Len(slots) = w  BY <1>3, <1>4, <1>e
  <2> HIDE DEF e
  <2>2. \E pos : PlacedAll(e, new, pos, slots, w)  BY <2>1, EmplaceAllEffect
  <2> QED BY <2>2 DEF e
<1>7. /\ pos \in [1..w -> Nat \X Nat]
      /\ \A i \in 1..w : pos[i] \in SlotsIn(new) /\ SlotAt(new, pos[i]) = slots[i]
      /\ \A q \in SlotsIn(new) : \E i \in 1..w : q = pos[i]
      /\ \A i, j \in 1..w : i < j => Before(pos[i], pos[j])
  <2>1. SlotsIn(<<>>) = {}  BY EmptyChunks
  <2> QED BY <1>6, <2>1 DEF PlacedAll
<1>8. /\ order \in [1..w -> P] /\ \A x \in P : \E i \in 1..w : order[i] = x
      /\ \A i, j \in 1..w : i < j => Before(order[i], order[j])
  BY <1>1, InOrderBijective DEF order, w
<1>9. /\ L \in SUBSET (Nat \X Nat) /\ IsFiniteSet(L) /\ M \in Nat
      /\ Connections(src) = [i \in 1..M |-> <<SlotAt(src.models, oL[i]).kind, SlotAt(src.models, oL[i]).nodes>>]
  BY <1>0, ConnectionsFacts DEF T
<1>10. /\ oL \in [1..M -> L] /\ \A x \in L : \E i \in 1..M : oL[i] = x
       /\ \A i, j \in 1..M : i < j => Before(oL[i], oL[j])
  BY <1>9, InOrderBijective
<1>11. \A i \in 1..w : order[i] \in L <=> slots[i].type = "normal"
  <2>1. \A i \in 1..w : order[i] \in SlotsIn(src.models)  BY <1>8 DEF Slots
  <2> QED BY <1>1, <1>3, <2>1 DEF LiveIn
<1>12. ASSUME P = Live(src) PROVE Counted(new)
  <2>1. \A i \in 1..w : slots[i].type = "normal"  BY <1>0, <1>8, <1>11, <1>12
  <2> QED BY <1>5, <2>1
<1> DEFINE ix == [j \in 1..M |-> CHOOSE i \in 1..w : order[i] = oL[j]]
           e == [j \in 1..M |-> pos[ix[j]]]
           Q == LiveIn(new)
<1> HIDE DEF L, M, oL
<1>13. \A j \in 1..M : ix[j] \in 1..w /\ order[ix[j]] = oL[j]
  <2> TAKE j \in 1..M
  <2>1. \E i \in 1..w : order[i] = oL[j]  BY <1>0, <1>8, <1>10
  <2>2. ix[j] = CHOOSE i \in 1..w : order[i] = oL[j]  OBVIOUS
  <2> HIDE DEF ix
  <2> QED BY <2>1, <2>2
<1> HIDE DEF ix
<1>14. ASSUME NEW j \in 1..M
       PROVE  /\ e[j] = pos[ix[j]] /\ e[j] \in Q /\ SlotAt(new, e[j]) = slots[ix[j]]
              /\ SlotAt(new, e[j]).kind = SlotAt(src.models, oL[j]).kind
              /\ SlotAt(new, e[j]).nodes = SlotAt(src.models, oL[j]).nodes
  <2>1. e[j] = pos[ix[j]]  OBVIOUS
  <2> HIDE DEF e
  <2>2. slots[ix[j]].type = "normal"  BY <1>10, <1>11, <1>13, SMT
  <2>3. e[j] \in Q /\ SlotAt(new, e[j]) = slots[ix[j]]  BY <1>7, <1>13, <2>1, <2>2 DEF LiveIn
  <2> QED BY <1>1, <1>3, <1>13, <2>1, <2>3, SMT
<1>15. e \in [1..M -> Q]  BY <1>14
<1> HIDE DEF e
<1>16. ASSUME NEW q \in Q PROVE \E j \in 1..M : e[j] = q
  <2>1. PICK i \in 1..w : q = pos[i]  BY <1>7 DEF LiveIn
  <2>2. order[i] \in L  BY <1>7, <1>11, <2>1 DEF LiveIn
  <2>3. PICK j \in 1..M : oL[j] = order[i]  BY <1>10, <2>2
  <2>4. ix[j] = i
    <3>1. order[ix[j]] = order[i] /\ ix[j] \in 1..w  BY <1>13, <2>3
    <3>2. \A a, b \in 1..w : order[a] = order[b] => a = b  BY <1>1, InOrderBijective DEF order, w
    <3> QED BY <3>1, <3>2
  <2> QED BY <1>14, <2>1, <2>4
<1>17. ASSUME NEW i \in 1..M, NEW j \in 1..M, i < j PROVE Before(e[i], e[j])
  <2>1. Before(order[ix[i]], order[ix[j]])  BY <1>10, <1>13, <1>17
  <2>2. ix[i] < ix[j]
    <3>1. \A x, y \in P : Before(x, y) => x # y /\ ~Before(y, x)  BY <1>1, SMT DEF Before
    <3>2. ix[i] \in 1..w /\ ix[j] \in 1..w  BY <1>13
    <3>3. ~(ix[j] < ix[i]) /\ ix[i] # ix[j]  BY <1>8, <2>1, <3>1, <3>2
    <3> QED BY <1>1, <3>2, <3>3, SMT
  <2> QED BY <1>7, <1>13, <1>14, <2>2
<1>18. /\ Q \in SUBSET (Nat \X Nat)
       /\ Connections(r) = [i \in 1..Cardinality(Q) |-> <<SlotAt(new, InOrder(Q)[i]).kind, SlotAt(new, InOrder(Q)[i]).nodes>>]
  BY <1>5, ConnectionsFacts DEF T, new
<1>19. Cardinality(Q) = M /\ InOrder(Q) = e
  <2> HIDE DEF Q
  <2> QED BY <1>9, <1>15, <1>16, <1>17, <1>18, InOrderUnique, ZenonT(60)
<1>20. Connections(r) = Connections(src)
  <2> HIDE DEF Q
  <2> QED BY <1>9, <1>14, <1>18, <1>19
<1> QED BY <1>3, <1>5, <1>12, <1>20 DEF T, new, slots, all, ids

\* The pins that some models have on a node are finitely many.
LEMMA PinsOfSlotsFinite ==
    ASSUME NEW N, NEW S \in SUBSET SlotOf(N), IsFiniteSet(S), NEW k
    PROVE  /\ PinsOfSlots(S, k) \in SUBSET (Nat \X Nat) /\ IsFiniteSet(PinsOfSlots(S, k))
           /\ Cardinality(PinsOfSlots(S, k)) \in Nat
<1> DEFINE f == [s \in S |-> PinsOn(s, k)]
           parts == {PinsOn(s, k) : s \in S}
<1>1. f \in Surjection(S, parts)  BY DEF Surjection
<1>2. \A s \in S : IsFiniteSet(PinsOn(s, k)) /\ PinsOn(s, k) \in SUBSET (Nat \X Nat)  BY PinsOnFinite
<1>3. \A X \in parts : IsFiniteSet(X) /\ X \in SUBSET (Nat \X Nat)  BY <1>2
<1>4. PinsOfSlots(S, k) = UNION parts  BY DEF PinsOfSlots
<1> HIDE DEF f, parts
<1>5. IsFiniteSet(parts)  BY <1>1, FS_Surjection
<1>6. IsFiniteSet(UNION parts)  BY <1>3, <1>5, FS_UNION
<1>7. UNION parts \in SUBSET (Nat \X Nat)  BY <1>3
<1> QED BY <1>4, <1>6, <1>7, FS_CardinalityType

\* The elements of a sequence form a finite set.
LEMMA RangeFinite ==
    ASSUME NEW T, NEW q \in Seq(T)
    PROVE  Range(q) \in SUBSET T /\ IsFiniteSet(Range(q))
<1>1. q \in [1..Len(q) -> T] /\ Len(q) \in Nat  BY SMT
<1>2. q \in Surjection(1..Len(q), Range(q)) /\ Range(q) \in SUBSET T  BY <1>1 DEF Surjection, Range
<1>3. IsFiniteSet(1..Len(q))
  <2>1. 1 \in Int /\ Len(q) \in Int  BY <1>1, SMT
  <2> QED BY <2>1, FS_Interval
<1> QED BY <1>2, <1>3, FS_Surjection

\* netlist(netlist const&): the copy is sound, and has the connections of the original.
LEMMA CopySound ==
    ASSUME NEW n, Sound(n)
    PROVE  LET r == CopyNetlist(n)
           IN  Sound(r) /\ Size(r) = Size(n) /\ Connections(r) = Connections(n)
<1>1. PICK K \in Nat : /\ Nodes(n) = 0..K /\ Size(n) = K + 1
                       /\ n.models \in ChunksOf(SlotOf(0..K))
  BY TypedFacts DEF Sound
<1> DEFINE all == Listing(n, Slots(n))
           slots == CopyWithNodePtr(all, [i \in 1..Len(all) |-> i])
           node == [k \in 0..K |-> [pins |-> PinsOfSlots(Range(slots), k), an |-> 0]]
           new == EmplaceAll(<<>>, slots)
           r == [models |-> new, node |-> node]
<1>2. CopyNetlist(n) = r  BY <1>1 DEF CopyNetlist, AllSlots
<1>3. /\ slots \in Seq(SlotOf(0..K))
      /\ r.models \in ChunksOf(SlotOf(0..K)) /\ UniqueIn(r.models)
      /\ \A pin, k : Holds(r.models, pin, k) <=> pin \in PinsOfSlots(Range(slots), k)
      /\ Connections(r) = Connections(n)
  <2>1. Slots(n) \in SUBSET Slots(n) /\ Live(n) \subseteq Slots(n)  BY DEF Live
  <2>2. r.models = new  OBVIOUS
  <2> HIDE DEF r
  <2> QED BY <1>1, <2>1, <2>2, RebuildEffect
<1>4. r.models = new  OBVIOUS
<1> HIDE DEF slots, new
<1>5. node \in [0..K -> NodeType]
  <2>1. Range(slots) \in SUBSET SlotOf(0..K) /\ IsFiniteSet(Range(slots))  BY <1>3, RangeFinite
  <2>2. \A k \in 0..K : PinsOfSlots(Range(slots), k) \in SUBSET (Nat \X Nat)  BY <2>1, PinsOfSlotsFinite
  <2>3. 0 \in 0..(SizeMod - 1)  BY SizesAssumption, SMT
  <2>4. \A k \in 0..K : [pins |-> PinsOfSlots(Range(slots), k), an |-> 0] \in NodeType
    BY <2>2, <2>3, NodeIntro
  <2> QED BY <2>4
<1>6. \A k \in 0..K : node[k].pins = PinsOfSlots(Range(slots), k)  OBVIOUS
<1> HIDE DEF node
<1>7. Typed(r) /\ Nodes(r) = 0..K /\ Size(r) = K + 1 /\ r.node = node
  BY <1>3, <1>4, <1>5, TypedIntro
<1> HIDE DEF r
<1>8. Members(r)  BY <1>3, <1>6, <1>7, MembersHold
<1> QED BY <1>1, <1>2, <1>3, <1>7, <1>8 DEF Sound

\* restore_from_snapshot(): the target gets the models of the snapshot, keeps its own nodes.
LEMMA RestoreSound ==
    ASSUME NEW dst, Sound(dst), NEW src, Sound(src), Size(src) <= Size(dst)
    PROVE  LET r == RestoreFromSnapshot(dst, src)
           IN  /\ Sound(r) /\ Counted(r.models) /\ Size(r) = Size(dst)
               /\ Connections(r) = Connections(src) /\ Listed(r)
<1>1. PICK K \in Nat : /\ Nodes(dst) = 0..K /\ Size(dst) = K + 1
                       /\ dst.models \in ChunksOf(SlotOf(0..K))
  BY TypedFacts DEF Sound
<1>2. PICK J \in Nat : Nodes(src) = 0..J /\ Size(src) = J + 1
  BY TypedFacts DEF Sound
<1>3. 0..J \subseteq 0..K  BY <1>1, <1>2, SMT
<1> DEFINE live == Listing(src, Live(src))
           slots == CopyWithNodePtr(live, [i \in 1..Len(live) |-> i])
           S == Range(slots)
           A == {s \in S : Analog(s)}
           an(k) == Wrap(-Cardinality(AnalogPinsTo(dst, k)))
           node == [k \in 0..K |-> [pins |-> PinsOfSlots(S, k),
                                    an |-> Wrap(an(k) + Cardinality(PinsOfSlots(A, k)))]]
           new == EmplaceAll(<<>>, slots)
           r == [models |-> new, node |-> node]
<1>4. RestoreFromSnapshot(dst, src) = r
  <2>1. ~(Size(dst) < Size(src))  BY <1>1, <1>2, SMT
  <2>2. AttachAll(ClearedNodes(dst), S) = node
    <3>1. ClearedNodes(dst) = [k \in 0..K |-> [pins |-> {}, an |-> an(k)]]  BY <1>1 DEF ClearedNodes
    <3> HIDE DEF an, S, A
    <3>2. ClearedNodes(dst) \in [0..K -> [pins : {{}}, an : {an(k) : k \in 0..K}]]  BY <3>1, SMT
    <3>3. /\ DOMAIN ClearedNodes(dst) = 0..K
          /\ \A k \in 0..K : ClearedNodes(dst)[k].pins = {} /\ ClearedNodes(dst)[k].an = an(k)
      BY <3>1, SMT
    <3> QED BY <3>3 DEF AttachAll, A
  <2> HIDE DEF node, slots
  <2> QED BY <2>1, <2>2 DEF RestoreFromSnapshot, slots
<1>5. /\ slots \in Seq(SlotOf(0..J))
      /\ r.models \in ChunksOf(SlotOf(0..J)) /\ UniqueIn(r.models)
      /\ \A pin, k : Holds(r.models, pin, k) <=> pin \in PinsOfSlots(S, k)
      /\ Counted(r.models)
      /\ Connections(r) = Connections(src)
  <2>1. Live(src) \in SUBSET Slots(src) /\ Live(src) \subseteq Live(src)  BY DEF Live
  <2>2. r.models = new  OBVIOUS
  <2> HIDE DEF r
  <2> QED BY <1>2, <2>1, <2>2, RebuildEffect
<1>6. r.models = new /\ r.models \in ChunksOf(SlotOf(0..K))
  <2>1. r.models = new  OBVIOUS
  <2> HIDE DEF r
  <2> QED BY <1>3, <1>5, <2>1, SlotMono, ChunksMono
<1> HIDE DEF slots, new
<1>7. node \in [0..K -> NodeType]
  <2>1. S \in SUBSET SlotOf(0..J) /\ IsFiniteSet(S)  BY <1>5, RangeFinite
  <2>2. A \in SUBSET S  OBVIOUS
  <2> HIDE DEF S, A
  <2>3. A \in SUBSET SlotOf(0..J) /\ IsFiniteSet(A)  BY <2>1, <2>2, FS_Subset
  <2>4. \A k : PinsOfSlots(S, k) \in SUBSET (Nat \X Nat) /\ Cardinality(PinsOfSlots(A, k)) \in Nat
    BY <2>1, <2>3, PinsOfSlotsFinite
  <2>5. ASSUME NEW k PROVE Cardinality(AnalogPinsTo(dst, k)) \in Nat
    <3> DEFINE D == {At(dst, p) : p \in Live(dst)}
               f == [p \in Live(dst) |-> At(dst, p)]
    <3>1. Live(dst) = LiveIn(dst.models) /\ \A p : At(dst, p) = SlotAt(dst.models, p)  BY SoundFacts
    <3>2. IsFiniteSet(Live(dst))  BY <1>1, <3>1, SlotsFinite
    <3>3. f \in Surjection(Live(dst), D)  BY DEF Surjection
    <3>4. D \in SUBSET SlotOf(0..K)  BY <1>1, <3>1, LiveFacts, SMT
    <3>5. {s \in D : Analog(s)} \in SUBSET D /\ AnalogPinsTo(dst, k) = PinsOfSlots({s \in D : Analog(s)}, k)
      BY DEF AnalogPinsTo
    <3> HIDE DEF f, D
    <3>6. IsFiniteSet(D)  BY <3>2, <3>3, FS_Surjection
    <3>7. {s \in D : Analog(s)} \in SUBSET SlotOf(0..K) /\ IsFiniteSet({s \in D : Analog(s)})
      BY <3>4, <3>5, <3>6, FS_Subset
    <3> QED BY <3>5, <3>7, PinsOfSlotsFinite
  <2>6. ASSUME NEW k PROVE Wrap(an(k) + Cardinality(PinsOfSlots(A, k))) \in 0..(SizeMod - 1)
    <3>1. -Cardinality(AnalogPinsTo(dst, k)) \in Int  BY <2>5, SMT
    <3>2. an(k) \in 0..(SizeMod - 1)  BY <3>1, WrapType
    <3> HIDE DEF an
    <3>3. an(k) + Cardinality(PinsOfSlots(A, k)) \in Int  BY <2>4, <3>2, SizesAssumption, SMT
    <3> QED BY <3>3, WrapType
  <2> HIDE DEF an
  <2>7. \A k \in 0..K : [pins |-> PinsOfSlots(S, k), an |-> Wrap(an(k) + Cardinality(PinsOfSlots(A, k)))] \in NodeType
    BY <2>4, <2>6, NodeIntro
  <2> QED BY <2>7
<1>8. \A k \in 0..K : node[k].pins = PinsOfSlots(S, k)  OBVIOUS
<1> HIDE DEF node, S
<1>9. Typed(r) /\ Nodes(r) = 0..K /\ Size(r) = K + 1 /\ r.node = node
  BY <1>5, <1>6, <1>7, TypedIntro
<1> HIDE DEF r
<1>10. Members(r)  BY <1>5, <1>8, <1>9, MembersHold
<1>11. Listed(r)
  <2> SUFFICES ASSUME NEW k \in 0..K PROVE r.node[k].pins = PinsTo(r, k)
    BY <1>9 DEF Listed
  <2>1. \A pin : pin \in PinsTo(r, k) <=> pin \in PinsOfSlots(S, k)  BY <1>5, PinsToHolds
  <2>2. PinsTo(r, k) = PinsOfSlots(S, k)
    <3>1. PinsTo(r, k) \subseteq PinsOfSlots(S, k) /\ PinsOfSlots(S, k) \subseteq PinsTo(r, k)  BY <2>1
    <3> QED BY <3>1
  <2> QED BY <1>8, <1>9, <2>2
<1> QED BY <1>1, <1>4, <1>5, <1>9, <1>10, <1>11 DEF Sound

\* A model of the netlist that is added, with its nodes numbered behind the target's.
Moved(s, base) ==
    [s EXCEPT !.nodes = [i \in DOMAIN s.nodes |-> IF s.nodes[i] = Nullptr THEN Nullptr ELSE base + s.nodes[i]]]

\* A model whose pins avoid ground points behind the target's nodes once moved.
LEMMA MovedFacts ==
    ASSUME NEW K \in Nat, NEW J \in Nat, NEW s \in SlotOf(0..J), s.type = "normal",
           \A i \in DOMAIN s.nodes : s.nodes[i] # Ground
    PROVE  /\ Moved(s, K) \in SlotOf(0..(K + J)) /\ Moved(s, K).type = "normal"
           /\ Moved(s, K).kind = s.kind
           /\ \A k \in 0..K : PinsOn(Moved(s, K), k) = {}
           /\ \A i \in DOMAIN Moved(s, K).nodes : Moved(s, K).nodes[i] \notin 0..K
<1> DEFINE D == 1..Devices[s.kind].pins
           f == [i \in D |-> IF s.nodes[i] = Nullptr THEN Nullptr ELSE K + s.nodes[i]]
<1>1. /\ s = [type |-> "normal", kind |-> s.kind, id |-> s.id, nodes |-> s.nodes]
      /\ s.kind \in DOMAIN Devices /\ s.id \in Nat \ {0}
      /\ s.nodes \in [D -> (0..J) \cup {Nullptr}]
  BY SlotFacts
<1>2. DOMAIN s.nodes = D  BY <1>1
<1>3. ASSUME NEW i \in D PROVE f[i] \in 0..(K + J) \cup {Nullptr} /\ f[i] \notin 0..K
  <2>1. s.nodes[i] \in (0..J) \cup {Nullptr} /\ s.nodes[i] # 0  BY <1>1, <1>2 DEF Ground
  <2>2. CASE s.nodes[i] = Nullptr  BY <2>2, SMT DEF Nullptr
  <2>3. CASE s.nodes[i] # Nullptr
    <3>1. s.nodes[i] \in 1..J  BY <2>1, <2>3, SMT
    <3> QED BY <2>3, <3>1, SMT
  <2> QED BY <2>2, <2>3
<1>4. f \in [D -> 0..(K + J) \cup {Nullptr}]  BY <1>3
<1>5. Moved(s, K) = [type |-> "normal", kind |-> s.kind, id |-> s.id, nodes |-> f]
  <2>1. Moved(s, K) = [s EXCEPT !.nodes = f]  BY <1>2 DEF Moved
  <2> HIDE DEF f
  <2> QED BY <1>1, <2>1
<1> HIDE DEF f
<1>6. Moved(s, K) \in SlotOf(0..(K + J))  BY <1>1, <1>4, <1>5, SlotIntro, SMT
<1>7. Moved(s, K).nodes = f /\ DOMAIN f = D  BY <1>4, <1>5, SMT
<1>8. \A i \in DOMAIN Moved(s, K).nodes : Moved(s, K).nodes[i] \notin 0..K  BY <1>3, <1>7
<1>9. \A k \in 0..K : PinsOn(Moved(s, K), k) = {}  BY <1>8 DEF PinsOn
<1> QED BY <1>5, <1>6, <1>8, <1>9, SMT

\* Nothing is left of the nodes of n, the models on them, or their pins, changed.
LEMMA AddNetlistAdvances ==
    ASSUME NEW n, Sound(n), NEW other, Sound(other), ~AddNetlistCrashes(other),
           Cardinality(Slots(n)) + Cardinality(Slots(other)) <= MaxModels
    PROVE  LET r == AddNetlistTo(n, other)
           IN  /\ Advances(n, r)
               /\ \A k \in Nodes(n) : r.node[k] = n.node[k]
               /\ \E S : /\ Grown(n.models, r.models, S)
                         /\ \A s \in S : \A k \in Nodes(n) : PinsOn(s, k) = {}
<1>1. PICK K \in Nat : /\ Nodes(n) = 0..K /\ Size(n) = K + 1
                       /\ n.node \in [0..K -> NodeType]
                       /\ n.models \in ChunksOf(SlotOf(0..K)) /\ UniqueIn(n.models)
  BY TypedFacts DEF Sound
<1>2. PICK J \in Nat : /\ Nodes(other) = 0..J /\ Size(other) = J + 1
                       /\ other.models \in ChunksOf(SlotOf(0..J))
  BY TypedFacts DEF Sound
<1> DEFINE all == Listing(other, Slots(other))
           w == Cardinality(Slots(other))
           ids == FreshIds(Used(n), w)
           mv == [i \in 1..w |-> Moved(all[i], K)]
           slots == CopyWithNodePtr(mv, ids)
           N == 0..(K + J)
           fresh == [k \in N |-> IF k \in 0..K THEN n.node[k] ELSE [pins |-> PinsOfSlots(Range(slots), k), an |-> 0]]
           new == EmplaceAll(n.models, slots)
           r == [models |-> new, node |-> fresh]
<1>3. /\ all \in Seq(SlotOf(0..J)) /\ Len(all) = w /\ w \in Nat
      /\ \A i \in 1..w : all[i] \in SlotOf(0..J) /\ all[i].type = "normal"
                         /\ \A j \in DOMAIN all[i].nodes : all[i].nodes[j] # Ground
  <2> DEFINE P == Slots(other)
  <2>1. /\ all \in Seq(SlotOf(0..J)) /\ Len(all) = w /\ w \in Nat
        /\ P \in SUBSET (Nat \X Nat) /\ IsFiniteSet(P)
        /\ \A i \in 1..w : all[i] = SlotAt(other.models, InOrder(P)[i])
    <3>1. P \in SUBSET Slots(other)  OBVIOUS
    <3> QED BY <1>2, <3>1, ListingFacts
  <2>2. \A i \in 1..w : InOrder(P)[i] \in P
    BY <2>1, InOrderBijective DEF Bijection, Injection, Surjection
  <2>3. \A p \in P : /\ SlotAt(other.models, p) \in SlotOf(0..J)
                     /\ SlotAt(other.models, p).type # "null"
                     /\ \A j \in DOMAIN SlotAt(other.models, p).nodes : SlotAt(other.models, p).nodes[j] # Ground
    <3>1. P = SlotsIn(other.models)  BY DEF Slots
    <3>2. \A p \in P : SlotAt(other.models, p) \in SlotOf(0..J)  BY <1>2, <3>1, ChunkFacts, SMT
    <3>3. \A p : At(other, p) = SlotAt(other.models, p)  BY DEF At
    <3> QED BY <3>2, <3>3 DEF AddNetlistCrashes
  <2>4. \A i \in 1..w : /\ all[i] \in SlotOf(0..J) /\ all[i].type # "null"
                        /\ \A j \in DOMAIN all[i].nodes : all[i].nodes[j] # Ground
    <3> HIDE DEF P, all, w
    <3> QED BY <2>1, <2>2, <2>3
  <2> QED BY <2>1, <2>4, SlotFacts
<1>4. AddNetlistTo(n, other) = r
  <2>1. Size(n) - 1 = K /\ K + Size(other) - 1 = K + J  BY <1>1, <1>2, SMT
  <2>2. AllSlots(other) = all  BY DEF AllSlots
  <2> HIDE DEF all, w
  <2> QED BY <1>1, <1>3, <2>1, <2>2 DEF AddNetlistTo, Moved
<1>5. /\ ids \in [1..w -> Nat \ {0}]
      /\ \A i \in 1..w : ids[i] \notin Used(n)
      /\ \A i, j \in 1..w : ids[i] = ids[j] => i = j
  <2>1. /\ IsFiniteSet(Used(n)) /\ Cardinality(Used(n)) \in Nat
        /\ Cardinality(Slots(n)) \in Nat /\ Cardinality(Used(n)) <= Cardinality(Slots(n))
    BY UsedFacts
  <2> HIDE DEF w
  <2>2. Cardinality(Slots(n)) + w <= MaxModels  BY DEF w
  <2>3. Cardinality(Used(n)) + w <= 2 * MaxModels  BY <1>3, <2>1, <2>2, SizesAssumption, SMT
  <2> QED BY <1>3, <2>1, <2>3, FreshIdsFacts, SMT
<1> HIDE DEF all, w, ids
<1>6. \A p \in LiveIn(n.models) : \A i \in 1..w : ids[i] # SlotAt(n.models, p).id
  <2>1. \A p \in LiveIn(n.models) : SlotAt(n.models, p).id \in Used(n)  BY UsedFacts
  <2> QED BY <1>5, <2>1
<1>7. \A i \in 1..w : /\ mv[i] \in SlotOf(N) /\ mv[i].type = "normal"
                      /\ \A k \in 0..K : PinsOn(mv[i], k) = {}
                      /\ \A j \in DOMAIN mv[i].nodes : mv[i].nodes[j] \notin 0..K
  BY <1>3, MovedFacts
<1>8. mv \in Seq(SlotOf(N)) /\ Len(mv) = w
  <2>1. mv \in [1..w -> SlotOf(N)]  BY <1>7
  <2> HIDE DEF mv
  <2> QED BY <1>3, <2>1, SMT
<1> HIDE DEF mv
<1>9. /\ slots \in Seq(SlotOf(N)) /\ Len(slots) = w
      /\ \A i \in 1..w : /\ slots[i].type = "normal" /\ slots[i].nodes = mv[i].nodes /\ slots[i].id = ids[i]
  BY <1>5, <1>7, <1>8, CopyFacts, SMT
<1> HIDE DEF slots
<1>10. \A s \in Range(slots) : \A k \in 0..K : PinsOn(s, k) = {}
  <2>1. \A s \in Range(slots) : \E i \in 1..w : s = slots[i]  BY <1>9, <1>3, SMT DEF Range
  <2>2. \A i \in 1..w : \A k \in 0..K : PinsOn(slots[i], k) = {}  BY <1>7, <1>9, SMTT(30) DEF PinsOn
  <2> QED BY <2>1, <2>2
<1>11. n.models \in ChunksOf(SlotOf(N)) /\ 0..K \subseteq N /\ K + J \in Nat
  <2>1. 0..K \subseteq N  BY SMT
  <2> HIDE DEF N
  <2> QED BY <1>1, <2>1, SlotMono, ChunksMono, SMT
<1>12. /\ new \in ChunksOf(SlotOf(N)) /\ UniqueIn(new) /\ Keeps(n.models, new)
       /\ Grown(n.models, new, Range(slots))
       /\ \A pin, k : Holds(new, pin, k) <=> Holds(n.models, pin, k) \/ pin \in PinsOfSlots(Range(slots), k)
       /\ Counted(n.models) => Counted(new)
  <2>1. \A i, j \in 1..w : slots[i].type = "normal" /\ slots[j].type = "normal" /\ slots[i].id = slots[j].id => i = j
    BY <1>5, <1>9, SMTT(30)
  <2>2. \A i \in 1..w, p \in LiveIn(n.models) : slots[i].type = "normal" => slots[i].id # SlotAt(n.models, p).id
    BY <1>6, <1>9
  <2>3. \A i \in 1..Len(slots) : slots[i].type = "normal"  BY <1>9
  <2> HIDE DEF N
  <2> QED BY <1>1, <1>9, <1>11, <2>1, <2>2, <2>3, ExtendEffect
<1> HIDE DEF new
<1>13. fresh \in [N -> NodeType]
  <2>1. Range(slots) \in SUBSET SlotOf(N) /\ IsFiniteSet(Range(slots))  BY <1>9, RangeFinite
  <2>2. \A k : PinsOfSlots(Range(slots), k) \in SUBSET (Nat \X Nat)  BY <2>1, PinsOfSlotsFinite
  <2>3. 0 \in 0..(SizeMod - 1)  BY SizesAssumption, SMT
  <2>4. \A k : [pins |-> PinsOfSlots(Range(slots), k), an |-> 0] \in NodeType  BY <2>2, <2>3, NodeIntro
  <2>5. \A k \in N : fresh[k] \in NodeType  BY <1>1, <2>4
  <2> QED BY <2>5
<1>14. /\ \A k \in 0..K : fresh[k] = n.node[k]
       /\ \A k \in N : k \notin 0..K => fresh[k].pins = PinsOfSlots(Range(slots), k)
  BY <1>11
<1> HIDE DEF fresh
<1>15. Typed(r) /\ Nodes(r) = N /\ Size(r) = K + J + 1 /\ r.models = new /\ r.node = fresh
  BY <1>11, <1>12, <1>13, TypedIntro
<1> HIDE DEF r, N
<1>16. Members(r)
  <2>1. \A k \in 0..K : \A pin \in n.node[k].pins : Holds(n.models, pin, k)  BY <1>1, SoundFacts
  <2> QED BY <1>12, <1>14, <1>15, <2>1, MembersHold
<1>17. Size(n) <= Size(r)  BY <1>1, <1>15, SMT
<1> QED BY <1>1, <1>4, <1>10, <1>12, <1>14, <1>15, <1>16, <1>17 DEF Advances, Sound

\* A netlist's own bookkeeping, and what ties the copy to it: the copy has no node the
\* netlist lacks, and the connections the netlist had when it was made.
Inv ==
    /\ Sound(nl) /\ Sound(snap) /\ Counted(nl.models)
    /\ Size(snap) <= Size(nl)
    /\ Connections(snap) = saved
    /\ calls \in 0..MaxCalls /\ crashed \in BOOLEAN
    /\ RolledBack

\* operator new returns an address no live model has.
LEMMA FreshFacts ==
    ASSUME NEW n, Sound(n), Cardinality(Slots(n)) < MaxModels
    PROVE  /\ FreshIds(Used(n), 1)[1] \in Nat \ {0}
           /\ \A p \in Live(n) : At(n, p).id # FreshIds(Used(n), 1)[1]
<1>1. /\ IsFiniteSet(Used(n)) /\ Cardinality(Used(n)) \in Nat
      /\ Cardinality(Slots(n)) \in Nat /\ Cardinality(Used(n)) <= Cardinality(Slots(n))
  BY UsedFacts
<1>2. Cardinality(Used(n)) + 1 <= 2 * MaxModels  BY <1>1, SizesAssumption, SMT
<1>3. 1 \in Nat /\ 1 \in 1..1  BY SMT
<1>4. FreshIds(Used(n), 1) \in [1..1 -> Nat \ {0}] /\ FreshIds(Used(n), 1)[1] \notin Used(n)
  BY <1>1, <1>2, <1>3, FreshIdsFacts
<1>5. \A p \in Live(n) : At(n, p).id \in Used(n)
  <2>1. \A p \in LiveIn(n.models) : SlotAt(n.models, p).id \in Used(n)  BY UsedFacts
  <2> QED BY <2>1, SoundFacts
<1> QED BY <1>3, <1>4, <1>5

\* A call that leaves the netlist alone advances it.
LEMMA AdvancesSame ==
    ASSUME NEW n, Sound(n)
    PROVE  Advances(n, n)
<1>1. PICK K \in Nat : Size(n) = K + 1  BY TypedFacts DEF Sound
<1> QED BY <1>1, SMT DEF Advances, Keeps

\* Every call but the rollback advances the netlist, and only the snapshot touches the copy.
LEMMA StepAdvances ==
    ASSUME Inv, Next
    PROVE  /\ calls' \in 0..MaxCalls /\ crashed' \in BOOLEAN
           /\ \/ Restore
              \/ Advances(nl, nl') /\ op' # "restore" /\ UNCHANGED <<snap, saved>>
              \/ UNCHANGED nl /\ op' # "restore" /\ snap' = CopyNetlist(nl) /\ saved' = Connections(nl)
<1> DEFINE Quiet == Advances(nl, nl') /\ op' # "restore" /\ UNCHANGED <<snap, saved, crashed>>
           Called == calls' \in 0..MaxCalls
<1>0. Sound(nl) /\ Sound(snap) /\ calls \in 0..MaxCalls /\ crashed \in BOOLEAN  BY DEF Inv
<1>c. ASSUME NEW name, Call(name) PROVE Called  BY <1>0, <1>c, SizesAssumption, SMT DEF Call
<1>o. ASSUME NEW name, name # "restore", NEW n, OnNl(name, n), Advances(nl, n) PROVE Quiet /\ Called
  BY <1>c, <1>o DEF OnNl, Call
<1>1. ASSUME NEW k \in DOMAIN Devices, AddModel(k) PROVE Quiet /\ Called
  <2>1. Cardinality(Slots(nl)) < MaxModels  BY <1>1 DEF AddModel
  <2>2. Advances(nl, AddModelTo(nl, k, FreshIds(Used(nl), 1)[1]))
    BY <1>0, <2>1, FreshFacts, AddModelAdvances
  <2> QED BY <1>1, <1>o, <2>2 DEF AddModel
<1>2. ASSUME NEW c \in 1..(Len(nl.models) + 1), NEW v \in 1..(ChunkSize + 1), DeleteModel(c, v)
      PROVE  Quiet /\ Called
  <2>1. Len(nl.models) \in Nat  BY <1>0, SoundFacts, ChunkFacts
  <2>2. c \in Nat \ {0} /\ v \in Nat \ {0}  BY <2>1, SizesAssumption, SMT
  <2>3. Advances(nl, DeleteModelFrom(nl, c, v))  BY <1>0, <2>2, DeleteModelAdvances
  <2> QED BY <1>2, <1>o, <2>3 DEF DeleteModel
<1>3. ASSUME CreateNode PROVE Quiet /\ Called
  BY <1>0, <1>3, <1>o, CreateNodeAdvances DEF CreateNode
<1>4. ASSUME NEW p \in Live(nl), NEW i \in DOMAIN At(nl, p).nodes, NEW k \in Nodes(nl), AddToNode(p, i, k)
      PROVE  Quiet /\ Called
  <2>1. At(nl, p).nodes[i] = Nullptr  BY <1>4 DEF AddToNode
  <2>2. Advances(nl, AddToNodeIn(nl, p, i, k))  BY <1>0, <2>1, AddToNodeAdvances
  <2> QED BY <1>4, <1>o, <2>2 DEF AddToNode
<1>5. ASSUME NEW p \in Live(nl), NEW i \in DOMAIN At(nl, p).nodes, RemoveFromNode(p, i)
      PROVE  Quiet /\ Called
  <2>1. At(nl, p).nodes[i] # Nullptr  BY <1>5 DEF RemoveFromNode
  <2>2. Advances(nl, RemoveFromNodeIn(nl, p, i, At(nl, p).nodes[i]))  BY <1>0, <2>1, RemoveFromNodeAdvances
  <2> QED BY <1>5, <1>o, <2>2 DEF RemoveFromNode
<1>6. ASSUME NEW k \in Nodes(nl), DeleteNode(k) PROVE Quiet /\ Called
  BY <1>0, <1>6, <1>o, DeleteNodeAdvances DEF DeleteNode
<1>7. ASSUME NEW k \in Nodes(nl), NEW other \in Nodes(nl), MergeNode(k, other) PROVE Quiet /\ Called
  BY <1>0, <1>7, <1>o, MergeNodeAdvances DEF MergeNode
<1>8. ASSUME NEW protected, Eliminate(protected) PROVE Quiet /\ Called
  BY <1>0, <1>8, <1>o, EliminateAdvances DEF Eliminate
<1>9. ASSUME Snapshot
      PROVE  /\ UNCHANGED nl /\ op' # "restore" /\ snap' = CopyNetlist(nl) /\ saved' = Connections(nl)
             /\ UNCHANGED crashed /\ Called
  BY <1>9, <1>c DEF Snapshot, AssignNetlist, Call
<1>10. ASSUME Restore PROVE UNCHANGED crashed /\ Called
  BY <1>10, <1>c DEF Restore, OnNl
<1>11. ASSUME AddNetlist
       PROVE  /\ Advances(nl, nl') /\ op' # "restore" /\ UNCHANGED <<snap, saved>>
              /\ crashed' \in BOOLEAN /\ Called
  <2>1. /\ Call("add_netlist") /\ UNCHANGED <<snap, saved>> /\ crashed' = AddNetlistCrashes(snap)
        /\ nl' = IF crashed' THEN nl ELSE AddNetlistTo(nl, snap)
        /\ Cardinality(Slots(nl)) + Cardinality(Slots(snap)) <= MaxModels
    BY <1>11 DEF AddNetlist
  <2>2. crashed' \in BOOLEAN  BY <2>1 DEF AddNetlistCrashes
  <2>3. Advances(nl, nl')
    <3>1. CASE AddNetlistCrashes(snap)  BY <1>0, <2>1, <3>1, AdvancesSame
    <3>2. CASE ~AddNetlistCrashes(snap)  BY <1>0, <2>1, <3>2, AddNetlistAdvances
    <3> QED BY <3>1, <3>2
  <2> QED BY <1>c, <2>1, <2>2, <2>3 DEF Call
<1> HIDE DEF Quiet, Called
<1>12. \/ Quiet /\ Called
       \/ Snapshot \/ Restore \/ AddNetlist
  BY <1>1, <1>2, <1>3, <1>4, <1>5, <1>6, <1>7, <1>8 DEF Next
<1> QED BY <1>0, <1>9, <1>10, <1>11, <1>12 DEF Quiet, Called

\* The initial netlist and the absent snapshot satisfy Inv.
LEMMA InvInit == Init => Inv
<1> SUFFICES ASSUME Init PROVE Inv  OBVIOUS
<1>1. /\ nl \in Start /\ snap = CopyNetlist(nl) /\ saved = Connections(nl)
      /\ op = "none" /\ calls = 0 /\ crashed = FALSE
  BY DEF Init
<1>2. Sound(nl) /\ Counted(nl.models)  BY <1>1, StartAssumption DEF Sound
<1>3. Sound(snap) /\ Size(snap) = Size(nl) /\ Connections(snap) = saved
  BY <1>1, <1>2, CopySound
<1>4. Size(snap) <= Size(nl)
  <2>1. PICK K \in Nat : Size(nl) = K + 1  BY <1>2, TypedFacts DEF Sound
  <2> QED BY <1>3, <2>1, SMT
<1>5. calls \in 0..MaxCalls  BY <1>1, SizesAssumption, SMT
<1> QED BY <1>1, <1>2, <1>3, <1>4, <1>5 DEF Inv, RolledBack

\* Every netlist call, copy and rollback keeps Inv.
LEMMA InvNext == Inv /\ [Next]_vars => Inv'
<1> SUFFICES ASSUME Inv, [Next]_vars PROVE Inv'  OBVIOUS
<1>0. /\ Sound(nl) /\ Sound(snap) /\ Counted(nl.models) /\ Size(snap) <= Size(nl)
      /\ Connections(snap) = saved
  BY DEF Inv
<1>s. PICK K \in Nat, J \in Nat : Size(nl) = K + 1 /\ Size(snap) = J + 1
  BY <1>0, TypedFacts DEF Sound
<1>1. CASE Next
  <2>1. calls' \in 0..MaxCalls /\ crashed' \in BOOLEAN  BY <1>1, StepAdvances
  <2>2. ASSUME Restore PROVE Inv'
    <3>1. nl' = RestoreFromSnapshot(nl, snap) /\ UNCHANGED <<snap, saved>>
      BY <2>2 DEF Restore, OnNl
    <3>2. /\ Sound(nl') /\ Counted((nl').models) /\ Size(nl') = Size(nl)
          /\ Connections(nl') = Connections(snap) /\ Listed(nl')
      BY <1>0, <3>1, RestoreSound
    <3> QED BY <1>0, <2>1, <3>1, <3>2 DEF Inv, RolledBack
  <2>3. ASSUME Advances(nl, nl'), op' # "restore", UNCHANGED <<snap, saved>> PROVE Inv'
    <3>1. Sound(nl') /\ Counted((nl').models) /\ Size(nl) <= Size(nl')  BY <1>0, <2>3 DEF Advances
    <3>2. PICK L \in Nat : Size(nl') = L + 1  BY <3>1, TypedFacts DEF Sound
    <3>3. Size(snap') <= Size(nl')  BY <1>0, <1>s, <2>3, <3>1, <3>2, SMT
    <3> QED BY <1>0, <2>1, <2>3, <3>1, <3>3 DEF Inv, RolledBack
  <2>4. ASSUME UNCHANGED nl, op' # "restore", snap' = CopyNetlist(nl), saved' = Connections(nl) PROVE Inv'
    <3>1. Sound(snap') /\ Size(snap') = Size(nl) /\ Connections(snap') = saved'
      BY <1>0, <2>4, CopySound
    <3>2. Size(snap') <= Size(nl')  BY <1>s, <2>4, <3>1, SMT
    <3> QED BY <1>0, <2>1, <2>4, <3>1, <3>2 DEF Inv, RolledBack
  <2> QED BY <1>1, <2>2, <2>3, <2>4, StepAdvances
<1>2. CASE UNCHANGED vars
  BY <1>2 DEF Inv, RolledBack, vars, Listed, Nodes, PinsTo, Live, Slots, At
<1> QED BY <1>1, <1>2

\* Inv holds in every state.
LEMMA InvHolds == Spec => []Inv
BY InvInit, InvNext, PTL DEF Spec

\* After every sequence of calls each pin a node lists is a pin of a live model that
\* points back to the node, all pointers lead to nodes of the netlist, no two models share
\* an address, and num_of_null_model is right in every chunk.
THEOREM WellFormedCorrect == Spec => []WellFormed
<1>1. Inv => WellFormed  BY DEF Inv, Sound, WellFormed, TypeOK, MembersLive, NullsCounted
<1> QED BY <1>1, InvHolds, PTL

\* restore_from_snapshot() gives back the connections the netlist had when the snapshot
\* was copied, whatever calls came between, and leaves no node with a missing pin.
THEOREM RollbackCorrect == Spec => []RolledBack
<1>1. Inv => RolledBack  BY DEF Inv
<1> QED BY <1>1, InvHolds, PTL

\* No call but the rollback moves a live model to another position.
THEOREM PositionsCorrect == Spec => PositionsStable
<1> DEFINE Stable == op' # "restore" =>
        \A p \in Live(nl), q \in Live(nl') : At(nl, p).id = At(nl', q).id => p = q
<1>1. ASSUME Inv, Inv', Next PROVE Stable
  <2> SUFFICES ASSUME op' # "restore", NEW p \in Live(nl), NEW q \in Live(nl'), At(nl, p).id = At(nl', q).id
               PROVE  p = q
    OBVIOUS
  <2>0. Sound(nl) /\ Sound(nl')  BY <1>1 DEF Inv
  <2>1. ~Restore  BY DEF Restore, OnNl, Call
  <2>2. Keeps(nl.models, (nl').models)
    <3>1. CASE Advances(nl, nl')  BY <3>1 DEF Advances
    <3>2. CASE UNCHANGED nl  BY <3>2 DEF Keeps
    <3> QED BY <1>1, <2>1, <3>1, <3>2, StepAdvances
  <2>3. /\ p \in LiveIn(nl.models) /\ q \in LiveIn((nl').models)
        /\ SlotAt(nl.models, p).id = SlotAt((nl').models, q).id /\ UniqueIn(nl.models)
    BY <2>0, SoundFacts
  <2> QED BY <2>2, <2>3 DEF Keeps, UniqueIn
<1>2. Inv /\ Inv' /\ [Next]_vars => [Stable]_vars  BY <1>1
<1> HIDE DEF Stable
<1>3. Spec => [][Stable]_vars  BY <1>2, InvHolds, PTL DEF Spec
<1> QED BY <1>3 DEF PositionsStable, Stable

-----------------------------------------------------------------------------
(* The counts: how much of a pin list and an analog count a call keeps.    *)

\* Division by a positive number leaves a remainder below it.
LEMMA DivMod ==
    ASSUME NEW M \in Nat \ {0}, NEW x \in Int
    PROVE  x = M * (x \div M) + (x % M) /\ x % M \in 0..(M - 1) /\ x \div M \in Int
BY SMT

\* A number has one quotient and remainder.
LEMMA ModUnique ==
    ASSUME NEW M \in Nat \ {0}, NEW q \in Int, NEW r \in 0..(M - 1)
    PROVE  (M * q + r) % M = r
BY SMT

\* Counting on from a wrapped count.
LEMMA WrapAdd ==
    ASSUME NEW x \in Int, NEW d \in Int
    PROVE  Wrap(Wrap(x) + d) = Wrap(x + d)
<1> DEFINE M == SizeMod
           q == x \div M
           r == x % M
           y == r + d
           z == y \div M
           u == y % M
<1>0. M \in Nat \ {0}  BY SizesAssumption, SMT
<1> HIDE DEF M
<1>1. x = M * q + r /\ r \in 0..(M - 1) /\ q \in Int  BY <1>0, DivMod
<1> HIDE DEF q, r
<1>2. y \in Int /\ y = r + d  BY <1>0, <1>1, SMT
<1> HIDE DEF y
<1>3. y = M * z + u /\ u \in 0..(M - 1) /\ z \in Int  BY <1>0, <1>2, DivMod
<1>4. Wrap(Wrap(x) + d) = u  BY DEF Wrap, M, r, y
<1> HIDE DEF z, u
<1>5. M * (q + z) = M * q + M * z /\ M * q \in Int /\ M * z \in Int  BY <1>0, <1>1, <1>3, SMT
<1>6. x + d = M * (q + z) + u  BY <1>0, <1>1, <1>2, <1>3, <1>5, SMT
<1>7. (M * (q + z) + u) % M = u  BY <1>0, <1>1, <1>3, ModUnique, SMT
<1> QED BY <1>4, <1>6, <1>7 DEF Wrap, M

\* The model that a pin belongs to is not digital.
OfAnalog(m, pin) == \E p \in LiveIn(m) : SlotAt(m, p).id = pin[1] /\ Analog(SlotAt(m, p))

\* The analog pins that point to a node are the pins of analog models that do.
LEMMA AnalogPinsHold ==
    ASSUME NEW n, UniqueIn(n.models), NEW k, NEW pin
    PROVE  pin \in AnalogPinsTo(n, k) <=> Holds(n.models, pin, k) /\ OfAnalog(n.models, pin)
<1> DEFINE m == n.models
<1>1. pin \in AnalogPinsTo(n, k) <=>
        \E p \in LiveIn(m) : /\ Analog(SlotAt(m, p))
                             /\ \E i \in DOMAIN SlotAt(m, p).nodes :
                                    pin = <<SlotAt(m, p).id, i>> /\ SlotAt(m, p).nodes[i] = k
  BY SMT DEF AnalogPinsTo, PinsOfSlots, PinsOn, Live, LiveIn, Slots, At
<1> HIDE DEF m
<1>2. ASSUME pin \in AnalogPinsTo(n, k) PROVE Holds(m, pin, k) /\ OfAnalog(m, pin)
  BY <1>1, <1>2, SMT DEF Holds, OfAnalog
<1>3. ASSUME Holds(m, pin, k), OfAnalog(m, pin) PROVE pin \in AnalogPinsTo(n, k)
  <2>1. PICK p \in LiveIn(m) : \E i \in DOMAIN SlotAt(m, p).nodes :
                pin = <<SlotAt(m, p).id, i>> /\ SlotAt(m, p).nodes[i] = k
    BY <1>3 DEF Holds
  <2>2. PICK q \in LiveIn(m) : SlotAt(m, q).id = pin[1] /\ Analog(SlotAt(m, q))
    BY <1>3 DEF OfAnalog
  <2>3. p = q  BY <2>1, <2>2, SMT DEF UniqueIn, m
  <2> QED BY <1>1, <2>1, <2>2, <2>3
<1> QED BY <1>2, <1>3 DEF m

\* The pins on a node are finitely many, the analog ones are among them.
LEMMA PinsToFinite ==
    ASSUME NEW n, Sound(n), NEW k
    PROVE  /\ IsFiniteSet(PinsTo(n, k)) /\ IsFiniteSet(AnalogPinsTo(n, k))
           /\ Cardinality(AnalogPinsTo(n, k)) \in Nat
           /\ AnalogPinsTo(n, k) = {pin \in PinsTo(n, k) : OfAnalog(n.models, pin)}
<1> DEFINE D == {At(n, p) : p \in Live(n)}
           f == [p \in Live(n) |-> At(n, p)]
<1>0. UniqueIn(n.models) /\ n.models \in ChunksOf(SlotOf(Nodes(n)))  BY SoundFacts
<1>1. Live(n) = LiveIn(n.models) /\ \A p : At(n, p) = SlotAt(n.models, p)  BY SoundFacts
<1>2. IsFiniteSet(Live(n))  BY <1>0, <1>1, SlotsFinite
<1>3. f \in Surjection(Live(n), D)  BY DEF Surjection
<1>4. D \in SUBSET SlotOf(Nodes(n))  BY <1>0, <1>1, LiveFacts, SMT
<1>5. PinsTo(n, k) = PinsOfSlots(D, k)  BY DEF PinsTo
<1> HIDE DEF f, D
<1>6. IsFiniteSet(D)  BY <1>2, <1>3, FS_Surjection
<1>7. IsFiniteSet(PinsTo(n, k))  BY <1>4, <1>5, <1>6, PinsOfSlotsFinite
<1>8. \A pin : pin \in AnalogPinsTo(n, k) <=> pin \in PinsTo(n, k) /\ OfAnalog(n.models, pin)
  BY <1>0, AnalogPinsHold, PinsToHolds
<1>9. AnalogPinsTo(n, k) = {pin \in PinsTo(n, k) : OfAnalog(n.models, pin)}
  <2> DEFINE A == AnalogPinsTo(n, k)
             B == {pin \in PinsTo(n, k) : OfAnalog(n.models, pin)}
  <2>1. \A pin : pin \in A <=> pin \in B  BY <1>8
  <2> HIDE DEF A, B
  <2>2. A = B  BY <2>1
  <2> QED BY <2>2 DEF A, B
<1>10. AnalogPinsTo(n, k) \in SUBSET PinsTo(n, k)  BY <1>9
<1>11. IsFiniteSet(AnalogPinsTo(n, k))  BY <1>7, <1>10, FS_Subset
<1> QED BY <1>7, <1>9, <1>11, FS_CardinalityType

\* A node that is left alone stays exact when models that have no pin on it are added.
LEMMA GrownExact ==
    ASSUME NEW n, NEW r, Sound(n), Sound(r), NEW k, r.node[k] = n.node[k], Exact(n, k), NEW S,
           Grown(n.models, r.models, S), \A s \in S : PinsOn(s, k) = {}
    PROVE  Exact(r, k)
<1> DEFINE m == n.models
           new == r.models
<1>0. UniqueIn(m) /\ UniqueIn(new)  BY SoundFacts
<1>1. \A pin : Holds(new, pin, k) <=> Holds(m, pin, k)
  <2>1. \A pin : Holds(m, pin, k) => Holds(new, pin, k)  BY DEF Grown, Holds
  <2>2. ASSUME NEW pin, Holds(new, pin, k) PROVE Holds(m, pin, k)
    <3>1. PICK q \in LiveIn(new) : \E i \in DOMAIN SlotAt(new, q).nodes :
                pin = <<SlotAt(new, q).id, i>> /\ SlotAt(new, q).nodes[i] = k
      BY <2>2 DEF Holds
    <3>2. SlotAt(new, q) \notin S  BY <3>1 DEF PinsOn
    <3>3. q \in LiveIn(m) /\ SlotAt(new, q) = SlotAt(m, q)  BY <3>2 DEF Grown
    <3> QED BY <3>1, <3>3 DEF Holds
  <2> QED BY <2>1, <2>2
<1>2. \A pin : Holds(m, pin, k) => (OfAnalog(new, pin) <=> OfAnalog(m, pin))
  <2> SUFFICES ASSUME NEW pin, Holds(m, pin, k) PROVE OfAnalog(new, pin) <=> OfAnalog(m, pin)
    OBVIOUS
  <2>1. PICK p \in LiveIn(m) : SlotAt(m, p).id = pin[1]  BY SMT DEF Holds
  <2>2. p \in LiveIn(new) /\ SlotAt(new, p) = SlotAt(m, p)  BY DEF Grown
  <2>3. OfAnalog(new, pin) <=> Analog(SlotAt(new, p))  BY <1>0, <2>1, <2>2 DEF OfAnalog, UniqueIn
  <2>4. OfAnalog(m, pin) <=> Analog(SlotAt(m, p))  BY <1>0, <2>1 DEF OfAnalog, UniqueIn
  <2> QED BY <2>2, <2>3, <2>4
<1> HIDE DEF m, new
<1>3. \A pin : pin \in PinsTo(r, k) <=> pin \in PinsTo(n, k)  BY <1>1, PinsToHolds DEF m, new
<1>4. \A pin : pin \in AnalogPinsTo(r, k) <=> pin \in AnalogPinsTo(n, k)
  BY <1>0, <1>1, <1>2, AnalogPinsHold DEF m, new
<1>5. PinsTo(r, k) = PinsTo(n, k) /\ AnalogPinsTo(r, k) = AnalogPinsTo(n, k)
  <2> DEFINE A == PinsTo(r, k)
             B == PinsTo(n, k)
             C == AnalogPinsTo(r, k)
             D == AnalogPinsTo(n, k)
  <2>1. \A pin : (pin \in A <=> pin \in B) /\ (pin \in C <=> pin \in D)  BY <1>3, <1>4
  <2> HIDE DEF A, B, C, D
  <2>2. A = B /\ C = D  BY <2>1
  <2> QED BY <2>2 DEF A, B, C, D
<1> QED BY <1>5 DEF Exact

\* Where the pins are once those of a set point to t.
LEMMA RepointPins ==
    ASSUME NEW n, Sound(n), NEW r, Sound(r), NEW pins, NEW t \in Nodes(n) \cup {Nullptr},
           r.models = Repoint(n.models, pins, t), \A pin \in pins : \E i : Holds(n.models, pin, i), NEW j
    PROVE  \A pin : pin \in PinsTo(r, j) <=>
                IF j = t THEN pin \in PinsTo(n, j) \/ pin \in pins
                ELSE pin \in PinsTo(n, j) /\ pin \notin pins
<1> DEFINE m == n.models
           new == r.models
           A == PinsTo(r, j)
<1>0. n.models \in ChunksOf(SlotOf(Nodes(n)))  BY SoundFacts
<1>1. /\ LiveIn(new) = LiveIn(m)
      /\ \A p \in LiveIn(m) : SlotAt(new, p).id = SlotAt(m, p).id /\ SlotAt(new, p).kind = SlotAt(m, p).kind
      /\ \A pin : pin \notin pins => \A i : Holds(new, pin, i) <=> Holds(m, pin, i)
      /\ \A pin \in pins : \A i : Holds(new, pin, i) <=> i = t /\ \E h : Holds(m, pin, h)
  BY <1>0, RepointHolds, SMT
<1>3. \A pin : pin \in A <=> Holds(new, pin, j)  BY PinsToHolds
<1>4. \A pin : pin \in PinsTo(n, j) <=> Holds(m, pin, j)  BY PinsToHolds
<1> QED BY <1>1, <1>3, <1>4

\* Re-pointing pins changes no model's device type.
LEMMA RepointAnalog ==
    ASSUME NEW n, Sound(n), NEW r, Sound(r), NEW pins, NEW t \in Nodes(n) \cup {Nullptr},
           r.models = Repoint(n.models, pins, t), NEW j
    PROVE  AnalogPinsTo(r, j) = {pin \in PinsTo(r, j) : OfAnalog(n.models, pin)}
<1> DEFINE m == n.models
           new == r.models
<1>0. n.models \in ChunksOf(SlotOf(Nodes(n)))  BY SoundFacts
<1>1. /\ LiveIn(new) = LiveIn(m)
      /\ \A p \in LiveIn(m) : SlotAt(new, p).id = SlotAt(m, p).id /\ SlotAt(new, p).kind = SlotAt(m, p).kind
  BY <1>0, RepointHolds, SMT
<1>2. \A pin : OfAnalog(new, pin) <=> OfAnalog(m, pin)
  <2>1. \A p \in LiveIn(m) : Analog(SlotAt(new, p)) <=> Analog(SlotAt(m, p))
    BY <1>1 DEF Analog, LiveIn
  <2> QED BY <1>1, <2>1 DEF OfAnalog
<1>3. AnalogPinsTo(r, j) = {pin \in PinsTo(r, j) : OfAnalog(new, pin)}  BY PinsToFinite
<1> QED BY <1>2, <1>3

\* A pin is analog when its model is.
LEMMA PinOwner ==
    ASSUME NEW n, Sound(n), NEW p \in Live(n), NEW i
    PROVE  OfAnalog(n.models, <<At(n, p).id, i>>) <=> Analog(At(n, p))
<1>1. p \in LiveIn(n.models) /\ At(n, p) = SlotAt(n.models, p) /\ UniqueIn(n.models)  BY SoundFacts
<1> QED BY <1>1 DEF OfAnalog, UniqueIn

\* add_to_node() leaves an exact node exact, the one it adds to included.
LEMMA AddToNodeExact ==
    ASSUME NEW n, Sound(n), NEW p \in Live(n), NEW i \in DOMAIN At(n, p).nodes,
           At(n, p).nodes[i] = Nullptr, NEW k \in Nodes(n), NEW j \in Nodes(n), Exact(n, j)
    PROVE  Exact(AddToNodeIn(n, p, i, k), j)
<1> DEFINE s == At(n, p)
           pin == <<s.id, i>>
           r == AddToNodeIn(n, p, i, k)
           P == PinsTo(n, j)
           A == AnalogPinsTo(n, j)
<1>0. Sound(r)  BY AddToNodeAdvances DEF Advances
<1>1. Holds(n.models, pin, Nullptr) /\ UniqueIn(n.models) /\ Nullptr \notin Nodes(n)  BY PinHolds, SoundFacts
<1>2. r.models = Repoint(n.models, {pin}, k)  BY DEF AddToNodeIn
<1>3. /\ PinsTo(r, j) = IF j = k THEN P \cup {pin} ELSE P \ {pin}
      /\ AnalogPinsTo(r, j) = {x \in PinsTo(r, j) : OfAnalog(n.models, x)}
  <2> DEFINE Q == {pin}
  <2>1. r.models = Repoint(n.models, Q, k) /\ \A x \in Q : \E h : Holds(n.models, x, h)  BY <1>1, <1>2
  <2> HIDE DEF r, Q
  <2>2. /\ PinsTo(r, j) = IF j = k THEN PinsTo(n, j) \cup Q ELSE PinsTo(n, j) \ Q
        /\ AnalogPinsTo(r, j) = {x \in PinsTo(r, j) : OfAnalog(n.models, x)}
    <3>1. k \in Nodes(n) \cup {Nullptr}  OBVIOUS
    <3>2. r.models = Repoint(n.models, Q, k)  BY <2>1
    <3>3. \A x \in Q : \E h : Holds(n.models, x, h)  BY <2>1
    <3> HIDE DEF P, A, s, pin
    <3>4. Sound(n) /\ Sound(r)  BY <1>0
    <3>5. PinsTo(r, j) = IF j = k THEN PinsTo(n, j) \cup Q ELSE PinsTo(n, j) \ Q
      <4>1. \A x : x \in PinsTo(r, j) <=>
                  IF j = k THEN x \in PinsTo(n, j) \/ x \in Q ELSE x \in PinsTo(n, j) /\ x \notin Q
        BY <3>1, <3>2, <3>3, <3>4, RepointPins, SMT
      <4> QED BY <4>1
    <3>6. AnalogPinsTo(r, j) = {x \in PinsTo(r, j) : OfAnalog(n.models, x)}
      BY <3>1, <3>2, <3>4, RepointAnalog
    <3> QED BY <3>5, <3>6
  <2> QED BY <2>2 DEF Q
<1>4. pin \notin P  BY <1>1, PinsToHolds, HoldsUnique, SMT
<1>5. /\ IsFiniteSet(A) /\ Cardinality(A) \in Nat
      /\ A = {x \in P : OfAnalog(n.models, x)}
  BY PinsToFinite
<1>6. OfAnalog(n.models, pin) <=> Analog(s)  BY PinOwner
<1>7. n.node[j].pins = P /\ n.node[j].an = Wrap(Cardinality(A))  BY DEF Exact
<1>8. ASSUME j # k PROVE Exact(r, j)
  <2>1. r.node[j] = n.node[j]
    <3>1. n.node \in [Nodes(n) -> NodeType]  BY SoundFacts
    <3> QED BY <1>8, <3>1 DEF AddToNodeIn
  <2> HIDE DEF r, P, A, pin
  <2>2. PinsTo(r, j) = P  BY <1>3, <1>4, <1>8
  <2>3. AnalogPinsTo(r, j) = A  BY <1>3, <1>5, <2>2
  <2> QED BY <1>7, <2>1, <2>2, <2>3 DEF Exact
<1>9. ASSUME j = k PROVE Exact(r, j)
  <2>1. r.node[j] = [pins |-> n.node[j].pins \cup {pin}, an |-> IF Analog(s) THEN Wrap(n.node[j].an + 1) ELSE n.node[j].an]
    <3>1. n.node \in [Nodes(n) -> NodeType]  BY SoundFacts
    <3> QED BY <1>9, <3>1 DEF AddToNodeIn
  <2> HIDE DEF r, P, A, pin, s
  <2>2. PinsTo(r, j) = P \cup {pin}  BY <1>3, <1>9
  <2>3. CASE Analog(s)
    <3>1. AnalogPinsTo(r, j) = A \cup {pin} /\ pin \notin A  BY <1>3, <1>4, <1>5, <1>6, <2>2, <2>3
    <3>2. Cardinality(A \cup {pin}) = Cardinality(A) + 1  BY <1>5, <3>1, FS_AddElement
    <3>3. Wrap(Wrap(Cardinality(A)) + 1) = Wrap(Cardinality(A) + 1)  BY <1>5, WrapAdd, SMT
    <3>4. r.node[j].pins = P \cup {pin} /\ r.node[j].an = Wrap(Wrap(Cardinality(A)) + 1)  BY <1>7, <2>1, <2>3, SMT
    <3>5. Wrap(Wrap(Cardinality(A)) + 1) = Wrap(Cardinality(A \cup {pin}))  BY <3>2, <3>3
    <3> QED BY <2>2, <3>1, <3>4, <3>5 DEF Exact
  <2>4. CASE ~Analog(s)
    <3>1. AnalogPinsTo(r, j) = A  BY <1>3, <1>4, <1>5, <1>6, <2>2, <2>4
    <3>2. r.node[j].pins = P \cup {pin} /\ r.node[j].an = Wrap(Cardinality(A))  BY <1>7, <2>1, <2>4, SMT
    <3> QED BY <2>2, <3>1, <3>2 DEF Exact
  <2> QED BY <2>3, <2>4
<1> QED BY <1>8, <1>9

\* remove_from_node() leaves an exact node exact.
LEMMA RemoveFromNodeExact ==
    ASSUME NEW n, Sound(n), NEW p \in Live(n), NEW i \in DOMAIN At(n, p).nodes,
           At(n, p).nodes[i] # Nullptr, NEW j \in Nodes(n), Exact(n, j)
    PROVE  Exact(RemoveFromNodeIn(n, p, i, At(n, p).nodes[i]), j)
<1> DEFINE s == At(n, p)
           k == s.nodes[i]
           pin == <<s.id, i>>
           r == RemoveFromNodeIn(n, p, i, k)
           P == PinsTo(n, j)
           A == AnalogPinsTo(n, j)
<1>0. Sound(r)  BY RemoveFromNodeAdvances DEF Advances
<1>1. Holds(n.models, pin, k) /\ UniqueIn(n.models) /\ Nullptr \notin Nodes(n) /\ k \in Nodes(n)
  BY PinHolds, SoundFacts
<1>2. r.models = Repoint(n.models, {pin}, Nullptr)  BY DEF RemoveFromNodeIn
<1>3. /\ PinsTo(r, j) = P \ {pin}
      /\ AnalogPinsTo(r, j) = {x \in PinsTo(r, j) : OfAnalog(n.models, x)}
  <2> DEFINE Q == {pin}
  <2>1. r.models = Repoint(n.models, Q, Nullptr) /\ \A x \in Q : \E h : Holds(n.models, x, h)  BY <1>1, <1>2
  <2>2. j # Nullptr /\ Nullptr \in Nodes(n) \cup {Nullptr}  BY <1>1
  <2> HIDE DEF r, Q
  <2>3. /\ PinsTo(r, j) = PinsTo(n, j) \ Q
        /\ AnalogPinsTo(r, j) = {x \in PinsTo(r, j) : OfAnalog(n.models, x)}
    <3>1. Nullptr \in Nodes(n) \cup {Nullptr}  OBVIOUS
    <3>2. r.models = Repoint(n.models, Q, Nullptr)  BY <2>1
    <3>3. \A x \in Q : \E h : Holds(n.models, x, h)  BY <2>1
    <3> HIDE DEF P, A, s, pin, k
    <3>4. Sound(n) /\ Sound(r)  BY <1>0
    <3>5. PinsTo(r, j) = PinsTo(n, j) \ Q
      <4>1. \A x : x \in PinsTo(r, j) <=> x \in PinsTo(n, j) /\ x \notin Q
        BY <2>2, <3>1, <3>2, <3>3, <3>4, RepointPins, SMTT(30)
      <4> QED BY <2>2, <4>1
    <3>6. AnalogPinsTo(r, j) = {x \in PinsTo(r, j) : OfAnalog(n.models, x)}
      BY <3>1, <3>2, <3>4, RepointAnalog
    <3> QED BY <3>5, <3>6
  <2> QED BY <2>3 DEF Q
<1>4. pin \in P <=> j = k  BY <1>1, PinsToHolds, HoldsUnique, SMT
<1>5. /\ IsFiniteSet(A) /\ Cardinality(A) \in Nat
      /\ A = {x \in P : OfAnalog(n.models, x)}
  BY PinsToFinite
<1>6. OfAnalog(n.models, pin) <=> Analog(s)  BY PinOwner
<1>7. n.node[j].pins = P /\ n.node[j].an = Wrap(Cardinality(A))  BY DEF Exact
<1>8. ASSUME j # k PROVE Exact(r, j)
  <2>1. r.node[j] = n.node[j]
    <3>1. n.node \in [Nodes(n) -> NodeType]  BY SoundFacts
    <3> HIDE DEF k
    <3> QED BY <1>8, <3>1 DEF RemoveFromNodeIn
  <2> HIDE DEF r, P, A, pin
  <2>2. PinsTo(r, j) = P  BY <1>3, <1>4, <1>8
  <2>3. AnalogPinsTo(r, j) = A  BY <1>3, <1>5, <2>2
  <2> QED BY <1>7, <2>1, <2>2, <2>3 DEF Exact
<1>9. ASSUME j = k PROVE Exact(r, j)
  <2>1. r.node[j] = [pins |-> n.node[j].pins \ {pin}, an |-> IF Analog(s) THEN Wrap(n.node[j].an - 1) ELSE n.node[j].an]
    <3>1. n.node \in [Nodes(n) -> NodeType]  BY SoundFacts
    <3> HIDE DEF k
    <3> QED BY <1>9, <3>1 DEF RemoveFromNodeIn
  <2> HIDE DEF r, P, A, pin, s
  <2>2. PinsTo(r, j) = P \ {pin} /\ pin \in P  BY <1>3, <1>4, <1>9
  <2>3. CASE Analog(s)
    <3>1. AnalogPinsTo(r, j) = A \ {pin} /\ pin \in A  BY <1>3, <1>5, <1>6, <2>2, <2>3
    <3>2. Cardinality(A \ {pin}) = Cardinality(A) - 1  BY <1>5, <3>1, FS_RemoveElement
    <3>3. Wrap(Wrap(Cardinality(A)) - 1) = Wrap(Cardinality(A) - 1)
      <4> DEFINE c == Cardinality(A)
                 w == Wrap(c)
      <4>1. Wrap(w + (-1)) = Wrap(c + (-1)) /\ w \in Int /\ c \in Int
        <5>1. c \in Int /\ w \in 0..(SizeMod - 1)  BY <1>5, WrapType, SMT
        <5> QED BY <5>1, WrapAdd, SizesAssumption, SMT
      <4> HIDE DEF c, w
      <4>2. w + (-1) = w - 1 /\ c + (-1) = c - 1  BY <4>1
      <4>3. Wrap(w - 1) = Wrap(c - 1)  BY <4>1, <4>2
      <4> QED BY <4>3 DEF c, w
    <3>4. r.node[j].pins = P \ {pin} /\ r.node[j].an = Wrap(Wrap(Cardinality(A)) - 1)  BY <1>7, <2>1, <2>3, SMT
    <3>5. Wrap(Wrap(Cardinality(A)) - 1) = Wrap(Cardinality(A \ {pin}))  BY <3>2, <3>3
    <3> QED BY <2>2, <3>1, <3>4, <3>5 DEF Exact
  <2>4. CASE ~Analog(s)
    <3>1. AnalogPinsTo(r, j) = A  BY <1>3, <1>4, <1>5, <1>6, <2>2, <2>4
    <3>2. r.node[j].pins = n.node[j].pins \ {pin} /\ r.node[j].an = n.node[j].an  BY <2>1, <2>4, SMT
    <3>3. r.node[j].pins = P \ {pin} /\ r.node[j].an = Wrap(Cardinality(A))  BY <1>7, <3>2
    <3> QED BY <2>2, <3>1, <3>3 DEF Exact
  <2> QED BY <2>3, <2>4
<1> QED BY <1>8, <1>9

\* delete_node() leaves an exact node exact.
LEMMA DeleteNodeExact ==
    ASSUME NEW n, Sound(n), NEW k \in Nodes(n), NEW j \in Nodes(n), Exact(n, j)
    PROVE  Exact(DeleteNodeIn(n, k), j)
<1> DEFINE r == DeleteNodeIn(n, k)
           pins == n.node[k].pins
           P == PinsTo(n, j)
           A == AnalogPinsTo(n, j)
<1>0. Sound(r)  BY DeleteNodeAdvances DEF Advances
<1>1. /\ UniqueIn(n.models) /\ Nullptr \notin Nodes(n)
      /\ \A pin \in pins : Holds(n.models, pin, k)
  BY SoundFacts
<1>2. r.models = Repoint(n.models, pins, Nullptr)  BY DEF DeleteNodeIn
<1>3. /\ PinsTo(r, j) = P \ pins
      /\ AnalogPinsTo(r, j) = {x \in PinsTo(r, j) : OfAnalog(n.models, x)}
  <2> HIDE DEF r, pins
  <2>1. PinsTo(r, j) = P \ pins  BY <1>0, <1>1, <1>2, RepointPins, SMT
  <2>2. AnalogPinsTo(r, j) = {x \in PinsTo(r, j) : OfAnalog(n.models, x)}  BY <1>0, <1>2, RepointAnalog
  <2> QED BY <2>1, <2>2
<1>4. A = {x \in P : OfAnalog(n.models, x)}  BY PinsToFinite
<1>5. n.node[j].pins = P /\ n.node[j].an = Wrap(Cardinality(A))  BY DEF Exact
<1>6. r.node[j] = IF j = k THEN EmptyNode ELSE n.node[j]
  <2>1. n.node \in [Nodes(n) -> NodeType]  BY SoundFacts
  <2> QED BY <2>1 DEF DeleteNodeIn
<1>7. ASSUME j # k PROVE Exact(r, j)
  <2>1. \A pin \in pins : pin \notin P  BY <1>1, <1>7, PinsToHolds, HoldsUnique
  <2> HIDE DEF r, pins, P, A
  <2>2. PinsTo(r, j) = P  BY <1>3, <2>1
  <2>3. AnalogPinsTo(r, j) = A  BY <1>3, <1>4, <2>2
  <2> QED BY <1>5, <1>6, <1>7, <2>2, <2>3 DEF Exact
<1>8. ASSUME j = k PROVE Exact(r, j)
  <2>1. pins = P  BY <1>5, <1>8
  <2> HIDE DEF r, pins, P, A
  <2>2. PinsTo(r, j) = {}  BY <1>3, <2>1
  <2>3. AnalogPinsTo(r, j) = {}  BY <1>3, <2>2
  <2>4. Wrap(0) = 0
    <3>1. 0 \in 0..(SizeMod - 1)  BY SizesAssumption, SMT
    <3> QED BY <3>1, WrapSmall
  <2>5. EmptyNode.pins = {} /\ EmptyNode.an = 0  BY DEF EmptyNode
  <2> QED BY <1>6, <1>8, <2>2, <2>3, <2>4, <2>5, FS_EmptySet DEF Exact
<1> QED BY <1>7, <1>8

\* delete_model() leaves an exact node exact.
LEMMA DeleteModelExact ==
    ASSUME NEW n, Sound(n), NEW c \in Nat \ {0}, NEW v \in Nat \ {0}, NEW k \in Nodes(n), Exact(n, k)
    PROVE  Exact(DeleteModelFrom(n, c, v), k)
<1> DEFINE r == DeleteModelFrom(n, c, v)
           q == <<c, v>>
           m == n.models
           s == SlotAt(m, q)
           P == PinsTo(n, k)
           A == AnalogPinsTo(n, k)
           T == PinsOn(s, k)
<1>0. Sound(r) /\ Dropped(m, r.models, q)  BY DeleteModelAdvances DEF Advances
<1>1. m \in ChunksOf(SlotOf(Nodes(n))) /\ UniqueIn(m) /\ n.node \in [Nodes(n) -> NodeType]  BY SoundFacts
<1>2. \/ r = n
      \/ q \in SlotsIn(m) /\ r.node = RemoveFromNodes(n.node, s)
  <2>1. \/ r = n /\ q \notin LiveIn(m)
        \/ /\ q \in SlotsIn(m)
           /\ r = [models |-> r.models, node |-> RemoveFromNodes(n.node, s)]
    BY <1>1, DeleteEffect
  <2> HIDE DEF r, q
  <2> QED BY <2>1, SMT
<1>3. /\ IsFiniteSet(A) /\ Cardinality(A) \in Nat
      /\ A = {x \in P : OfAnalog(m, x)}
      /\ AnalogPinsTo(r, k) = {x \in PinsTo(r, k) : OfAnalog(r.models, x)}
  BY <1>0, PinsToFinite
<1>4. n.node[k].pins = P /\ n.node[k].an = Wrap(Cardinality(A))  BY DEF Exact
<1> HIDE DEF r, q, m
<1>5. ASSUME q \in SlotsIn(m), r.node = RemoveFromNodes(n.node, s) PROVE Exact(r, k)
  <2>1. /\ r.node[k].pins = P \ T
        /\ r.node[k].an = IF Analog(s) THEN Wrap(Wrap(Cardinality(A)) - Cardinality(T)) ELSE Wrap(Cardinality(A))
    <3>1. r.node[k] = [pins |-> n.node[k].pins \ T,
                       an |-> IF Analog(s) THEN Wrap(n.node[k].an - Cardinality(T)) ELSE n.node[k].an]
      <4>1. DOMAIN n.node = Nodes(n)  BY DEF Nodes
      <4> QED BY <1>5, <4>1 DEF RemoveFromNodes
    <3> HIDE DEF s, P, A, T
    <3> QED BY <1>4, <3>1, SMT
  <2>2. s \in SlotOf(Nodes(n))  BY <1>1, <1>5, ChunkFacts
  <2>3. IsFiniteSet(T) /\ Cardinality(T) \in Nat  BY <2>2, PinsOnFinite
  <2>4. s.type # "normal" => T = {} /\ ~Analog(s) /\ q \notin LiveIn(m)
    <3>1. s.type # "normal" => s = NullSlot  BY <2>2, SlotFacts
    <3>2. DOMAIN NullSlot.nodes = {}  BY SMT DEF NullSlot
    <3>3. s = NullSlot => T = {}  BY <3>2 DEF PinsOn
    <3> QED BY <3>1, <3>3 DEF Analog, LiveIn
  <2>5. s.type = "normal" => q \in LiveIn(m)  BY <1>5 DEF LiveIn
  <2>6. \A x : x \in T <=> \E i \in DOMAIN s.nodes : x = <<s.id, i>> /\ s.nodes[i] = k  BY DEF PinsOn
  <2>d. /\ \A p : p \in LiveIn(r.models) <=> p \in LiveIn(m) /\ p # q
        /\ \A p \in LiveIn(r.models) : SlotAt(r.models, p) = SlotAt(m, p)
    BY <1>0 DEF Dropped
  <2>7. \A x : Holds(r.models, x, k) <=> Holds(m, x, k) /\ x \notin T
    <3>1. ASSUME NEW x, Holds(r.models, x, k) PROVE Holds(m, x, k) /\ x \notin T
      <4>1. PICK p \in LiveIn(r.models) : \E i \in DOMAIN SlotAt(r.models, p).nodes :
                x = <<SlotAt(r.models, p).id, i>> /\ SlotAt(r.models, p).nodes[i] = k
        BY <3>1 DEF Holds
      <4>2. p \in LiveIn(m) /\ p # q /\ SlotAt(r.models, p) = SlotAt(m, p)  BY <2>d
      <4>3. Holds(m, x, k)  BY <4>1, <4>2 DEF Holds
      <4>4. x \notin T
        <5>1. SUFFICES ASSUME x \in T PROVE FALSE  OBVIOUS
        <5>2. s.type = "normal" /\ q \in LiveIn(m)  BY <2>4, <2>5, <5>1
        <5>3. x[1] = s.id  BY <2>6, <5>1, SMT
        <5>4. SlotAt(m, p).id = SlotAt(m, q).id  BY <4>1, <4>2, <5>3, SMT
        <5> QED BY <1>1, <4>2, <5>2, <5>4 DEF UniqueIn
      <4> QED BY <4>3, <4>4
    <3>2. ASSUME NEW x, Holds(m, x, k), x \notin T PROVE Holds(r.models, x, k)
      <4>1. PICK p \in LiveIn(m) : \E i \in DOMAIN SlotAt(m, p).nodes :
                x = <<SlotAt(m, p).id, i>> /\ SlotAt(m, p).nodes[i] = k
        BY <3>2 DEF Holds
      <4>2. p # q  BY <2>6, <3>2, <4>1
      <4>3. p \in LiveIn(r.models) /\ SlotAt(r.models, p) = SlotAt(m, p)  BY <2>d, <4>2
      <4> QED BY <4>1, <4>3 DEF Holds
    <3> QED BY <3>1, <3>2
  <2>8. \A x : Holds(r.models, x, k) => (OfAnalog(r.models, x) <=> OfAnalog(m, x))
    <3> SUFFICES ASSUME NEW x, Holds(r.models, x, k) PROVE OfAnalog(r.models, x) <=> OfAnalog(m, x)
      OBVIOUS
    <3>1. PICK p \in LiveIn(r.models) : SlotAt(r.models, p).id = x[1]  BY SMT DEF Holds
    <3>2. p \in LiveIn(m) /\ SlotAt(r.models, p) = SlotAt(m, p)  BY <2>d
    <3>3. OfAnalog(m, x) <=> Analog(SlotAt(m, p))  BY <1>1, <3>1, <3>2 DEF OfAnalog, UniqueIn
    <3>4. UniqueIn(r.models)  BY <1>0, SoundFacts
    <3>5. OfAnalog(r.models, x) <=> Analog(SlotAt(r.models, p))  BY <3>1, <3>4 DEF OfAnalog, UniqueIn
    <3> QED BY <3>2, <3>3, <3>5
  <2>9. \A x : (x \in PinsTo(r, k) <=> Holds(r.models, x, k)) /\ (x \in P <=> Holds(m, x, k))
    BY PinsToHolds DEF m
  <2>10. \A x \in T : (x \in P) /\ (OfAnalog(m, x) <=> Analog(s))
    <3> SUFFICES ASSUME NEW x \in T PROVE x \in P /\ (OfAnalog(m, x) <=> Analog(s))  OBVIOUS
    <3>1. q \in LiveIn(m)  BY <2>4, <2>5
    <3>2. x[1] = s.id /\ Holds(m, x, k)  BY <2>6, <3>1, SMT DEF Holds
    <3>3. OfAnalog(m, x) <=> Analog(s)  BY <1>1, <3>1, <3>2 DEF OfAnalog, UniqueIn
    <3> QED BY <2>9, <3>2, <3>3
  <2> HIDE DEF P, A, T, s
  <2>11. PinsTo(r, k) = P \ T
    <3>1. \A x : x \in PinsTo(r, k) <=> x \in P /\ x \notin T  BY <2>7, <2>9
    <3> QED BY <3>1
  <2>12. \A x : x \in AnalogPinsTo(r, k) <=> x \in A /\ x \notin T
    BY <1>3, <2>8, <2>9, <2>11
  <2>13. AnalogPinsTo(r, k) = A \ T  BY <2>12
  <2>14. CASE Analog(s)
    <3>1. T \subseteq A  BY <1>3, <2>10, <2>14
    <3>2. Cardinality(A \ T) = Cardinality(A) - Cardinality(T)
      <4>1. A \cap T = T  BY <3>1
      <4>2. Cardinality(A \ T) = Cardinality(A) - Cardinality(A \cap T)  BY <1>3, FS_Difference
      <4> QED BY <4>1, <4>2
    <3>3. Wrap(Wrap(Cardinality(A)) - Cardinality(T)) = Wrap(Cardinality(A) - Cardinality(T))
      <4> DEFINE x == Cardinality(A)
                 d == Cardinality(T)
                 w == Wrap(x)
      <4>1. x \in Int /\ d \in Int /\ w \in Int
        <5>1. x \in Int /\ w \in 0..(SizeMod - 1)  BY <1>3, WrapType, SMT
        <5> QED BY <2>3, <5>1, SizesAssumption, SMT
      <4>2. Wrap(w + (-d)) = Wrap(x + (-d))
        <5>1. -d \in Int  BY <4>1, SMT
        <5> QED BY <4>1, <5>1, WrapAdd
      <4> HIDE DEF x, d, w
      <4>3. w + (-d) = w - d /\ x + (-d) = x - d  BY <4>1
      <4>4. Wrap(w - d) = Wrap(x - d)  BY <4>2, <4>3
      <4> QED BY <4>4 DEF x, d, w
    <3> QED BY <2>1, <2>11, <2>13, <2>14, <3>2, <3>3 DEF Exact
  <2>15. CASE ~Analog(s)
    <3>1. A \ T = A  BY <1>3, <2>10, <2>15
    <3> QED BY <2>1, <2>11, <2>13, <2>15, <3>1 DEF Exact
  <2> QED BY <2>14, <2>15
<1> QED BY <1>2, <1>5 DEF r

\* Every call but the merge, the buffer removal and the rollback keeps the nodes exact.
LEMMA StepExact ==
    ASSUME Inv, Inv', Next, op' \notin {"merge_node", "eliminate_yes", "restore"},
           NEW k \in Nodes(nl), Exact(nl, k)
    PROVE  Exact(nl', k)
<1>0. Sound(nl) /\ Sound(nl') /\ Sound(snap)  BY DEF Inv
<1>n. Nullptr \notin Nodes(nl)  BY <1>0, SoundFacts
<1>1. ASSUME NEW d \in DOMAIN Devices, AddModel(d) PROVE Exact(nl', k)
  <2> DEFINE id == FreshIds(Used(nl), 1)[1]
             s == NewModel(d, id)
             m == nl.models
             new == (nl').models
  <2>1. Cardinality(Slots(nl)) < MaxModels /\ nl' = AddModelTo(nl, d, id)  BY <1>1 DEF AddModel, OnNl
  <2>2. id \in Nat \ {0} /\ \A p \in Live(nl) : At(nl, p).id # id  BY <1>0, <2>1, FreshFacts
  <2> HIDE DEF id
  <2>3. /\ (nl').node = nl.node
        /\ \E q : /\ LiveIn(new) = LiveIn(m) \cup {q}
                  /\ SlotAt(new, q) = s
                  /\ \A p \in LiveIn(m) : SlotAt(new, p) = SlotAt(m, p)
    BY <1>0, <2>1, <2>2, AddModelAdvances, SMT
  <2>4. Grown(m, new, {s})
    <3>1. PICK q : /\ LiveIn(new) = LiveIn(m) \cup {q}
                   /\ SlotAt(new, q) = s
                   /\ \A p \in LiveIn(m) : SlotAt(new, p) = SlotAt(m, p)
      BY <2>3
    <3> HIDE DEF m, new, s
    <3> QED BY <3>1 DEF Grown
  <2>5. \A i \in DOMAIN s.nodes : s.nodes[i] = Nullptr  BY DEF NewModel
  <2> HIDE DEF s
  <2>6. PinsOn(s, k) = {}  BY <1>n, <2>5 DEF PinsOn
  <2>7. \A x \in {s} : PinsOn(x, k) = {}  BY <2>6
  <2>8. (nl').node[k] = nl.node[k]  BY <2>3
  <2> QED BY <1>0, <2>4, <2>7, <2>8, GrownExact DEF m, new
<1>2. ASSUME NEW c \in 1..(Len(nl.models) + 1), NEW v \in 1..(ChunkSize + 1), DeleteModel(c, v)
      PROVE  Exact(nl', k)
  <2>1. Len(nl.models) \in Nat  BY <1>0, SoundFacts, ChunkFacts
  <2>2. c \in Nat \ {0} /\ v \in Nat \ {0}  BY <2>1, SizesAssumption, SMT
  <2> QED BY <1>0, <1>2, <2>2, DeleteModelExact DEF DeleteModel, OnNl
<1>3. ASSUME CreateNode PROVE Exact(nl', k)
  <2>1. nl' = CreateNodeIn(nl)  BY <1>3 DEF CreateNode, OnNl
  <2>2. (nl').models = nl.models  BY <2>1 DEF CreateNodeIn
  <2>3. (nl').node[k] = nl.node[k]
    <3>1. PICK K \in Nat : Nodes(nl) = 0..K /\ Size(nl) = K + 1  BY <1>0, TypedFacts DEF Sound
    <3>2. k \in 0..Size(nl)  BY <3>1, SMT
    <3> QED BY <2>1, <3>2 DEF CreateNodeIn
  <2>4. Grown(nl.models, (nl').models, {})  BY <2>2 DEF Grown
  <2> QED BY <1>0, <2>3, <2>4, GrownExact
<1>4. ASSUME NEW p \in Live(nl), NEW i \in DOMAIN At(nl, p).nodes, NEW j \in Nodes(nl), AddToNode(p, i, j)
      PROVE  Exact(nl', k)
  BY <1>0, <1>4, AddToNodeExact DEF AddToNode, OnNl
<1>5. ASSUME NEW p \in Live(nl), NEW i \in DOMAIN At(nl, p).nodes, RemoveFromNode(p, i)
      PROVE  Exact(nl', k)
  BY <1>0, <1>5, RemoveFromNodeExact DEF RemoveFromNode, OnNl
<1>6. ASSUME NEW j \in Nodes(nl), DeleteNode(j) PROVE Exact(nl', k)
  BY <1>0, <1>6, DeleteNodeExact DEF DeleteNode, OnNl
<1>7. ASSUME NEW j, NEW other, MergeNode(j, other) PROVE FALSE
  BY <1>7 DEF MergeNode, OnNl, Call
<1>8. ASSUME NEW protected, Eliminate(protected) PROVE FALSE
  BY <1>8 DEF Eliminate, OnNl, Call
<1>9. ASSUME Snapshot PROVE Exact(nl', k)
  <2>1. nl' = nl  BY <1>9 DEF Snapshot
  <2> QED BY <2>1
<1>10. ASSUME Restore PROVE FALSE  BY <1>10 DEF Restore, OnNl, Call
<1>11. ASSUME AddNetlist PROVE Exact(nl', k)
  <2>1. /\ crashed' = AddNetlistCrashes(snap)
        /\ nl' = IF crashed' THEN nl ELSE AddNetlistTo(nl, snap)
        /\ Cardinality(Slots(nl)) + Cardinality(Slots(snap)) <= MaxModels
    BY <1>11 DEF AddNetlist
  <2>2. CASE AddNetlistCrashes(snap)
    <3>1. nl' = nl  BY <2>1, <2>2
    <3> QED BY <3>1
  <2>3. CASE ~AddNetlistCrashes(snap)
    <3>1. nl' = AddNetlistTo(nl, snap)  BY <2>1, <2>3
    <3>2. /\ (nl').node[k] = nl.node[k]
          /\ \E S : /\ Grown(nl.models, (nl').models, S)
                    /\ \A s \in S : PinsOn(s, k) = {}
      BY <1>0, <2>1, <2>3, <3>1, AddNetlistAdvances, SMT
    <3> QED BY <1>0, <3>2, GrownExact
  <2> QED BY <2>2, <2>3
<1> QED BY <1>1, <1>2, <1>3, <1>4, <1>5, <1>6, <1>7, <1>8, <1>9, <1>10, <1>11 DEF Next

\* num_of_analog_node and the pin list of a node stay exact under every call but
\* merge_node(), the buffer removal and the rollback, also where the counter wraps.
THEOREM CountsCorrect == Spec => CountsKept
<1> DEFINE Kept == op' \notin {"merge_node", "eliminate_yes", "restore"} =>
        \A k \in Nodes(nl) : Exact(nl, k) => Exact(nl', k)
<1>1. Inv /\ Inv' /\ Next => Kept  BY StepExact
<1>2. Inv /\ Inv' /\ [Next]_vars => [Kept]_vars  BY <1>1
<1> HIDE DEF Kept
<1>3. Spec => [][Kept]_vars  BY <1>2, InvHolds, PTL DEF Spec
<1> QED BY <1>3 DEF CountsKept, Kept

-----------------------------------------------------------------------------
(* The sources: what a pin reads through the buffers in front of it.       *)

\* A live model of m has the pin, and it is an output.
Driving(m, pin) == \E p \in LiveIn(m) : SlotAt(m, p).id = pin[1] /\ pin[2] \in Devices[SlotAt(m, p).kind].outputs

\* The pin drives node k.
Drives(m, pin, k) == Holds(m, pin, k) /\ Driving(m, pin)

\* The model at p is a buffer from node j, and the only driver of node k.
Buffers(m, p, j, k) ==
    /\ SlotAt(m, p).kind = "YES" /\ SlotAt(m, p).nodes[2] = k
    /\ SlotAt(m, p).nodes[1] = j /\ j # Nullptr
    /\ \A pin : Drives(m, pin, k) <=> pin = <<SlotAt(m, p).id, 2>>

\* Some live buffer alone drives k, and reads j.
Feeds(m, j, k) == \E p \in LiveIn(m) : Buffers(m, p, j, k)

\* The pins of a live buffer.
LEMMA YesFacts ==
    ASSUME NEW n, Sound(n), NEW p \in LiveIn(n.models), SlotAt(n.models, p).kind = "YES"
    PROVE  LET s == SlotAt(n.models, p)
           IN  /\ DOMAIN s.nodes = 1..2 /\ Devices[s.kind].outputs = {2}
               /\ s.nodes[1] \in Nodes(n) \cup {Nullptr} /\ s.nodes[2] \in Nodes(n) \cup {Nullptr}
               /\ Holds(n.models, <<s.id, 1>>, s.nodes[1]) /\ Holds(n.models, <<s.id, 2>>, s.nodes[2])
<1> DEFINE s == SlotAt(n.models, p)
<1>1. n.models \in ChunksOf(SlotOf(Nodes(n)))  BY SoundFacts
<1>2. /\ s.kind \in DOMAIN Devices
      /\ s.nodes \in [1..Devices[s.kind].pins -> Nodes(n) \cup {Nullptr}]
  BY <1>1, LiveFacts
<1>3. Devices[s.kind].pins = 2 /\ Devices[s.kind].outputs = {2}  BY <1>2, DevicesAssumption
<1>4. s.nodes \in [1..2 -> Nodes(n) \cup {Nullptr}] /\ 1 \in 1..2 /\ 2 \in 1..2  BY <1>2, <1>3, SMT
<1>5. DOMAIN s.nodes = 1..2 /\ s.nodes[1] \in Nodes(n) \cup {Nullptr} /\ s.nodes[2] \in Nodes(n) \cup {Nullptr}
  <2> HIDE DEF s
  <2> QED BY <1>4
<1>6. Holds(n.models, <<s.id, 1>>, s.nodes[1]) /\ Holds(n.models, <<s.id, 2>>, s.nodes[2])
  BY <1>4, <1>5 DEF Holds
<1> QED BY <1>3, <1>5, <1>6

\* The drivers of a node, where nodes list the pins that point to them.
LEMMA DriversFacts ==
    ASSUME NEW n, Sound(n), Listed(n), NEW k \in Nodes(n)
    PROVE  \A pin : pin \in Drivers(n, k) <=> Drives(n.models, pin, k)
<1> SUFFICES ASSUME NEW pin PROVE pin \in Drivers(n, k) <=> Drives(n.models, pin, k)
  OBVIOUS
<1>1. pin \in n.node[k].pins <=> Holds(n.models, pin, k)  BY PinsToHolds DEF Listed
<1>2. ASSUME Holds(n.models, pin, k) PROVE IsOutputPin(n, pin) <=> Driving(n.models, pin)
  <2>1. PICK p \in LiveIn(n.models) : SlotAt(n.models, p).id = pin[1]  BY <1>2, SMT DEF Holds
  <2>2. UniqueIn(n.models) /\ Live(n) = LiveIn(n.models) /\ \A q : At(n, q) = SlotAt(n.models, q)  BY SoundFacts
  <2>3. Owner(n, pin) = p  BY <2>1, <2>2 DEF Owner, UniqueIn
  <2>4. IsOutputPin(n, pin) <=> pin[2] \in Devices[SlotAt(n.models, p).kind].outputs  BY <2>2, <2>3 DEF IsOutputPin
  <2> QED BY <2>1, <2>2, <2>4 DEF Driving, UniqueIn
<1> QED BY <1>1, <1>2 DEF Drivers, Drives

\* The node behind a buffer, and a node that no buffer alone drives.
LEMMA BehindFacts ==
    ASSUME NEW n, Sound(n), Listed(n), NEW k \in Nodes(n)
    PROVE  /\ \A j : Feeds(n.models, j, k) => BehindYes(n, k) = j
           /\ (\A j : ~Feeds(n.models, j, k)) => BehindYes(n, k) = k
           /\ BehindYes(n, k) \in Nodes(n)
<1> DEFINE m == n.models
           yes == {p \in Live(n) : /\ At(n, p).kind = "YES"
                                   /\ At(n, p).nodes[2] = k /\ At(n, p).nodes[1] # Nullptr
                                   /\ Drivers(n, k) = {<<At(n, p).id, 2>>}}
<1>1. UniqueIn(m) /\ Live(n) = LiveIn(m) /\ \A q : At(n, q) = SlotAt(m, q)  BY SoundFacts
<1>2. \A p : p \in yes <=> p \in LiveIn(m) /\ Buffers(m, p, SlotAt(m, p).nodes[1], k)
  <2> SUFFICES ASSUME NEW p PROVE p \in yes <=> p \in LiveIn(m) /\ Buffers(m, p, SlotAt(m, p).nodes[1], k)
    OBVIOUS
  <2>1. Drivers(n, k) = {<<SlotAt(m, p).id, 2>>} <=> \A pin : Drives(m, pin, k) <=> pin = <<SlotAt(m, p).id, 2>>
    <3>1. \A pin : pin \in Drivers(n, k) <=> Drives(m, pin, k)  BY DriversFacts
    <3> HIDE DEF m
    <3> QED BY <3>1
  <2> QED BY <1>1, <2>1 DEF Buffers
<1>3. \A j : Feeds(m, j, k) <=> \E p \in yes : SlotAt(m, p).nodes[1] = j
  BY <1>2 DEF Feeds, Buffers
<1>4. \A p, q \in yes : p = q
  <2> SUFFICES ASSUME NEW p \in yes, NEW q \in yes PROVE p = q
    OBVIOUS
  <2>1. p \in LiveIn(m) /\ q \in LiveIn(m)  BY <1>1
  <2>2. {<<SlotAt(m, p).id, 2>>} = {<<SlotAt(m, q).id, 2>>}  BY <1>1
  <2>3. SlotAt(m, p).id = SlotAt(m, q).id
    <3>1. <<SlotAt(m, p).id, 2>> = <<SlotAt(m, q).id, 2>>  BY <2>2
    <3> QED BY <3>1
  <2> QED BY <1>1, <2>1, <2>3 DEF UniqueIn
<1>5. BehindYes(n, k) = IF yes = {} THEN k ELSE SlotAt(m, CHOOSE p \in yes : TRUE).nodes[1]
  BY <1>1, SMT DEF BehindYes
<1>6. ASSUME NEW p \in yes PROVE BehindYes(n, k) = SlotAt(m, p).nodes[1] /\ SlotAt(m, p).nodes[1] \in Nodes(n)
  <2>1. p \in LiveIn(m) /\ SlotAt(m, p).kind = "YES" /\ SlotAt(m, p).nodes[1] # Nullptr  BY <1>1
  <2>2. SlotAt(m, p).nodes[1] \in Nodes(n) \cup {Nullptr}  BY <2>1, YesFacts
  <2> HIDE DEF yes, m
  <2>3. (CHOOSE x \in yes : TRUE) = p  BY <1>4
  <2> QED BY <1>5, <2>1, <2>2, <2>3
<1>7. ASSUME yes = {} PROVE BehindYes(n, k) = k
  <2> HIDE DEF yes, m
  <2> QED BY <1>5, <1>7
<1> HIDE DEF yes
<1> QED BY <1>3, <1>6, <1>7

-----------------------------------------------------------------------------
\* new is m with the buffer p from node a to node b taken out: whatever pointed to b points to a.
Shorted(m, new, p, a, b) ==
    /\ LiveIn(new) = LiveIn(m) \ {p}
    /\ \A q \in LiveIn(new) :
          /\ SlotAt(new, q).id = SlotAt(m, q).id /\ SlotAt(new, q).kind = SlotAt(m, q).kind
          /\ DOMAIN SlotAt(new, q).nodes = DOMAIN SlotAt(m, q).nodes
          /\ \A i \in DOMAIN SlotAt(m, q).nodes : SlotAt(new, q).nodes[i] = Joined(a, b, SlotAt(m, q).nodes[i])

\* Where the pins are then.
LEMMA ShortedHolds ==
    ASSUME NEW m, NEW new, NEW p \in LiveIn(m), NEW a, NEW b, UniqueIn(m), Shorted(m, new, p, a, b), NEW pin, NEW k
    PROVE  Holds(new, pin, k) <=> pin[1] # SlotAt(m, p).id /\ \E j : Holds(m, pin, j) /\ k = Joined(a, b, j)
<1>0. /\ LiveIn(new) = LiveIn(m) \ {p}
      /\ \A q \in LiveIn(new) :
          /\ SlotAt(new, q).id = SlotAt(m, q).id
          /\ DOMAIN SlotAt(new, q).nodes = DOMAIN SlotAt(m, q).nodes
          /\ \A i \in DOMAIN SlotAt(m, q).nodes : SlotAt(new, q).nodes[i] = Joined(a, b, SlotAt(m, q).nodes[i])
  BY DEF Shorted
<1>1. ASSUME Holds(new, pin, k)
      PROVE  pin[1] # SlotAt(m, p).id /\ \E j : Holds(m, pin, j) /\ k = Joined(a, b, j)
  <2>1. PICK q \in LiveIn(new) : \E i \in DOMAIN SlotAt(new, q).nodes :
            pin = <<SlotAt(new, q).id, i>> /\ SlotAt(new, q).nodes[i] = k
    BY <1>1 DEF Holds
  <2>2. PICK i \in DOMAIN SlotAt(new, q).nodes : pin = <<SlotAt(new, q).id, i>> /\ SlotAt(new, q).nodes[i] = k
    BY <2>1
  <2>3. q \in LiveIn(m) /\ q # p /\ i \in DOMAIN SlotAt(m, q).nodes /\ pin = <<SlotAt(m, q).id, i>>  BY <1>0, <2>2
  <2>4. k = Joined(a, b, SlotAt(m, q).nodes[i])  BY <1>0, <2>2, <2>3
  <2>5. Holds(m, pin, SlotAt(m, q).nodes[i])  BY <2>3 DEF Holds
  <2>6. pin[1] # SlotAt(m, p).id  BY <2>3 DEF UniqueIn
  <2> QED BY <2>4, <2>5, <2>6
<1>2. ASSUME pin[1] # SlotAt(m, p).id, NEW j, Holds(m, pin, j), k = Joined(a, b, j)
      PROVE  Holds(new, pin, k)
  <2>1. PICK q \in LiveIn(m) : \E i \in DOMAIN SlotAt(m, q).nodes :
            pin = <<SlotAt(m, q).id, i>> /\ SlotAt(m, q).nodes[i] = j
    BY <1>2 DEF Holds
  <2>2. PICK i \in DOMAIN SlotAt(m, q).nodes : pin = <<SlotAt(m, q).id, i>> /\ SlotAt(m, q).nodes[i] = j
    BY <2>1
  <2>3. q # p  BY <1>2, <2>2
  <2>4. q \in LiveIn(new)  BY <1>0, <2>3
  <2> QED BY <1>0, <1>2, <2>2, <2>4 DEF Holds
<1> QED BY <1>1, <1>2

\* Outputs stay outputs.
LEMMA ShortedDriving ==
    ASSUME NEW m, NEW new, NEW p \in LiveIn(m), NEW a, NEW b, UniqueIn(m), Shorted(m, new, p, a, b), NEW pin
    PROVE  Driving(new, pin) <=> pin[1] # SlotAt(m, p).id /\ Driving(m, pin)
<1>0. /\ LiveIn(new) = LiveIn(m) \ {p}
      /\ \A q \in LiveIn(new) : SlotAt(new, q).id = SlotAt(m, q).id /\ SlotAt(new, q).kind = SlotAt(m, q).kind
  BY DEF Shorted
<1> QED BY <1>0 DEF Driving, UniqueIn

\* A buffer fed node k from j, if the output b of another one is read as its input a.
FedJoined(m, a, b, j, k) == \E i : Feeds(m, i, k) /\ j = Joined(a, b, i)

\* A node but the buffer's output keeps its drivers, and the buffers in front of it, if their
\* input was that output, read what the buffer read.
LEMMA ShortedFeeds ==
    ASSUME NEW n, Sound(n), NEW new, NEW p \in LiveIn(n.models), NEW a \in Nodes(n), NEW b \in Nodes(n), a # b,
           Buffers(n.models, p, a, b), Shorted(n.models, new, p, a, b)
    PROVE  /\ \A j, k : k # b /\ Feeds(n.models, j, k) => Feeds(new, Joined(a, b, j), k)
           /\ \A j, k : Feeds(new, j, k) => k # b /\ FedJoined(n.models, a, b, j, k)
<1> DEFINE m == n.models
           s == SlotAt(m, p)
<1>1. UniqueIn(m) /\ Nullptr \notin Nodes(n)  BY SoundFacts
<1>2. /\ s.nodes[1] = a /\ s.nodes[2] = b /\ DOMAIN s.nodes = 1..2 /\ Devices[s.kind].outputs = {2}
      /\ \A pin : Drives(m, pin, b) <=> pin = <<s.id, 2>>
  BY YesFacts DEF Buffers
<1>3. /\ LiveIn(new) = LiveIn(m) \ {p}
      /\ \A q \in LiveIn(new) :
          /\ SlotAt(new, q).id = SlotAt(m, q).id /\ SlotAt(new, q).kind = SlotAt(m, q).kind
          /\ DOMAIN SlotAt(new, q).nodes = DOMAIN SlotAt(m, q).nodes
          /\ \A i \in DOMAIN SlotAt(m, q).nodes : SlotAt(new, q).nodes[i] = Joined(a, b, SlotAt(m, q).nodes[i])
  BY DEF Shorted
<1>h. \A pin, k : Holds(new, pin, k) <=> pin[1] # s.id /\ \E j : Holds(m, pin, j) /\ k = Joined(a, b, j)
  BY <1>1, ShortedHolds, SMT
<1>d. \A pin : Driving(new, pin) <=> pin[1] # s.id /\ Driving(m, pin)
  BY <1>1, ShortedDriving
<1>p. ASSUME NEW pin, NEW k, Holds(m, pin, k), pin[1] = s.id
      PROVE  (pin = <<s.id, 1>> /\ k = a) \/ (pin = <<s.id, 2>> /\ k = b)
  <2>1. PICK q \in LiveIn(m) : \E i \in DOMAIN SlotAt(m, q).nodes :
            pin = <<SlotAt(m, q).id, i>> /\ SlotAt(m, q).nodes[i] = k
    BY <1>p DEF Holds
  <2>2. PICK i \in DOMAIN SlotAt(m, q).nodes : pin = <<SlotAt(m, q).id, i>> /\ SlotAt(m, q).nodes[i] = k
    BY <2>1
  <2>3. q = p  BY <1>1, <1>p, <2>2 DEF UniqueIn
  <2>4. i \in 1..2 /\ pin = <<s.id, i>> /\ s.nodes[i] = k  BY <1>2, <2>2, <2>3
  <2>5. i = 1 \/ i = 2  BY <2>4, SMT
  <2> QED BY <1>2, <2>4, <2>5
<1>o. ~Driving(m, <<s.id, 1>>)
  BY <1>1, <1>2 DEF Driving, UniqueIn
<1>4. ASSUME NEW k, k # b, NEW pin PROVE Drives(new, pin, k) <=> Drives(m, pin, k)
  <2>1. ASSUME Drives(new, pin, k) PROVE Drives(m, pin, k)
    <3>1. pin[1] # s.id /\ Driving(m, pin)  BY <1>d, <2>1 DEF Drives
    <3>2. PICK j : Holds(m, pin, j) /\ k = Joined(a, b, j)  BY <1>h, <2>1 DEF Drives
    <3>3. j # b
      <4>1. j = b => pin = <<s.id, 2>>  BY <1>2, <3>1, <3>2 DEF Drives
      <4> QED BY <3>1, <4>1, SMT
    <3> QED BY <3>1, <3>2, <3>3 DEF Drives, Joined
  <2>2. ASSUME Drives(m, pin, k) PROVE Drives(new, pin, k)
    <3>1. Holds(m, pin, k) /\ Driving(m, pin)  BY <2>2 DEF Drives
    <3>2. pin[1] # s.id  BY <1>4, <1>o, <1>p, <3>1
    <3>3. k = Joined(a, b, k)  BY <1>4 DEF Joined
    <3> QED BY <1>d, <1>h, <3>1, <3>2, <3>3 DEF Drives
  <2> QED BY <2>1, <2>2
<1>5. ASSUME NEW j, NEW k, k # b, Feeds(m, j, k) PROVE Feeds(new, Joined(a, b, j), k)
  <2>1. PICK q \in LiveIn(m) : Buffers(m, q, j, k)  BY <1>5 DEF Feeds
  <2>2. q # p  BY <1>2, <1>5, <2>1 DEF Buffers
  <2>y. SlotAt(m, q).kind = "YES"  BY <2>1 DEF Buffers
  <2>d. DOMAIN SlotAt(m, q).nodes = 1..2  BY <2>y, YesFacts
  <2>3. q \in LiveIn(new) /\ DOMAIN SlotAt(m, q).nodes = 1..2  BY <1>3, <2>1, <2>2, <2>d
  <2>4. /\ SlotAt(new, q).nodes[1] = Joined(a, b, j) /\ SlotAt(new, q).nodes[2] = Joined(a, b, k)
        /\ SlotAt(new, q).id = SlotAt(m, q).id /\ SlotAt(new, q).kind = "YES"
    <3>1. 1 \in DOMAIN SlotAt(m, q).nodes /\ 2 \in DOMAIN SlotAt(m, q).nodes  BY <2>3, SMT
    <3> QED BY <1>3, <2>1, <2>3, <3>1 DEF Buffers
  <2>5. Joined(a, b, k) = k /\ Joined(a, b, j) # Nullptr  BY <1>1, <1>5, <2>1 DEF Joined, Buffers
  <2>6. \A pin : Drives(new, pin, k) <=> pin = <<SlotAt(new, q).id, 2>>  BY <1>4, <1>5, <2>1, <2>4 DEF Buffers
  <2> QED BY <2>3, <2>4, <2>5, <2>6 DEF Feeds, Buffers
<1>6. ASSUME NEW j, NEW k, Feeds(new, j, k) PROVE k # b /\ FedJoined(m, a, b, j, k)
  <2>1. PICK q \in LiveIn(new) : Buffers(new, q, j, k)  BY <1>6 DEF Feeds
  <2>2. q \in LiveIn(m) /\ SlotAt(m, q).kind = "YES" /\ SlotAt(new, q).id = SlotAt(m, q).id
    BY <1>3, <2>1 DEF Buffers
  <2>3. DOMAIN SlotAt(m, q).nodes = 1..2 /\ Holds(m, <<SlotAt(m, q).id, 2>>, SlotAt(m, q).nodes[2])
    BY <2>2, YesFacts
  <2>4. j = Joined(a, b, SlotAt(m, q).nodes[1]) /\ k = Joined(a, b, SlotAt(m, q).nodes[2]) /\ j # Nullptr
    <3>1. 1 \in DOMAIN SlotAt(m, q).nodes /\ 2 \in DOMAIN SlotAt(m, q).nodes  BY <2>3, SMT
    <3> QED BY <1>3, <2>1, <3>1 DEF Buffers
  <2>5. k # b  BY <2>4 DEF Joined
  <2>6. \A pin : Drives(m, pin, k) <=> pin = <<SlotAt(m, q).id, 2>>  BY <1>4, <2>1, <2>2, <2>5 DEF Buffers
  <2>7. Holds(m, <<SlotAt(m, q).id, 2>>, k)  BY <2>6 DEF Drives
  <2>8. SlotAt(m, q).nodes[2] = k  BY <1>1, <2>3, <2>7, HoldsUnique
  <2>9. SlotAt(m, q).nodes[1] # Nullptr  BY <1>1, <2>4 DEF Joined
  <2>10. Feeds(m, SlotAt(m, q).nodes[1], k)  BY <2>2, <2>6, <2>8, <2>9 DEF Feeds, Buffers
  <2> QED BY <2>4, <2>5, <2>10 DEF FedJoined
<1> QED BY <1>5, <1>6

\* Removing one buffer that may be removed.
LEMMA EliminateShorts ==
    ASSUME NEW n, Sound(n), Listed(n), NEW p \in Live(n), At(n, p).kind = "YES", NEW protected,
           EliminateYes(n, p, protected) # n
    PROVE  LET r == EliminateYes(n, p, protected)
               a == At(n, p).nodes[1]
               b == At(n, p).nodes[2]
           IN  /\ a \in Nodes(n) /\ b \in Nodes(n) /\ a # b
               /\ Buffers(n.models, p, a, b) /\ Shorted(n.models, r.models, p, a, b)
               /\ Listed(r)
<1> DEFINE m == n.models
           r == EliminateYes(n, p, protected)
           s == At(n, p)
           a == s.nodes[1]
           b == s.nodes[2]
           driver == <<s.id, 2>>
           mid == MoveConsumers(n, b, a, driver)
           moved == n.node[b].pins \ {driver}
<1>0. p \in LiveIn(m) /\ s = SlotAt(m, p) /\ UniqueIn(m) /\ m \in ChunksOf(SlotOf(Nodes(n)))  BY SoundFacts
<1>1. /\ a # Nullptr /\ b # Nullptr /\ a # b
      /\ Drivers(n, b) = {driver}
      /\ r = DeleteModelFrom(mid, p[1], p[2])
  BY DEF EliminateYes
<1>2. a \in Nodes(n) /\ b \in Nodes(n) /\ DOMAIN s.nodes = 1..2 /\ Holds(m, driver, b) /\ Holds(m, <<s.id, 1>>, a)
  <2>1. SlotAt(m, p).kind = "YES"  BY <1>0
  <2>2. /\ DOMAIN SlotAt(m, p).nodes = 1..2
        /\ SlotAt(m, p).nodes[1] \in Nodes(n) \cup {Nullptr} /\ SlotAt(m, p).nodes[2] \in Nodes(n) \cup {Nullptr}
        /\ Holds(m, <<SlotAt(m, p).id, 1>>, SlotAt(m, p).nodes[1])
        /\ Holds(m, <<SlotAt(m, p).id, 2>>, SlotAt(m, p).nodes[2])
    BY <1>0, <2>1, YesFacts
  <2> QED BY <1>0, <1>1, <2>2
<1>3. Buffers(m, p, a, b)
  <2>1. \A pin : Drives(m, pin, b) <=> pin = driver
    <3>1. \A pin : pin \in Drivers(n, b) <=> Drives(m, pin, b)  BY <1>2, DriversFacts
    <3> QED BY <1>1, <3>1
  <2> QED BY <1>0, <1>1, <2>1 DEF Buffers
<1>4. p[1] \in Nat \ {0} /\ p[2] \in Nat \ {0} /\ p = <<p[1], p[2]>>
  <2>1. p \in SlotsIn(m) /\ p \in Nat \X Nat  BY <1>0, LiveFacts
  <2>2. p[1] \in 1..Len(m) /\ p[2] \in 1..Len(m[p[1]].slots)  BY <1>0, <2>1, ChunkFacts
  <2> HIDE DEF m
  <2> QED BY <2>1, <2>2, SMTT(30)
<1>5. driver \in Nat \X Nat
  <2>1. 2 \in DOMAIN s.nodes  BY <1>2, SMT
  <2> QED BY <2>1, PinHolds
<1> HIDE DEF r, s
<1>6. Sound(mid) /\ Nodes(mid) = Nodes(n)
  <2> HIDE DEF a, b, driver
  <2> QED BY <1>1, <1>2, <1>5, MoveConsumersAdvances DEF Advances
<1>7. mid.models = Repoint(m, moved, a)  BY DEF MoveConsumers
<1>8. /\ mid.node[b].pins = {driver} /\ mid.node[a].pins = n.node[a].pins \cup moved
      /\ \A k \in Nodes(n) : k # a /\ k # b => mid.node[k] = n.node[k]
  <2>1. n.node \in [Nodes(n) -> NodeType]  BY SoundFacts
  <2> DEFINE A == [pins |-> {driver}, an |-> n.node[b].an]
             B == [pins |-> n.node[a].pins \cup moved, an |-> n.node[a].an]
  <2>2. mid.node = [n.node EXCEPT ![b] = A, ![a] = B]
    <3> HIDE DEF a, b, driver
    <3> QED BY <1>1, <1>2, <2>1 DEF MoveConsumers
  <2>3. A.pins = {driver} /\ B.pins = n.node[a].pins \cup moved  OBVIOUS
  <2> HIDE DEF A, B, mid, moved, driver, a, b
  <2> QED BY <1>1, <1>2, <2>1, <2>2, <2>3
<1>9. \A pin : pin \in moved <=> Holds(m, pin, b) /\ pin # driver
  <2>1. \A pin : pin \in n.node[b].pins <=> Holds(m, pin, b)  BY <1>2, PinsToHolds, SMT DEF Listed
  <2> QED BY <2>1
<1> HIDE DEF mid, moved
<1>10. /\ LiveIn(mid.models) = LiveIn(m)
       /\ \A q \in LiveIn(m) : SlotAt(mid.models, q) = Point(SlotAt(m, q), moved, a)
  <2>1. /\ SlotsIn(mid.models) = SlotsIn(m)
        /\ \A q \in SlotsIn(m) : SlotAt(mid.models, q) = Point(SlotAt(m, q), moved, a)
    <3> HIDE DEF a
    <3> QED BY <1>0, <1>2, <1>7, RepointEffect, SMT
  <2>2. \A q \in SlotsIn(m) : SlotAt(m, q) \in SlotOf(Nodes(n))  BY <1>0, ChunkFacts
  <2>3. \A q \in SlotsIn(m) : SlotAt(mid.models, q).type = SlotAt(m, q).type
    <3> HIDE DEF a, m
    <3> QED BY <1>2, <2>1, <2>2, PointFacts, SMT
  <2> QED BY <2>1, <2>3 DEF LiveIn
<1>11. Dropped(mid.models, r.models, p) /\ Sound(r) /\ Nodes(r) = Nodes(n)
  BY <1>1, <1>4, <1>6, DeleteModelAdvances DEF Advances
<1>12. Shorted(m, r.models, p, a, b)
  <2>1. LiveIn(r.models) = LiveIn(m) \ {p}  BY <1>10, <1>11 DEF Dropped
  <2>2. ASSUME NEW q \in LiveIn(r.models)
        PROVE  /\ SlotAt(r.models, q).id = SlotAt(m, q).id /\ SlotAt(r.models, q).kind = SlotAt(m, q).kind
               /\ DOMAIN SlotAt(r.models, q).nodes = DOMAIN SlotAt(m, q).nodes
               /\ \A i \in DOMAIN SlotAt(m, q).nodes : SlotAt(r.models, q).nodes[i] = Joined(a, b, SlotAt(m, q).nodes[i])
    <3> DEFINE t == SlotAt(m, q)
               u == SlotAt(r.models, q)
    <3>1. q \in LiveIn(m) /\ q # p  BY <2>1
    <3>2. u = Point(t, moved, a)  BY <1>10, <1>11, <3>1 DEF Dropped
    <3>3. t \in SlotOf(Nodes(n))  BY <1>0, <3>1, LiveFacts
    <3>4. /\ u.kind = t.kind /\ u.id = t.id /\ DOMAIN u.nodes = DOMAIN t.nodes
          /\ \A i \in DOMAIN t.nodes : u.nodes[i] = IF <<t.id, i>> \in moved THEN a ELSE t.nodes[i]
      <4> HIDE DEF t, u, a
      <4> QED BY <1>2, <3>2, <3>3, PointFacts, SMT
    <3>5. ASSUME NEW i \in DOMAIN t.nodes PROVE <<t.id, i>> \in moved <=> t.nodes[i] = b
      <4>1. Holds(m, <<t.id, i>>, t.nodes[i])  BY <3>1 DEF Holds
      <4>2. t.id # s.id  BY <1>0, <3>1 DEF UniqueIn
      <4>3. <<t.id, i>> # driver  BY <4>2
      <4>4. Holds(m, <<t.id, i>>, b) <=> t.nodes[i] = b  BY <1>0, <4>1, HoldsUnique
      <4> HIDE DEF driver, t, a, b
      <4> QED BY <1>9, <4>3, <4>4
    <3> QED BY <3>4, <3>5 DEF Joined
  <2> QED BY <2>1, <2>2 DEF Shorted
<1>13. Listed(r)
  <2> SUFFICES ASSUME NEW k \in Nodes(n), NEW pin PROVE pin \in r.node[k].pins <=> Holds(r.models, pin, k)
    <3>1. ASSUME NEW k \in Nodes(n), \A pin : pin \in r.node[k].pins <=> Holds(r.models, pin, k)
          PROVE  r.node[k].pins = PinsTo(r, k)
      <4>1. \A pin : pin \in PinsTo(r, k) <=> Holds(r.models, pin, k)  BY PinsToHolds
      <4>2. \A pin : pin \in r.node[k].pins <=> pin \in PinsTo(r, k)  BY <3>1, <4>1
      <4>3. r.node[k].pins \in SUBSET (Nat \X Nat)  BY <1>11, SoundFacts
      <4>4. r.node[k].pins \subseteq PinsTo(r, k) /\ PinsTo(r, k) \subseteq r.node[k].pins  BY <4>2
      <4> QED BY <4>4
    <3> QED BY <1>11, <3>1 DEF Listed
  <2>1. pin \in r.node[k].pins => Holds(r.models, pin, k)  BY <1>11, SoundFacts
  <2>2. r.node[k].pins = mid.node[k].pins \ PinsOn(SlotAt(mid.models, p), k)
    <3>1. mid.models \in ChunksOf(SlotOf(Nodes(n))) /\ mid.node \in [Nodes(n) -> NodeType]  BY <1>6, SoundFacts
    <3>2. p \in LiveIn(mid.models)  BY <1>0, <1>10
    <3>3. r = [models |-> r.models, node |-> RemoveFromNodes(mid.node, SlotAt(mid.models, p))]
      BY <1>1, <1>4, <3>1, <3>2, DeleteEffect
    <3>4. k \in DOMAIN mid.node  BY <3>1
    <3> QED BY <3>3, <3>4, SMT DEF RemoveFromNodes
  <2>3. \A x \in PinsOn(SlotAt(mid.models, p), k) : x[1] = s.id
    <3>1. SlotAt(mid.models, p).id = s.id
      <4>1. SlotAt(m, p) \in SlotOf(Nodes(n))  BY <1>0, LiveFacts
      <4> HIDE DEF a
      <4> QED BY <1>0, <1>2, <1>10, <4>1, PointFacts, SMT
    <3> QED BY <3>1, SMT DEF PinsOn
  <2>4. ASSUME Holds(r.models, pin, k) PROVE pin \in r.node[k].pins
    <3>1. pin[1] # s.id /\ \E j : Holds(m, pin, j) /\ k = Joined(a, b, j)
      <4>1. \A x : Holds(r.models, x, k) <=> x[1] # SlotAt(m, p).id /\ \E j : Holds(m, x, j) /\ k = Joined(a, b, j)
        <5> HIDE DEF a, b, m
        <5> QED BY <1>0, <1>12, ShortedHolds, SMT
      <4> QED BY <1>0, <2>4, <4>1
    <3>2. PICK j : Holds(m, pin, j) /\ k = Joined(a, b, j)  BY <3>1
    <3>3. pin \in mid.node[k].pins
      <4>1. CASE j = b
        <5>1. k = a /\ pin # driver  BY <3>1, <3>2, <4>1, SMT DEF Joined
        <5>2. pin \in moved  BY <1>9, <3>2, <4>1, <5>1
        <5> QED BY <1>8, <5>1, <5>2
      <4>2. CASE j # b
        <5>1. k = j /\ pin \in n.node[k].pins  BY <3>2, <4>2, PinsToHolds DEF Joined, Listed
        <5> QED BY <1>8, <4>2, <5>1
      <4> QED BY <4>1, <4>2
    <3> QED BY <2>2, <2>3, <3>1, <3>3
  <2> QED BY <2>1, <2>4
<1> QED BY <1>1, <1>2, <1>3, <1>12, <1>13 DEF r, s

\* What each node reads through one buffer.
NextYes(n) == [k \in Nodes(n) |-> BehindYes(n, k)]

\* A node reads a node.
LEMMA NextYesType ==
    ASSUME NEW n, Sound(n), Listed(n)
    PROVE  NextYes(n) \in [Nodes(n) -> Nodes(n)] /\ \A k \in Nodes(n) : NextYes(n)[k] = BehindYes(n, k)
<1>1. \A k \in Nodes(n) : BehindYes(n, k) \in Nodes(n)  BY BehindFacts
<1> QED BY <1>1 DEF NextYes

\* The source of a node is what it reads through MaxModels buffers.
LEMMA SourceChain ==
    ASSUME NEW n, Sound(n), Listed(n), NEW k \in Nodes(n)
    PROVE  /\ Source(n, k) \in Nodes(n)
           /\ \A t : Chain(Nodes(n), NextYes(n), MaxModels, k, t) <=> Source(n, k) = t
<1> DEFINE N == Nodes(n)
           w == MaxModels
           next == NextYes(n)
           round == [x \in N \X (1..w) |-> next[x[1]]]
           IsBack(f) == f = [i \in 0..w |-> IF i = 0 THEN k ELSE BehindYes(n, f[i - 1])]
           back == CHOOSE f : IsBack(f)
<1>0. w \in Nat  BY SizesAssumption
<1>1. next \in [N -> N] /\ \A x \in N : next[x] = BehindYes(n, x)  BY NextYesType
<1> HIDE DEF next
<1>2. round \in [N \X (1..w) -> N]
  <2> HIDE DEF w, N
  <2> QED BY <1>1
<1>3. PICK g \in [0..w -> N] : Rounds(g, w, k, round)
  <2> HIDE DEF w, round
  <2> QED BY <1>0, <1>2, LoopValues
<1>4. g[0] = k /\ \A i \in 1..w : g[i] = next[g[i - 1]] /\ g[i] = BehindYes(n, g[i - 1])
  <2>1. g[0] = k /\ \A i \in 1..w : g[i] = round[<<g[i - 1], i>>]  BY <1>3 DEF Rounds
  <2> HIDE DEF N, w
  <2>2. \A i \in 1..w : g[i - 1] \in N /\ <<g[i - 1], i>> \in N \X (1..w)  BY <1>0, SMT
  <2>3. \A i \in 1..w : g[i] = next[g[i - 1]]  BY <2>1, <2>2
  <2> QED BY <1>1, <2>1, <2>2, <2>3
<1> HIDE DEF round
<1>5. IsBack(g)
  <2> HIDE DEF w, N
  <2> QED BY <1>0, <1>4, SMT
<1>6. IsBack(back)
  <2> HIDE DEF IsBack
  <2> QED BY <1>5
<1>7. Source(n, k) = back[w]
  BY DEF Source
<1> HIDE DEF back, N, w
<1>8. back[0] = k /\ \A i \in 1..w : back[i] = BehindYes(n, back[i - 1])
  <2>1. back[0] = k  BY <1>0, <1>6, SMT
  <2>2. \A i \in 1..w : i \in 0..w /\ i # 0  BY <1>0, SMT
  <2> QED BY <1>6, <2>1, <2>2
<1>9. \A i \in 0..w : back[i] \in N
  <2> DEFINE S == {i \in Nat : i <= w => back[i] \in N}
  <2>1. 0 \in S  BY <1>8 DEF N
  <2>2. ASSUME NEW i \in S PROVE i + 1 \in S
    <3> SUFFICES ASSUME i + 1 <= w PROVE back[i + 1] \in N
      BY SMT
    <3>1. i + 1 \in 1..w /\ (i + 1) - 1 = i /\ back[i] \in N  BY <1>0, SMT
    <3>2. back[i + 1] = BehindYes(n, back[i])  BY <1>8, <3>1
    <3> QED BY <1>1, <3>1, <3>2
  <2>3. S = Nat
    <3>1. S \in SUBSET Nat  OBVIOUS
    <3> HIDE DEF S
    <3> QED BY <2>1, <2>2, <3>1, Induct
  <2> QED BY <1>0, <2>3, SMT
<1>10. \A i \in 1..w : back[i] = next[back[i - 1]]
  <2>1. \A i \in 1..w : i - 1 \in 0..w  BY <1>0, SMT
  <2> QED BY <1>1, <1>8, <1>9, <2>1
<1>11. k \in N  BY DEF N
<1>12. back[w] \in N /\ \A t : Chain(N, next, w, k, t) <=> back[w] = t
  <2>1. Follows(back, next, w, k)  BY <1>8, <1>10 DEF Follows
  <2> QED BY <1>0, <1>1, <1>11, <2>1, ChainLoop
<1> QED BY <1>7, <1>12 DEF N, w, next

\* The pin reads node t through the buffers, and no buffer drives node t.
Reads(n, pin, t) ==
    /\ Listed(n) /\ BehindYes(n, t) = t
    /\ \A k : Holds(n.models, pin, k) => k \in Nodes(n) /\ Source(n, k) = t

\* A node with a source in n has it in n without one buffer, if it is what the buffer's output
\* was joined to.
LEMMA SourceStep ==
    ASSUME NEW n, Sound(n), NEW p \in Live(n), At(n, p).kind = "YES", NEW protected,
           NEW t \in Nodes(n), NEW pin, Reads(n, pin, t)
    PROVE  Reads(EliminateYes(n, p, protected), pin, t)
<1>r. /\ Listed(n) /\ BehindYes(n, t) = t
      /\ \A k : Holds(n.models, pin, k) => k \in Nodes(n) /\ Source(n, k) = t
  BY DEF Reads
<1> DEFINE r == EliminateYes(n, p, protected)
           m == n.models
           a == At(n, p).nodes[1]
           b == At(n, p).nodes[2]
<1>0. Sound(r) /\ Nodes(r) = Nodes(n) /\ UniqueIn(m)  BY <1>r, EliminateYesAdvances, SoundFacts
<1>1. CASE r = n
  BY <1>1 DEF r
<1>2. CASE r # n
  <2>1. /\ a \in Nodes(n) /\ b \in Nodes(n) /\ a # b
        /\ Buffers(m, p, a, b) /\ Shorted(m, r.models, p, a, b) /\ Listed(r)
    BY <1>2, <1>r, EliminateShorts
  <2> HIDE DEF r, a, b
  <2>p. p \in LiveIn(m)  BY SoundFacts
  <2>2. /\ \A j, x : x # b /\ Feeds(m, j, x) => Feeds(r.models, Joined(a, b, j), x)
        /\ \A j, x : Feeds(r.models, j, x) => x # b /\ \E i : Feeds(m, i, x) /\ j = Joined(a, b, i)
    <3>1. PICK new : new = r.models  OBVIOUS
    <3>2. /\ p \in LiveIn(n.models) /\ a \in Nodes(n) /\ b \in Nodes(n) /\ a # b
          /\ Buffers(n.models, p, a, b) /\ Shorted(n.models, new, p, a, b)
      BY <2>1, <2>p, <3>1
    <3>3. /\ \A j, x : x # b /\ Feeds(n.models, j, x) => Feeds(new, Joined(a, b, j), x)
          /\ \A j, x : Feeds(new, j, x) => x # b /\ FedJoined(n.models, a, b, j, x)
      BY <3>2, ShortedFeeds
    <3> QED BY <3>1, <3>3 DEF FedJoined
  <2>3. BehindYes(n, b) = a
    <3>1. Feeds(m, a, b)  BY <2>1, <2>p DEF Feeds
    <3> QED BY <1>r, <2>1, <3>1, BehindFacts
  <2>4. ASSUME NEW x \in Nodes(n), x # b PROVE BehindYes(r, x) = Joined(a, b, BehindYes(n, x))
    <3>r. x \in Nodes(r)  BY <1>0
    <3>1. CASE \E j : Feeds(m, j, x)
      <4>1. PICK j : Feeds(m, j, x)  BY <3>1
      <4>2. BehindYes(n, x) = j  BY <1>r, <4>1, BehindFacts
      <4>3. Feeds(r.models, Joined(a, b, j), x)  BY <2>2, <2>4, <4>1
      <4>4. BehindYes(r, x) = Joined(a, b, j)  BY <1>0, <2>1, <3>r, <4>3, BehindFacts
      <4> QED BY <4>2, <4>4
    <3>2. CASE \A j : ~Feeds(m, j, x)
      <4>1. BehindYes(n, x) = x  BY <1>r, <3>2, BehindFacts
      <4>2. \A j : ~Feeds(r.models, j, x)  BY <2>2, <3>2
      <4>3. BehindYes(r, x) = x  BY <1>0, <2>1, <3>r, <4>2, BehindFacts
      <4> QED BY <2>4, <4>1, <4>3 DEF Joined
    <3> QED BY <3>1, <3>2
  <2>5. /\ NextYes(n) \in [Nodes(n) -> Nodes(n)] /\ NextYes(r) \in [Nodes(n) -> Nodes(n)]
        /\ \A x \in Nodes(n) : NextYes(n)[x] = BehindYes(n, x) /\ NextYes(r)[x] = BehindYes(r, x)
    BY <1>r, <1>0, <2>1, NextYesType
  <2>6. \A x \in Nodes(n) : x # b => NextYes(r)[x] = Joined(a, b, NextYes(n)[x])  BY <2>4, <2>5
  <2>7. NextYes(n)[b] = a /\ NextYes(n)[t] = t  BY <1>r, <2>1, <2>3, <2>5
  <2>8. /\ NextYes(r)[t] = t
        /\ \A e \in Nat, x \in Nodes(n) :
             Chain(Nodes(n), NextYes(n), e, x, t) => Chain(Nodes(n), NextYes(r), e, Joined(a, b, x), t)
    BY <2>1, <2>5, <2>6, <2>7, ChainJoined, SMT
  <2>9. BehindYes(r, t) = t  BY <2>5, <2>8
  <2>10. \A x \in Nodes(n) : Joined(a, b, x) \in Nodes(n)  BY <2>1 DEF Joined
  <2>11. ASSUME NEW k \in Nodes(n), Source(n, k) = t PROVE Source(r, Joined(a, b, k)) = t
    <3>1. Chain(Nodes(n), NextYes(n), MaxModels, k, t)  BY <1>r, <2>11, SourceChain
    <3>2. Chain(Nodes(r), NextYes(r), MaxModels, Joined(a, b, k), t)  BY <1>0, <2>8, <3>1, SizesAssumption
    <3> QED BY <1>0, <2>1, <2>10, <3>2, SourceChain
  <2>12. ASSUME NEW j, Holds(r.models, pin, j) PROVE j \in Nodes(r) /\ Source(r, j) = t
    <3>1. \A x : Holds(r.models, pin, x) <=>
              pin[1] # SlotAt(m, p).id /\ \E i : Holds(m, pin, i) /\ x = Joined(a, b, i)
      <4>1. Shorted(m, r.models, p, a, b) /\ UniqueIn(m) /\ p \in LiveIn(m)  BY <1>0, <2>1, <2>p
      <4> HIDE DEF m
      <4> QED BY <4>1, ShortedHolds, SMT
    <3>2. PICK i : Holds(m, pin, i) /\ j = Joined(a, b, i)  BY <2>12, <3>1
    <3>3. i \in Nodes(n) /\ Source(n, i) = t  BY <1>r, <3>2
    <3> QED BY <1>0, <2>10, <2>11, <3>2, <3>3
  <2>13. Reads(r, pin, t)  BY <2>1, <2>9, <2>12 DEF Reads
  <2> QED BY <2>13 DEF r
<1> QED BY <1>1, <1>2

\* A pin with a source keeps it until its model is removed.
LEMMA SourceLoop ==
    ASSUME NEW n, Sound(n), Listed(n), NEW protected,
           NEW k \in Nodes(n), NEW pin, Holds(n.models, pin, k), BehindYes(n, Source(n, k)) = Source(n, k)
    PROVE  LET r == EliminateYesBuffers(n, protected)
           IN  \A j : Holds(r.models, pin, j) => Source(r, j) = Source(n, k)
<1> DEFINE t == Source(n, k)
<1>1. PICK w \in Nat : \E g, order : Removal(n, protected, w, g, order)
  BY EliminateLoop
<1>2. PICK g, order : Removal(n, protected, w, g, order)  BY <1>1
<1>r. /\ g[0] = n /\ g[w] = EliminateYesBuffers(n, protected)
      /\ \A i \in 1..w : /\ g[i] = EliminateYes(g[i - 1], order[i], protected)
                         /\ order[i] \in Live(g[i - 1]) /\ At(g[i - 1], order[i]).kind = "YES"
      /\ \A i \in 0..w : Sound(g[i]) /\ Nodes(g[i]) = Nodes(n)
  BY <1>2 DEF Removal
<1>t. t \in Nodes(n)  BY SourceChain
<1> HIDE DEF t
<1> DEFINE S == {i \in Nat : i <= w => Reads(g[i], pin, t)}
<1>3. Reads(n, pin, t)
  <2>1. UniqueIn(n.models)  BY SoundFacts
  <2>2. \A j : Holds(n.models, pin, j) => j = k  BY <2>1, HoldsUnique
  <2> QED BY <2>2 DEF t, Reads
<1>4. 0 \in S  BY <1>r, <1>3
<1>5. ASSUME NEW i \in S PROVE i + 1 \in S
  <2> SUFFICES ASSUME i + 1 <= w PROVE Reads(g[i + 1], pin, t)
    BY SMT
  <2> DEFINE x == g[i]
             p == order[i + 1]
  <2>0. i \in Nat /\ i + 1 \in 1..w /\ (i + 1) - 1 = i /\ i <= w /\ i \in 0..w  BY SMT
  <2>1. /\ g[i + 1] = EliminateYes(x, p, protected) /\ p \in Live(x) /\ At(x, p).kind = "YES"
        /\ Sound(x) /\ Nodes(x) = Nodes(n)
    BY <1>r, <2>0
  <2>2. Reads(x, pin, t)  BY <2>0
  <2> HIDE DEF x, p, S
  <2>3. t \in Nodes(x)  BY <1>t, <2>1
  <2> QED BY <2>1, <2>2, <2>3, SourceStep
<1>6. S = Nat
  <2>1. S \in SUBSET Nat  OBVIOUS
  <2> HIDE DEF S
  <2> QED BY <1>4, <1>5, <2>1, Induct
<1>7. w \in S
  <2> HIDE DEF S
  <2> QED BY <1>6
<1>8. Reads(g[w], pin, t)  BY <1>7, SMT
<1> HIDE DEF S
<1> QED BY <1>r, <1>8 DEF Reads, t

\* Removing buffers, in any order and whichever are protected, leaves every pin of every
\* surviving model with the source it had, as long as nodes list the pins that point to them.
THEOREM SourceCorrect == Spec => SourceKept
<1> DEFINE Kept == op' = "eliminate_yes" /\ Listed(nl) =>
        \A k \in Nodes(nl) : \A pin \in nl.node[k].pins :
            (pin \in LivePins(nl') /\ BehindYes(nl, Source(nl, k)) = Source(nl, k)) =>
                Source(nl', NodeOf(nl', pin)) = Source(nl, k)
<1>1. ASSUME Inv, Inv', Next PROVE Kept
  <2> SUFFICES ASSUME op' = "eliminate_yes", Listed(nl), NEW k \in Nodes(nl), NEW pin \in nl.node[k].pins,
                      pin \in LivePins(nl'), BehindYes(nl, Source(nl, k)) = Source(nl, k)
               PROVE  Source(nl', NodeOf(nl', pin)) = Source(nl, k)
    OBVIOUS
  <2>0. Sound(nl) /\ Sound(nl')  BY <1>1 DEF Inv
  <2>1. PICK protected : nl' = EliminateYesBuffers(nl, protected)
    BY <1>1 DEF Next, AddModel, DeleteModel, AddToNode, RemoveFromNode, CreateNode, DeleteNode,
       MergeNode, Eliminate, Snapshot, Restore, AddNetlist, AssignNetlist, OnNl, Call
  <2>2. Holds(nl.models, pin, k)  BY <2>0, SoundFacts
  <2>3. \A j : Holds((nl').models, pin, j) => Source(nl', j) = Source(nl, k)
    BY <2>0, <2>1, <2>2, SourceLoop, SMT
  <2>4. Holds((nl').models, pin, NodeOf(nl', pin))
    <3>1. /\ UniqueIn((nl').models) /\ Live(nl') = LiveIn((nl').models)
          /\ \A p : At(nl', p) = SlotAt((nl').models, p)
      BY <2>0, SoundFacts
    <3>2. PICK p \in Live(nl') : \E i \in DOMAIN At(nl', p).nodes : pin = <<At(nl', p).id, i>>
      BY DEF LivePins
    <3>3. PICK i \in DOMAIN At(nl', p).nodes : pin = <<At(nl', p).id, i>>  BY <3>2
    <3>4. Owner(nl', pin) = p  BY <3>1, <3>3 DEF Owner, UniqueIn
    <3> QED BY <3>1, <3>3, <3>4 DEF NodeOf, Holds
  <2> QED BY <2>3, <2>4
<1>2. Inv /\ Inv' /\ [Next]_vars => [Kept]_vars  BY <1>1
<1> HIDE DEF Kept
<1>3. Spec => [][Kept]_vars  BY <1>2, InvHolds, PTL DEF Spec
<1> QED BY <1>3 DEF SourceKept, Kept

-----------------------------------------------------------------------------
(* The subnets that float.                                                 *)

\* Ties go both ways.
LEMMA TiesGraph ==
    ASSUME NEW n, Sound(n)
    PROVE  Graph(Nodes(n), Ties(n))
<1>1. PICK K \in Nat : Nodes(n) = 0..K  BY TypedFacts DEF Sound
<1>2. IsFiniteSet(0..K)
  <2>1. 0 \in Int /\ K \in Int  BY SMT
  <2> QED BY <2>1, FS_Interval
<1>3. Nodes(n) \in SUBSET Nat  BY SoundFacts
<1>4. Ties(n) \in [Nodes(n) -> SUBSET Nodes(n)]  BY DEF Ties
<1>5. \A j, k \in Nodes(n) : k \in Ties(n)[j] => j \in Ties(n)[k]  BY DEF Ties
<1> QED BY <1>1, <1>2, <1>3, <1>4, <1>5 DEF Graph

\* The walk finds the nodes a node is tied to, when nodes list the pins that point to them.
LEMMA NeighboursTied ==
    ASSUME NEW n, Sound(n), Listed(n), NEW k \in Nodes(n)
    PROVE  Neighbours(n, k) = Ties(n)[k]
<1>1. /\ n.models \in ChunksOf(SlotOf(Nodes(n))) /\ UniqueIn(n.models) /\ Live(n) = LiveIn(n.models)
      /\ \A p : At(n, p) = SlotAt(n.models, p)
  BY SoundFacts
<1>2. \A pin : pin \in n.node[k].pins <=> Holds(n.models, pin, k)  BY PinsToHolds DEF Listed
<1>3. ASSUME NEW p \in Live(n), NEW pin, pin[1] = At(n, p).id PROVE Owner(n, pin) = p
  BY <1>1, <1>3 DEF Owner, UniqueIn
<1>4. \A j : j \in Ties(n)[k] <=>
               j \in Nodes(n) /\ \E p \in Live(n) : k \in Range(At(n, p).nodes) /\ j \in Range(At(n, p).nodes)
  BY DEF Ties
<1>5. \A j : j \in Neighbours(n, k) <=>
               j \in Nodes(n) /\ \E pin \in n.node[k].pins : j \in Range(At(n, Owner(n, pin)).nodes)
  BY DEF Neighbours
<1>6. ASSUME NEW j \in Neighbours(n, k) PROVE j \in Ties(n)[k]
  <2>1. j \in Nodes(n)  BY <1>6, <1>5
  <2>2. PICK pin \in n.node[k].pins : j \in Range(At(n, Owner(n, pin)).nodes)  BY <1>6, <1>5
  <2>3. PICK p \in Live(n) : \E i \in DOMAIN At(n, p).nodes : pin = <<At(n, p).id, i>> /\ At(n, p).nodes[i] = k
    BY <1>1, <1>2 DEF Holds
  <2>4. PICK i \in DOMAIN At(n, p).nodes : pin = <<At(n, p).id, i>> /\ At(n, p).nodes[i] = k
    BY <2>3
  <2>5. Owner(n, pin) = p /\ k \in Range(At(n, p).nodes)
    <3>1. pin[1] = At(n, p).id  BY <2>4, SMT
    <3> QED BY <1>3, <2>4, <3>1 DEF Range
  <2> QED BY <1>4, <2>1, <2>2, <2>5
<1>7. ASSUME NEW j \in Ties(n)[k] PROVE j \in Neighbours(n, k)
  <2>1. PICK p \in Live(n) : k \in Range(At(n, p).nodes) /\ j \in Range(At(n, p).nodes)  BY <1>4, <1>7
  <2>2. j \in Nodes(n)  BY <1>4, <1>7
  <2>3. PICK i \in DOMAIN At(n, p).nodes : At(n, p).nodes[i] = k  BY <2>1 DEF Range
  <2> DEFINE pin == <<At(n, p).id, i>>
  <2>4. pin[1] = At(n, p).id  BY SMT
  <2>5. pin \in n.node[k].pins  BY <1>1, <1>2, <2>3 DEF Holds
  <2> HIDE DEF pin
  <2>6. Owner(n, pin) = p  BY <1>3, <2>4
  <2> QED BY <1>5, <2>1, <2>2, <2>5, <2>6
<1> QED BY <1>6, <1>7

\* detect() is exact for every netlist that any sequence of calls leads to.
THEOREM FloatingCorrect == Spec => []FloatingExact
<1>1. Inv => FloatingExact
  <2> SUFFICES ASSUME Inv, Listed(nl)
               PROVE  LET found == Detect(nl)
                          ties == Ties(nl)
                      IN  /\ {Range(found[i]) : i \in 1..Len(found)} =
                                 {Reach(ties, k) : k \in UsedNodes(nl) \ Reach(ties, Ground)}
                          /\ \A i \in 1..Len(found) : Cardinality(Range(found[i])) = Len(found[i])
                          /\ \A i, j \in 1..Len(found) : i # j => Range(found[i]) \cap Range(found[j]) = {}
    BY DEF FloatingExact
  <2> DEFINE V == Nodes(nl)
             ties == Ties(nl)
             next == [k \in V |-> Neighbours(nl, k)]
             used == UsedNodes(nl)
             found == Detect(nl)
  <2>1. Sound(nl)  BY DEF Inv
  <2>2. Graph(V, ties)  BY <2>1, TiesGraph
  <2>3. next = ties
    <3>1. ties = [k \in V |-> ties[k]]  BY DEF Ties
    <3>2. \A k \in V : Neighbours(nl, k) = ties[k]  BY <2>1, NeighboursTied
    <3> HIDE DEF ties
    <3> QED BY <3>1, <3>2
  <2>4. Ground \in V
    <3>1. PICK K \in Nat : V = 0..K  BY <2>1, TypedFacts DEF Sound
    <3>2. 0 \in 0..K  BY SMT
    <3> QED BY <3>1, <3>2 DEF Ground
  <2>5. used \in SUBSET V  BY DEF UsedNodes
  <2>6. found = Subnets(next, {Ground}, Ascending(used \ {Ground}), WalkFrom(next, Ground, {}, {}).seen)
    BY DEF Detect
  <2> HIDE DEF V, ties, next, used, found
  <2>7. found = Subnets(ties, {Ground}, Ascending(used \ {Ground}), WalkFrom(ties, Ground, {}, {}).seen)
    BY <2>3, <2>6
  <2>8. AllFound(V, ties, Ground, used, found)  BY <2>2, <2>4, <2>5, <2>7, SubnetsExact
  <2>9. \A i \in 1..Len(found) : Cardinality(Range(found[i])) = Len(found[i])
    <3> SUFFICES ASSUME NEW i \in 1..Len(found) PROVE Cardinality(Range(found[i])) = Len(found[i])
      OBVIOUS
    <3>1. found \in Seq(Seq(V)) /\ Once(found[i])  BY <2>8 DEF AllFound
    <3>2. found[i] \in Seq(V)  BY <3>1, SMT
    <3>3. IsFiniteSet(V)  BY <2>2 DEF Graph
    <3> QED BY <3>1, <3>2, <3>3, OnceLength
  <2> QED BY <2>8, <2>9 DEF AllFound, Apart, ties, used, found
<1> QED BY <1>1, InvHolds, PTL

=============================================================================
