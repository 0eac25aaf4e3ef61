--------------------------- MODULE NetlistProofs ---------------------------
(***************************************************************************)
(* Proofs about Netlist: what each operation does to the chunks of models  *)
(* and to the nodes, and that no sequence of calls breaks the container.   *)
(***************************************************************************)
EXTENDS Netlist, OrderProofs

\* Zenon, unless a step names another prover.
USE ZenonT(20)

-----------------------------------------------------------------------------
(* Slots and chunks.                                                       *)

\* What a slot holds.
LEMMA SlotFacts ==
    ASSUME NEW N, NEW s \in SlotOf(N)
    PROVE  /\ s.type \in {"null", "normal"}
           /\ s.type = "null" => s = NullSlot
           /\ s.type = "normal" =>
                /\ s = [type |-> "normal", kind |-> s.kind, id |-> s.id, nodes |-> s.nodes]
                /\ s.kind \in DOMAIN Devices /\ Devices[s.kind].pins \in Nat
                /\ s.id \in Nat \ {0}
                /\ s.nodes \in [1..Devices[s.kind].pins -> N \cup {Nullptr}]
<1>1. CASE s = NullSlot
  BY <1>1 DEF NullSlot
<1>2. CASE s \in ModelOf(N)
  <2>1. /\ s \in [type : {"normal"}, kind : DOMAIN Devices, id : Nat \ {0}, nodes : Seq(N \cup {Nullptr})]
        /\ Len(s.nodes) = Devices[s.kind].pins
    BY <1>2 DEF ModelOf
  <2>2. ASSUME NEW T, NEW q \in Seq(T) PROVE q \in [1..Len(q) -> T]
    BY SMT
  <2>3. s.nodes \in [1..Devices[s.kind].pins -> N \cup {Nullptr}]
    BY <2>1, <2>2
  <2> QED BY <2>1, <2>3, DevicesAssumption
<1> QED BY <1>1, <1>2 DEF SlotOf

\* A record of the right parts is a model.
LEMMA SlotIntro ==
    ASSUME NEW N, NEW k \in DOMAIN Devices, NEW id \in Nat \ {0},
           NEW f \in [1..Devices[k].pins -> N \cup {Nullptr}]
    PROVE  [type |-> "normal", kind |-> k, id |-> id, nodes |-> f] \in SlotOf(N)
<1>1. f \in Seq(N \cup {Nullptr}) /\ Len(f) = Devices[k].pins
  BY DevicesAssumption, SMT
<1> QED BY <1>1 DEF SlotOf, ModelOf

\* More nodes allow more slots.
LEMMA SlotMono ==
    ASSUME NEW N, NEW M, N \subseteq M
    PROVE  SlotOf(N) \subseteq SlotOf(M)
<1> SUFFICES ASSUME NEW s \in SlotOf(N), s # NullSlot PROVE s \in SlotOf(M)
  BY DEF SlotOf
<1>1. s.type = "normal" BY SlotFacts
<1>2. s.nodes \in [1..Devices[s.kind].pins -> M \cup {Nullptr}] BY <1>1, SlotFacts, SMT
<1> QED BY <1>1, <1>2, SlotFacts, SlotIntro, SMT

Chunk(T) == [slots : Seq(T), nulls : 0..(SizeMod - 1)]

\* What chunks of slots hold, and where.
LEMMA ChunkFacts ==
    ASSUME NEW T, NEW m \in ChunksOf(T)
    PROVE  /\ m \in Seq(Chunk(T)) /\ Len(m) \in Nat /\ DOMAIN m = 1..Len(m)
           /\ \A c \in 1..Len(m) :
                /\ m[c] \in Chunk(T)
                /\ m[c].slots \in Seq(T) /\ Len(m[c].slots) \in 0..ChunkSize
                /\ m[c].nulls \in 0..(SizeMod - 1)
                /\ \A v \in 1..Len(m[c].slots) : m[c].slots[v] \in T
           /\ \A p : p \in SlotsIn(m) <=> /\ p \in Nat \X Nat
                                          /\ p[1] \in 1..Len(m)
                                          /\ p[2] \in 1..Len(m[p[1]].slots)
           /\ \A p \in SlotsIn(m) : SlotAt(m, p) \in T
<1>0. ASSUME NEW U, NEW q \in Seq(U) PROVE \A j \in 1..Len(q) : q[j] \in U
  BY SMT
<1>1. m \in Seq(Chunk(T)) /\ Len(m) \in Nat /\ DOMAIN m = 1..Len(m)
  BY SMT DEF ChunksOf, Chunk
<1>2. \A c \in 1..Len(m) : m[c] \in Chunk(T)
  BY <1>0, <1>1
<1>3. ASSUME NEW c \in 1..Len(m)
      PROVE  /\ m[c].slots \in Seq(T) /\ m[c].nulls \in 0..(SizeMod - 1)
             /\ Len(m[c].slots) \in 0..ChunkSize
  <2>1. m[c].slots \in Seq(T) /\ m[c].nulls \in 0..(SizeMod - 1)
    BY <1>2 DEF Chunk
  <2>2. Len(m[c].slots) <= ChunkSize
    BY DEF ChunksOf
  <2> QED BY <2>1, <2>2, SizesAssumption, SMT
<1>4. \A c \in 1..Len(m) : \A v \in 1..Len(m[c].slots) : m[c].slots[v] \in T
  BY <1>0, <1>3
<1>5. \A p : p \in SlotsIn(m) <=> /\ p \in Nat \X Nat
                                  /\ p[1] \in 1..Len(m)
                                  /\ p[2] \in 1..Len(m[p[1]].slots)
  BY <1>1, <1>3, SMT DEF SlotsIn
<1>6. \A p \in SlotsIn(m) : SlotAt(m, p) \in T
  BY <1>4, <1>5 DEF SlotAt
<1> QED BY <1>1, <1>2, <1>3, <1>4, <1>5, <1>6

\* Building chunks.
LEMMA ChunkIntro ==
    ASSUME NEW T, NEW n \in Nat, NEW m \in [1..n -> Chunk(T)],
           \A c \in 1..n : Len(m[c].slots) <= ChunkSize
    PROVE  m \in ChunksOf(T) /\ Len(m) = n
<1>1. m \in Seq(Chunk(T)) /\ Len(m) = n
  BY SMT
<1> QED BY <1>1 DEF ChunksOf, Chunk

\* Replacing one chunk leaves the others alone.
LEMMA SetChunkEffect ==
    ASSUME NEW T, NEW m \in ChunksOf(T), NEW c \in 1..Len(m),
           NEW q \in Seq(T), Len(q) <= ChunkSize, NEW k \in 0..(SizeMod - 1)
    PROVE  LET new == SetChunk(m, c, q, k)
           IN  /\ new \in ChunksOf(T) /\ Len(new) = Len(m)
               /\ new[c].slots = q /\ new[c].nulls = k
               /\ \A j \in 1..Len(m) : j # c => new[j] = m[j]
<1> DEFINE new == SetChunk(m, c, q, k)
<1>1. /\ Len(m) \in Nat
      /\ \A j \in 1..Len(m) : m[j] \in Chunk(T) /\ Len(m[j].slots) <= ChunkSize
  BY ChunkFacts, SMT
<1>2. [slots |-> q, nulls |-> k] \in Chunk(T)
  BY DEF Chunk
<1>3. /\ new \in [1..Len(m) -> Chunk(T)]
      /\ new[c] = [slots |-> q, nulls |-> k]
      /\ \A j \in 1..Len(m) : j # c => new[j] = m[j]
  BY <1>1, <1>2 DEF SetChunk
<1>4. \A j \in 1..Len(m) : Len(new[j].slots) <= ChunkSize
  <2> HIDE DEF new
  <2> QED BY <1>1, <1>3, SMT
<1> HIDE DEF new
<1>5. new \in ChunksOf(T) /\ Len(new) = Len(m)
  BY <1>1, <1>3, <1>4, ChunkIntro
<1> QED BY <1>3, <1>5, SMT DEF new

\* Appending to a sequence.
LEMMA AppendFacts ==
    ASSUME NEW T, NEW q \in Seq(T), NEW e \in T
    PROVE  /\ Append(q, e) \in [1..(Len(q) + 1) -> T]
           /\ Append(q, e) \in Seq(T) /\ Len(Append(q, e)) = Len(q) + 1
           /\ Append(q, e)[Len(q) + 1] = e
           /\ \A i \in 1..Len(q) : Append(q, e)[i] = q[i]
<1>1. Append(q, e) \in Seq(T) /\ Len(Append(q, e)) = Len(q) + 1  BY SMT
<1>2. ASSUME NEW r \in Seq(T) PROVE r \in [1..Len(r) -> T]  BY SMT
<1>3. Append(q, e)[Len(q) + 1] = e  BY SMT
<1>4. \A i \in 1..Len(q) : Append(q, e)[i] = q[i]  BY SMT
<1> QED BY <1>1, <1>2, <1>3, <1>4

-----------------------------------------------------------------------------
(* What the operations do to chunks.                                       *)

LiveIn(m) == {p \in SlotsIn(m) : SlotAt(m, p).type = "normal"}

\* new holds the slots of m, and slot s after all of them, at q.
Placed(m, new, q, s) ==
    /\ q \in Nat \X Nat
    /\ \A p : p \in SlotsIn(new) <=> p \in SlotsIn(m) \/ p = q
    /\ \A p \in SlotsIn(m) : Before(p, q) /\ SlotAt(new, p) = SlotAt(m, p)
    /\ SlotAt(new, q) = s

\* add_model() puts the model at one place and moves no other.
LEMMA EmplaceEffect ==
    ASSUME NEW T, NEW m \in ChunksOf(T), NEW s \in T
    PROVE  /\ Emplace(m, s) \in ChunksOf(T)
           /\ \E q : Placed(m, Emplace(m, s), q, s)
           /\ Counted(m) /\ s.type = "normal" => Counted(Emplace(m, s))
<1> DEFINE new == Emplace(m, s)
           k == Len(m)
           last == m[k]
<1>1. /\ m \in Seq(Chunk(T)) /\ k \in Nat
      /\ \A c \in 1..k : /\ m[c] \in Chunk(T)
                         /\ m[c].slots \in Seq(T) /\ Len(m[c].slots) \in 0..ChunkSize
                         /\ m[c].nulls \in 0..(SizeMod - 1)
  BY ChunkFacts
<1>2. ChunkSize \in Nat /\ ChunkSize >= 1 /\ 0 \in 0..(SizeMod - 1)
  BY SizesAssumption, SMT
<1>3. CASE m = <<>> \/ Len(last.slots) = ChunkSize
  <2> DEFINE ch == [slots |-> <<s>>, nulls |-> 0]
             q == <<k + 1, 1>>
  <2>1. ch \in Chunk(T) /\ ch.slots = <<s>> /\ ch.nulls = 0 /\ Len(ch.slots) = 1 /\ ch.slots[1] = s
    BY <1>2, SMT DEF Chunk
  <2>2. new = Append(m, ch)
    BY <1>3 DEF Emplace
  <2> HIDE DEF ch, new
  <2>3. /\ new \in [1..(k + 1) -> Chunk(T)] /\ new[k + 1] = ch
        /\ \A c \in 1..k : new[c] = m[c]
    BY <1>1, <2>1, <2>2, AppendFacts, SMT
  <2>4. ASSUME NEW c \in 1..(k + 1) PROVE Len(new[c].slots) <= ChunkSize
    <3>1. CASE c = k + 1  BY <1>2, <2>1, <2>3, <3>1
    <3>2. CASE c \in 1..k  BY <1>1, <1>2, <2>3, <3>2, SMT
    <3> QED BY <1>1, <3>1, <3>2, SMT
  <2>5. new \in ChunksOf(T) /\ Len(new) = k + 1
    <3> HIDE DEF k
    <3>1. k + 1 \in Nat BY <1>1, SMT
    <3> QED BY <2>3, <2>4, <3>1, ChunkIntro
  <2>6. \A p : p \in SlotsIn(new) <=> p \in SlotsIn(m) \/ p = q
    <3>1. ASSUME NEW p PROVE p \in SlotsIn(new) <=> p \in SlotsIn(m) \/ p = q
      <4>1. /\ p \in SlotsIn(m) <=> p \in Nat \X Nat /\ p[1] \in 1..k /\ p[2] \in 1..Len(m[p[1]].slots)
            /\ p \in SlotsIn(new) <=> p \in Nat \X Nat /\ p[1] \in 1..(k + 1) /\ p[2] \in 1..Len(new[p[1]].slots)
        BY <2>5, ChunkFacts
      <4>2. CASE p \in Nat \X Nat /\ p[1] = k + 1
        <5>1. Len(new[p[1]].slots) = 1  BY <2>1, <2>3, <4>2
        <5>2. p \in SlotsIn(new) <=> p[2] = 1  BY <1>1, <4>1, <4>2, <5>1, SMT
        <5>3. p \notin SlotsIn(m)  BY <1>1, <4>1, <4>2, SMT
        <5> QED BY <4>2, <5>2, <5>3, SMT
      <4>3. CASE ~(p \in Nat \X Nat /\ p[1] = k + 1)
        BY <1>1, <2>3, <4>1, <4>3, SMT
      <4> QED BY <4>2, <4>3
    <3> QED BY <3>1
  <2>7. ASSUME NEW p \in SlotsIn(m) PROVE Before(p, q) /\ SlotAt(new, p) = SlotAt(m, p)
    <3>1. p \in Nat \X Nat /\ p[1] \in 1..k  BY ChunkFacts
    <3> QED BY <1>1, <2>3, <3>1, SMT DEF Before, SlotAt
  <2>8. SlotAt(new, q) = s  BY <2>1, <2>3 DEF SlotAt
  <2>9. Placed(m, new, q, s)  BY <1>1, <2>6, <2>7, <2>8, SMT DEF Placed
  <2>10. ASSUME Counted(m), s.type = "normal" PROVE Counted(new)
    <3>1. {v \in 1..Len(ch.slots) : ch.slots[v].type = "null"} = {}
      BY <2>1, <2>10, SMT
    <3>2. ch.nulls = Cardinality({v \in 1..Len(ch.slots) : ch.slots[v].type = "null"})
      BY <2>1, <3>1, FS_EmptySet
    <3>3. ASSUME NEW c \in 1..(k + 1)
          PROVE  new[c].nulls = Cardinality({v \in 1..Len(new[c].slots) : new[c].slots[v].type = "null"})
      <4>1. CASE c = k + 1  BY <2>3, <3>2, <4>1
      <4>2. CASE c \in 1..k  BY <2>3, <2>10, <4>2 DEF Counted
      <4> QED BY <1>1, <4>1, <4>2, SMT
    <3> QED BY <2>5, <3>3 DEF Counted
  <2> QED BY <2>5, <2>9, <2>10 DEF new
<1>4. CASE ~(m = <<>> \/ Len(last.slots) = ChunkSize)
  <2> DEFINE app == Append(last.slots, s)
             w == Len(last.slots)
             q == <<k, w + 1>>
  <2>0. k \in 1..k  BY <1>1, <1>4, SMT
  <2>1. app \in Seq(T) /\ w \in Nat /\ Len(app) = w + 1 /\ Len(app) <= ChunkSize /\ app[w + 1] = s
        /\ \A v \in 1..w : app[v] = last.slots[v]
    <3>1. last.slots \in Seq(T) /\ w \in 0..ChunkSize /\ w # ChunkSize  BY <1>1, <1>4, <2>0
    <3> HIDE DEF last
    <3> QED BY <1>2, <3>1, SMT
  <2>2. new = SetChunk(m, k, app, last.nulls)
    BY <1>4 DEF Emplace
  <2>2a. last.nulls \in 0..(SizeMod - 1)  BY <1>1, <2>0
  <2> HIDE DEF new, app
  <2>3. /\ new \in ChunksOf(T) /\ Len(new) = k
        /\ new[k].slots = app /\ new[k].nulls = last.nulls
        /\ \A j \in 1..k : j # k => new[j] = m[j]
    <3> HIDE DEF last, k
    <3> QED BY <2>0, <2>1, <2>2, <2>2a, SetChunkEffect, SMTT(30) DEF k
  <2>6. ASSUME NEW p PROVE p \in SlotsIn(new) <=> p \in SlotsIn(m) \/ p = q
    <3>1. /\ p \in SlotsIn(m) <=> p \in Nat \X Nat /\ p[1] \in 1..k /\ p[2] \in 1..Len(m[p[1]].slots)
          /\ p \in SlotsIn(new) <=> p \in Nat \X Nat /\ p[1] \in 1..k /\ p[2] \in 1..Len(new[p[1]].slots)
      BY <2>3, ChunkFacts
    <3>2. CASE p \in Nat \X Nat /\ p[1] = k
      BY <1>1, <2>0, <2>1, <2>3, <3>1, <3>2, SMT
    <3>3. CASE ~(p \in Nat \X Nat /\ p[1] = k)
      BY <1>1, <2>0, <2>3, <3>1, <3>3, SMT
    <3> QED BY <3>2, <3>3
  <2>7. ASSUME NEW p \in SlotsIn(m) PROVE Before(p, q) /\ SlotAt(new, p) = SlotAt(m, p)
    <3>1. p \in Nat \X Nat /\ p[1] \in 1..k /\ p[2] \in 1..Len(m[p[1]].slots)  BY ChunkFacts
    <3>2. CASE p[1] = k
      BY <1>1, <2>1, <2>3, <3>1, <3>2, SMT DEF Before, SlotAt
    <3>3. CASE p[1] # k
      BY <1>1, <2>1, <2>3, <3>1, <3>3, SMT DEF Before, SlotAt
    <3> QED BY <3>2, <3>3
  <2>8. SlotAt(new, q) = s  BY <2>1, <2>3 DEF SlotAt
  <2>9. Placed(m, new, q, s)
    <3>1. q \in Nat \X Nat  BY <1>1, <2>1, SMT
    <3> HIDE DEF q
    <3> QED BY <2>6, <2>7, <2>8, <3>1 DEF Placed
  <2>10. ASSUME Counted(m), s.type = "normal" PROVE Counted(new)
    <3>1. {v \in 1..Len(app) : app[v].type = "null"} = {v \in 1..w : last.slots[v].type = "null"}
      BY <2>1, <2>10, SMT
    <3>2. last.nulls = Cardinality({v \in 1..w : last.slots[v].type = "null"})
      BY <2>0, <2>10 DEF Counted
    <3>3. ASSUME NEW c \in 1..k
          PROVE  new[c].nulls = Cardinality({v \in 1..Len(new[c].slots) : new[c].slots[v].type = "null"})
      <4>1. CASE c = k  BY <2>3, <3>1, <3>2, <4>1
      <4>2. CASE c # k  BY <2>3, <2>10, <4>2 DEF Counted
      <4> QED BY <4>1, <4>2
    <3> QED BY <2>3, <3>3 DEF Counted
  <2> QED BY <2>3, <2>9, <2>10 DEF new
<1> QED BY <1>3, <1>4


\* new holds the slots of m, and after them the first k of sequence slots, at the positions pos.
PlacedAll(m, new, pos, slots, k) ==
    /\ pos \in [1..k -> Nat \X Nat]
    /\ \A p : p \in SlotsIn(new) <=> p \in SlotsIn(m) \/ \E i \in 1..k : p = pos[i]
    /\ \A p \in SlotsIn(m) : SlotAt(new, p) = SlotAt(m, p)
    /\ \A p \in SlotsIn(m), i \in 1..k : Before(p, pos[i])
    /\ \A i \in 1..k : SlotAt(new, pos[i]) = slots[i]
    /\ \A i, j \in 1..k : i < j => Before(pos[i], pos[j])

\* Placing one more slot after a run of them.
LEMMA PlacedStep ==
    ASSUME NEW m, NEW mid, NEW new, NEW pos, NEW slots, NEW k \in Nat, NEW q,
           PlacedAll(m, mid, pos, slots, k), Placed(mid, new, q, slots[k + 1])
    PROVE  \E r : PlacedAll(m, new, r, slots, k + 1)
<1> DEFINE r == [i \in 1..(k + 1) |-> IF i = k + 1 THEN q ELSE pos[i]]
<1>0. /\ k + 1 \in 1..(k + 1)
      /\ \A i \in 1..(k + 1) : i # k + 1 => i \in 1..k
      /\ \A i \in 1..k : i \in 1..(k + 1) /\ i # k + 1
  BY SMT
<1>1. r[k + 1] = q /\ \A i \in 1..k : r[i] = pos[i]
  BY <1>0
<1>2. r \in [1..(k + 1) -> Nat \X Nat]
  BY <1>0 DEF PlacedAll, Placed
<1> HIDE DEF r
<1>3. ASSUME NEW p PROVE p \in SlotsIn(new) <=> p \in SlotsIn(m) \/ \E i \in 1..(k + 1) : p = r[i]
  <2>1. p \in SlotsIn(new) <=> p \in SlotsIn(mid) \/ p = q  BY DEF Placed
  <2>2. p \in SlotsIn(mid) <=> p \in SlotsIn(m) \/ \E i \in 1..k : p = pos[i]  BY DEF PlacedAll
  <2>3. (\E i \in 1..(k + 1) : p = r[i]) <=> (p = q \/ \E i \in 1..k : p = pos[i])
    BY <1>0, <1>1
  <2> QED BY <2>1, <2>2, <2>3
<1>4. ASSUME NEW p \in SlotsIn(m) PROVE SlotAt(new, p) = SlotAt(m, p)
  BY DEF PlacedAll, Placed
<1>5. ASSUME NEW p \in SlotsIn(m), NEW i \in 1..(k + 1) PROVE Before(p, r[i])
  <2>1. CASE i = k + 1
    <3>1. p \in SlotsIn(mid)  BY DEF PlacedAll
    <3> QED BY <1>1, <2>1, <3>1 DEF Placed
  <2>2. CASE i \in 1..k
    BY <1>1, <2>2 DEF PlacedAll
  <2> QED BY <1>0, <2>1, <2>2
<1>6. ASSUME NEW i \in 1..(k + 1) PROVE SlotAt(new, r[i]) = slots[i]
  <2>1. CASE i = k + 1  BY <1>1, <2>1 DEF Placed
  <2>2. CASE i \in 1..k
    <3>1. pos[i] \in SlotsIn(mid)  BY <2>2 DEF PlacedAll
    <3> QED BY <1>1, <2>2, <3>1 DEF PlacedAll, Placed
  <2> QED BY <1>0, <2>1, <2>2
<1>7. ASSUME NEW i \in 1..(k + 1), NEW j \in 1..(k + 1), i < j PROVE Before(r[i], r[j])
  <2>0. i \in 1..k  BY <1>7, SMT
  <2>1. CASE j = k + 1
    <3>1. pos[i] \in SlotsIn(mid)  BY <2>0 DEF PlacedAll
    <3> QED BY <1>1, <2>0, <2>1, <3>1 DEF Placed
  <2>2. CASE j \in 1..k
    BY <1>1, <1>7, <2>0, <2>2 DEF PlacedAll
  <2> QED BY <1>0, <2>1, <2>2
<1> QED BY <1>2, <1>3, <1>4, <1>5, <1>6, <1>7 DEF PlacedAll

\* Appending the slots of a sequence, one by one.
LEMMA EmplaceAllEffect ==
    ASSUME NEW T, NEW m \in ChunksOf(T), NEW slots \in Seq(T)
    PROVE  /\ EmplaceAll(m, slots) \in ChunksOf(T)
           /\ \E pos : PlacedAll(m, EmplaceAll(m, slots), pos, slots, Len(slots))
           /\ Counted(m) /\ (\A i \in 1..Len(slots) : slots[i].type = "normal") =>
                Counted(EmplaceAll(m, slots))
<1> DEFINE n == Len(slots)
           C == ChunksOf(T)
           round == [x \in C \X (1..n) |-> Emplace(x[1], slots[x[2]])]
<1>0. n \in Nat /\ m \in C /\ \A i \in 1..n : slots[i] \in T
  BY SMT
<1>1. round \in [C \X (1..n) -> C]
  <2>1. \A x \in C \X (1..n) : Emplace(x[1], slots[x[2]]) \in C
    BY <1>0, EmplaceEffect
  <2> HIDE DEF C, n
  <2> QED BY <2>1
<1>2. PICK g \in [0..n -> C] : Rounds(g, n, m, round)
  <2> HIDE DEF C, n, round
  <2> QED BY <1>0, <1>1, LoopValues
<1>3. \A i \in 1..n : g[i] = Emplace(g[i - 1], slots[i])
  <2> HIDE DEF C, n
  <2> QED BY <1>0, <1>2, SMTT(30) DEF Rounds
<1>4. g = [i \in 0..n |-> IF i = 0 THEN m ELSE Emplace(g[i - 1], slots[i])]
  <2> HIDE DEF C, round
  <2> QED BY <1>0, <1>2, <1>3, SMT DEF Rounds
<1> DEFINE IsLoop(f) == f = [i \in 0..n |-> IF i = 0 THEN m ELSE Emplace(f[i - 1], slots[i])]
           up == CHOOSE f : IsLoop(f)
<1>5. IsLoop(up) /\ EmplaceAll(m, slots) = up[n]
  <2>1. IsLoop(g)  BY <1>4
  <2>2. EmplaceAll(m, slots) = up[n]  BY DEF EmplaceAll
  <2> HIDE DEF IsLoop
  <2> QED BY <2>1, <2>2
<1>6. up[0] = m /\ \A i \in 0..(n - 1) : up[i + 1] = Emplace(up[i], slots[i + 1])
  <2>1. up = [i \in 0..n |-> IF i = 0 THEN m ELSE Emplace(up[i - 1], slots[i])]
    <3> HIDE DEF up
    <3> QED BY <1>5
  <2> HIDE DEF up, n
  <2>2. up[0] = m  BY <1>0, <2>1, SMT
  <2>3. ASSUME NEW i \in 0..(n - 1) PROVE up[i + 1] = Emplace(up[i], slots[i + 1])
    <3>1. i + 1 \in 0..n /\ i + 1 # 0 /\ (i + 1) - 1 = i  BY <1>0, SMT
    <3>2. up[i + 1] = Emplace(up[(i + 1) - 1], slots[i + 1])  BY <2>1, <3>1
    <3> QED BY <3>1, <3>2
  <2> QED BY <2>2, <2>3
<1> HIDE DEF up, IsLoop, round
<1> DEFINE normal == \A i \in 1..n : slots[i].type = "normal"
           P(i) == /\ up[i] \in C
                   /\ \E pos : PlacedAll(m, up[i], pos, slots, i)
                   /\ Counted(m) /\ normal => Counted(up[i])
           S == {i \in Nat : i <= n => P(i)}
<1>7. P(0)
  <2>1. PlacedAll(m, m, <<>>, slots, 0)  BY SMT DEF PlacedAll
  <2> QED BY <1>0, <1>6, <2>1
<1>8. ASSUME NEW i \in S PROVE i + 1 \in S
  <2> SUFFICES ASSUME i + 1 <= n PROVE P(i + 1)
    BY SMT
  <2>0. i \in Nat /\ i \in 0..(n - 1) /\ i + 1 \in 1..n /\ P(i)
    <3> HIDE DEF P, n
    <3> QED BY <1>0, SMT
  <2>1. up[i + 1] = Emplace(up[i], slots[i + 1]) /\ slots[i + 1] \in T  BY <1>0, <1>6, <2>0
  <2>2. /\ up[i + 1] \in C
        /\ \E q : Placed(up[i], up[i + 1], q, slots[i + 1])
        /\ Counted(up[i]) /\ slots[i + 1].type = "normal" => Counted(up[i + 1])
    BY <2>0, <2>1, EmplaceEffect
  <2>3. \E pos : PlacedAll(m, up[i + 1], pos, slots, i + 1)
    BY <2>0, <2>2, PlacedStep
  <2> QED BY <2>0, <2>2, <2>3
<1>9. S = Nat
  <2>1. S \in SUBSET Nat /\ 0 \in S  BY <1>7
  <2> HIDE DEF S
  <2> QED BY <1>8, <2>1, Induct
<1>10. P(n)
  <2>1. n \in S  BY <1>0, <1>9
  <2> HIDE DEF P
  <2> QED BY <1>0, <2>1, SMT
<1> QED BY <1>5, <1>10


\* Setting pin.nodes changes nothing but the nodes of the pins named.
LEMMA PointFacts ==
    ASSUME NEW N, NEW s \in SlotOf(N), NEW pins, NEW k \in N \cup {Nullptr}
    PROVE  LET t == Point(s, pins, k)
           IN  /\ t \in SlotOf(N) /\ t.type = s.type /\ t.kind = s.kind /\ t.id = s.id
               /\ DOMAIN t.nodes = DOMAIN s.nodes
               /\ \A i \in DOMAIN s.nodes : t.nodes[i] = IF <<s.id, i>> \in pins THEN k ELSE s.nodes[i]
<1> DEFINE t == Point(s, pins, k)
           f == [i \in DOMAIN s.nodes |-> IF <<s.id, i>> \in pins THEN k ELSE s.nodes[i]]
<1>1. CASE s.type = "null"
  <2>1. t = s /\ s = NullSlot  BY <1>1, SlotFacts DEF Point
  <2>2. DOMAIN s.nodes = {}  BY <2>1, SMT DEF NullSlot
  <2> HIDE DEF t
  <2> QED BY <2>1, <2>2 DEF t
<1>2. CASE s.type = "normal"
  <2>1. /\ s = [type |-> "normal", kind |-> s.kind, id |-> s.id, nodes |-> s.nodes]
        /\ s.kind \in DOMAIN Devices /\ s.id \in Nat \ {0}
        /\ s.nodes \in [1..Devices[s.kind].pins -> N \cup {Nullptr}]
    BY <1>2, SlotFacts
  <2>2. t = [s EXCEPT !.nodes = f]  BY <1>2 DEF Point
  <2>3. f \in [1..Devices[s.kind].pins -> N \cup {Nullptr}]  BY <2>1
  <2> HIDE DEF t, f
  <2>4. t = [type |-> "normal", kind |-> s.kind, id |-> s.id, nodes |-> f]
    BY <2>1, <2>2, SMT
  <2>5. t \in SlotOf(N)  BY <2>1, <2>3, <2>4, SlotIntro
  <2>6. t.type = s.type /\ t.kind = s.kind /\ t.id = s.id /\ t.nodes = f  BY <1>2, <2>4
  <2> QED BY <2>5, <2>6 DEF t, f
<1> QED BY <1>1, <1>2, SlotFacts

\* Re-pointing pins keeps chunks, places and counts.
LEMMA RepointEffect ==
    ASSUME NEW N, NEW m \in ChunksOf(SlotOf(N)), NEW pins, NEW k \in N \cup {Nullptr}
    PROVE  LET new == Repoint(m, pins, k)
           IN  /\ new \in ChunksOf(SlotOf(N))
               /\ SlotsIn(new) = SlotsIn(m)
               /\ \A p \in SlotsIn(m) : SlotAt(new, p) = Point(SlotAt(m, p), pins, k)
               /\ Counted(m) => Counted(new)
<1> DEFINE new == Repoint(m, pins, k)
           T == SlotOf(N)
           q(c) == [v \in DOMAIN m[c].slots |-> Point(m[c].slots[v], pins, k)]
<1>1. /\ Len(m) \in Nat /\ DOMAIN m = 1..Len(m)
      /\ \A c \in 1..Len(m) : /\ m[c].slots \in Seq(T) /\ Len(m[c].slots) \in 0..ChunkSize
                              /\ m[c].nulls \in 0..(SizeMod - 1)
                              /\ \A v \in 1..Len(m[c].slots) : m[c].slots[v] \in T
  BY ChunkFacts
<1>2. ASSUME NEW c \in 1..Len(m)
      PROVE  /\ q(c) \in Seq(T) /\ Len(q(c)) = Len(m[c].slots)
             /\ \A v \in 1..Len(m[c].slots) : q(c)[v] = Point(m[c].slots[v], pins, k)
  <2> DEFINE w == Len(m[c].slots)
  <2>1. w \in Nat /\ DOMAIN m[c].slots = 1..w  BY <1>1, SMT
  <2>2. \A v \in 1..w : Point(m[c].slots[v], pins, k) \in T  BY <1>1, PointFacts
  <2>3. q(c) = [v \in 1..w |-> Point(m[c].slots[v], pins, k)]  BY <2>1
  <2> HIDE DEF w, q, T
  <2>4. q(c) \in [1..w -> T]  BY <2>2, <2>3
  <2> QED BY <2>1, <2>3, <2>4, SMT DEF w
<1>3. /\ new \in [1..Len(m) -> Chunk(T)]
      /\ \A c \in 1..Len(m) : new[c].slots = q(c) /\ new[c].nulls = m[c].nulls
  <2>1. new = [c \in 1..Len(m) |-> [slots |-> q(c), nulls |-> m[c].nulls]]
    BY <1>1 DEF Repoint
  <2> HIDE DEF new, q, T
  <2>2. \A c \in 1..Len(m) : [slots |-> q(c), nulls |-> m[c].nulls] \in Chunk(T)
    BY <1>1, <1>2 DEF Chunk
  <2> QED BY <2>1, <2>2
<1> HIDE DEF new, q
<1>4. new \in ChunksOf(T) /\ Len(new) = Len(m)
  <2>1. \A c \in 1..Len(m) : Len(new[c].slots) <= ChunkSize
    BY <1>1, <1>2, <1>3, SMT
  <2> QED BY <1>1, <1>3, <2>1, ChunkIntro
<1>5. SlotsIn(new) = SlotsIn(m)
  <2>1. ASSUME NEW p PROVE p \in SlotsIn(new) <=> p \in SlotsIn(m)
    BY <1>2, <1>3, <1>4, ChunkFacts, SMT
  <2> QED BY <2>1
<1>6. ASSUME NEW p \in SlotsIn(m) PROVE SlotAt(new, p) = Point(SlotAt(m, p), pins, k)
  <2>1. p[1] \in 1..Len(m) /\ p[2] \in 1..Len(m[p[1]].slots)  BY ChunkFacts
  <2> QED BY <1>2, <1>3, <2>1 DEF SlotAt
<1>7. ASSUME Counted(m) PROVE Counted(new)
  <2> SUFFICES ASSUME NEW c \in 1..Len(m)
               PROVE  new[c].nulls = Cardinality({v \in 1..Len(new[c].slots) : new[c].slots[v].type = "null"})
    BY <1>4 DEF Counted
  <2>1. \A v \in 1..Len(m[c].slots) : new[c].slots[v].type = m[c].slots[v].type
    BY <1>1, <1>2, <1>3, PointFacts, SMT
  <2>2. {v \in 1..Len(new[c].slots) : new[c].slots[v].type = "null"} =
            {v \in 1..Len(m[c].slots) : m[c].slots[v].type = "null"}
    BY <1>2, <1>3, <2>1
  <2> QED BY <1>3, <1>7, <2>2 DEF Counted
<1> QED BY <1>4, <1>5, <1>6, <1>7 DEF new


\* The live models of new are those of m but for the one at p, if there is one.
Dropped(m, new, p) ==
    /\ LiveIn(new) = LiveIn(m) \ {p}
    /\ \A q \in LiveIn(new) : SlotAt(new, q) = SlotAt(m, q)

\* A number below the modulus is its own remainder.
LEMMA WrapSmall ==
    ASSUME NEW x \in 0..(SizeMod - 1)
    PROVE  Wrap(x) = x
BY SizesAssumption, SMT DEF Wrap

\* Wrapped arithmetic stays in the range of std::size_t.
LEMMA WrapType ==
    ASSUME NEW x \in Int
    PROVE  Wrap(x) \in 0..(SizeMod - 1)
BY SizesAssumption, SMT DEF Wrap

\* Erasing the last slot of a chunk.
LEMMA PopEffect ==
    ASSUME NEW T, NEW m \in ChunksOf(T), NEW c \in 1..Len(m), m[c].slots # <<>>,
           NEW k \in 0..(SizeMod - 1)
    PROVE  LET v == Len(m[c].slots)
               new == SetChunk(m, c, SubSeq(m[c].slots, 1, v - 1), k)
           IN  new \in ChunksOf(T) /\ Dropped(m, new, <<c, v>>)
<1> DEFINE slots == m[c].slots
           v == Len(slots)
           q == SubSeq(slots, 1, v - 1)
           new == SetChunk(m, c, q, k)
<1>1. slots \in Seq(T) /\ v \in 0..ChunkSize /\ ChunkSize \in Nat
  BY ChunkFacts, SizesAssumption
<1>2. v \in 1..ChunkSize
  <2> HIDE DEF slots
  <2> QED BY <1>1, SMT DEF slots
<1>3. q \in Seq(T) /\ Len(q) = v - 1 /\ \A i \in 1..(v - 1) : q[i] = slots[i]
  <2>1. ASSUME NEW s \in Seq(T), NEW w \in 0..Len(s)
        PROVE  SubSeq(s, 1, w) \in Seq(T) /\ Len(SubSeq(s, 1, w)) = w
    BY SMT
  <2>2. ASSUME NEW s \in Seq(T), NEW w \in 0..Len(s), NEW i \in 1..w
        PROVE  SubSeq(s, 1, w)[i] = s[i]
    BY SMT
  <2>3. v - 1 \in 0..Len(slots)  BY <1>1, <1>2, SMT
  <2> HIDE DEF v, slots
  <2> QED BY <1>1, <2>1, <2>2, <2>3
<1>4. /\ new \in ChunksOf(T) /\ Len(new) = Len(m)
      /\ new[c].slots = q
      /\ \A j \in 1..Len(m) : j # c => new[j] = m[j]
  <2>1. Len(q) <= ChunkSize  BY <1>1, <1>2, <1>3, SMT
  <2>2. q \in Seq(T)  BY <1>3
  <2> HIDE DEF q, v, slots
  <2> QED BY <2>1, <2>2, SetChunkEffect, SMT
<1> HIDE DEF new, q
<1>5. /\ \A p : p \in SlotsIn(m) <=> p \in Nat \X Nat /\ p[1] \in 1..Len(m) /\ p[2] \in 1..Len(m[p[1]].slots)
      /\ \A p : p \in SlotsIn(new) <=> p \in Nat \X Nat /\ p[1] \in 1..Len(m) /\ p[2] \in 1..Len(new[p[1]].slots)
  BY <1>4, ChunkFacts
<1>6. ASSUME NEW p PROVE p \in SlotsIn(new) <=> p \in SlotsIn(m) /\ p # <<c, v>>
  <2>1. CASE p \in Nat \X Nat /\ p[1] = c
    <3>1. p[2] \in 1..Len(q) <=> p[2] \in 1..v /\ p[2] # v  BY <1>2, <1>3, <2>1, SMT
    <3>2. p # <<c, v>> <=> p[2] # v  BY <2>1, SMT
    <3> QED BY <1>4, <1>5, <2>1, <3>1, <3>2
  <2>2. CASE ~(p \in Nat \X Nat /\ p[1] = c)
    BY <1>1, <1>4, <1>5, <2>2, SMT
  <2> QED BY <2>1, <2>2
<1>7. ASSUME NEW p \in SlotsIn(new) PROVE SlotAt(new, p) = SlotAt(m, p)
  <2>0. p \in Nat \X Nat /\ p[1] \in 1..Len(m) /\ p[2] \in 1..Len(new[p[1]].slots)  BY <1>5
  <2>1. CASE p[1] = c  BY <1>3, <1>4, <2>0, <2>1 DEF SlotAt
  <2>2. CASE p[1] # c  BY <1>4, <2>0, <2>2 DEF SlotAt
  <2> QED BY <2>1, <2>2
<1>8. Dropped(m, new, <<c, v>>)
  BY <1>6, <1>7, SMT DEF Dropped, LiveIn
<1> QED BY <1>4, <1>8 DEF new, q

\* Leaving a null model in a slot.
LEMMA ClearEffect ==
    ASSUME NEW T, NullSlot \in T, NEW m \in ChunksOf(T), NEW c \in 1..Len(m),
           NEW v \in 1..Len(m[c].slots), NEW k \in 0..(SizeMod - 1)
    PROVE  LET new == SetChunk(m, c, [i \in 1..Len(m[c].slots) |-> IF i = v THEN NullSlot ELSE m[c].slots[i]], k)
           IN  new \in ChunksOf(T) /\ Dropped(m, new, <<c, v>>)
<1> DEFINE slots == m[c].slots
           w == Len(slots)
           q == [i \in 1..w |-> IF i = v THEN NullSlot ELSE slots[i]]
           new == SetChunk(m, c, q, k)
<1>1. slots \in Seq(T) /\ w \in 0..ChunkSize /\ \A i \in 1..w : slots[i] \in T
  BY ChunkFacts
<1>3. q \in Seq(T) /\ Len(q) = w /\ q[v] = NullSlot /\ \A i \in 1..w : i # v => q[i] = slots[i]
  <2> HIDE DEF slots
  <2>1. q \in [1..w -> T] /\ w \in Nat  BY <1>1, SizesAssumption, SMT
  <2>2. q[v] = NullSlot /\ \A i \in 1..w : i # v => q[i] = slots[i]  BY DEF slots
  <2> HIDE DEF q
  <2> QED BY <2>1, <2>2, SMT
<1>4. /\ new \in ChunksOf(T) /\ Len(new) = Len(m)
      /\ new[c].slots = q
      /\ \A j \in 1..Len(m) : j # c => new[j] = m[j]
  <2>1. Len(q) <= ChunkSize  BY <1>1, <1>3, SizesAssumption, SMT
  <2> HIDE DEF q
  <2> QED BY <1>3, <2>1, SetChunkEffect, SMT
<1> HIDE DEF new, q
<1>5. /\ \A p : p \in SlotsIn(m) <=> p \in Nat \X Nat /\ p[1] \in 1..Len(m) /\ p[2] \in 1..Len(m[p[1]].slots)
      /\ \A p : p \in SlotsIn(new) <=> p \in Nat \X Nat /\ p[1] \in 1..Len(m) /\ p[2] \in 1..Len(new[p[1]].slots)
  BY <1>4, ChunkFacts
<1>6. ASSUME NEW p PROVE p \in SlotsIn(new) <=> p \in SlotsIn(m)
  BY <1>3, <1>4, <1>5, SMT
<1>7. ASSUME NEW p \in SlotsIn(m), p # <<c, v>> PROVE SlotAt(new, p) = SlotAt(m, p)
  <2>0. p \in Nat \X Nat /\ p[1] \in 1..Len(m) /\ p[2] \in 1..Len(m[p[1]].slots)  BY <1>5
  <2>1. CASE p[1] = c
    <3>1. p[2] # v  BY <1>7, <2>0, <2>1, SMT
    <3> QED BY <1>3, <1>4, <2>0, <2>1, <3>1 DEF SlotAt
  <2>2. CASE p[1] # c  BY <1>4, <2>0, <2>2 DEF SlotAt
  <2> QED BY <2>1, <2>2
<1>8. SlotAt(new, <<c, v>>).type # "normal"
  BY <1>3, <1>4, SMT DEF SlotAt, NullSlot
<1>9. Dropped(m, new, <<c, v>>)
  BY <1>6, <1>7, <1>8 DEF Dropped, LiveIn
<1> QED BY <1>4, <1>9 DEF new, q


NullsAmong(slots) == {v \in 1..Len(slots) : slots[v].type = "null"}

\* The null models of a chunk are finitely many, and fit the counter.
LEMMA NullsFinite ==
    ASSUME NEW T, NEW m \in ChunksOf(T), NEW c \in 1..Len(m)
    PROVE  LET S == NullsAmong(m[c].slots)
           IN  /\ IsFiniteSet(S) /\ Cardinality(S) \in 0..(SizeMod - 1)
               /\ \A v \in 1..Len(m[c].slots) : v \notin S => Cardinality(S) + 1 \in 0..(SizeMod - 1)
<1> DEFINE w == Len(m[c].slots)
           S == NullsAmong(m[c].slots)
<1>1. w \in 0..ChunkSize /\ w \in Nat /\ w < SizeMod /\ SizeMod \in Nat
  BY ChunkFacts, SizesAssumption, SMT
<1>2. IsFiniteSet(1..w) /\ Cardinality(1..w) = w
  <2> HIDE DEF w
  <2> QED BY <1>1, FS_Interval, SMT
<1>3. S \in SUBSET (1..w)
  BY DEF NullsAmong
<1> HIDE DEF w, S
<1>4. IsFiniteSet(S) /\ Cardinality(S) <= w /\ Cardinality(S) \in Nat /\ (Cardinality(S) = w => S = 1..w)
  BY <1>2, <1>3, FS_Subset, FS_CardinalityType
<1>5. \A v \in 1..w : v \notin S => Cardinality(S) + 1 <= w
  BY <1>1, <1>4, SMT
<1> QED BY <1>1, <1>4, <1>5, SMT DEF w, S

\* The count of one chunk changed, those of the others did not.
LEMMA CountedStep ==
    ASSUME NEW m, NEW new, Len(new) = Len(m), NEW c, Counted(m),
           \A j \in 1..Len(m) : j # c => new[j] = m[j],
           c \in 1..Len(m) => new[c].nulls = Cardinality(NullsAmong(new[c].slots))
    PROVE  Counted(new)
<1> DEFINE of(x) == \A j \in 1..Len(x) : x[j].nulls = Cardinality(NullsAmong(x[j].slots))
<1>1. Counted(m) = of(m) /\ Counted(new) = of(new)  BY DEF Counted, NullsAmong
<1>2. of(new)  BY <1>1
<1> QED BY <1>1, <1>2

\* delete_model() drops one place, counts it, and unlinks the model's pins; or returns early.
LEMMA DeleteEffect ==
    ASSUME NEW n, NEW N, n.models \in ChunksOf(SlotOf(N)), NEW c \in Nat \ {0}, NEW v \in Nat \ {0}
    PROVE  LET d == DeleteModelFrom(n, c, v)
           IN  /\ d.models \in ChunksOf(SlotOf(N))
               /\ Dropped(n.models, d.models, <<c, v>>)
               /\ Counted(n.models) => Counted(d.models)
               /\ \/ d = n /\ <<c, v>> \notin LiveIn(n.models)
                  \/ /\ <<c, v>> \in SlotsIn(n.models)
                     /\ d = [models |-> d.models,
                             node |-> RemoveFromNodes(n.node, SlotAt(n.models, <<c, v>>))]
<1> DEFINE m == n.models
           T == SlotOf(N)
           d == DeleteModelFrom(n, c, v)
           slots == m[c].slots
           nulls == m[c].nulls
           w == Len(slots)
           null == slots[v].type = "null"
<1>0. /\ Len(m) \in Nat
      /\ \A p : p \in SlotsIn(m) <=> p \in Nat \X Nat /\ p[1] \in 1..Len(m) /\ p[2] \in 1..Len(m[p[1]].slots)
      /\ c \in 1..Len(m) => /\ slots \in Seq(T) /\ w \in Nat /\ nulls \in 0..(SizeMod - 1)
                            /\ \A i \in 1..w : slots[i] \in T
  BY ChunkFacts, SizesAssumption, SMT
<1>m. m \in ChunksOf(T)
  OBVIOUS
<1>1. ASSUME d = n, <<c, v>> \notin LiveIn(m)
      PROVE  /\ d.models \in ChunksOf(T)
             /\ Dropped(m, d.models, <<c, v>>)
             /\ Counted(m) => Counted(d.models)
             /\ d = n /\ <<c, v>> \notin LiveIn(m)
  <2>1. d.models = m  BY <1>1
  <2> HIDE DEF d, m
  <2>2. Dropped(m, m, <<c, v>>)  BY <1>1 DEF Dropped
  <2> QED BY <1>1, <2>1, <2>2 DEF m
<1>2. CASE c > Len(m)
  <2>1. d = n  BY <1>2 DEF DeleteModelFrom
  <2>2. <<c, v>> \notin LiveIn(m)
    <3> HIDE DEF m
    <3> QED BY <1>0, <1>2, SMT DEF LiveIn
  <2> HIDE DEF m, d
  <2> QED BY <1>1, <2>1, <2>2 DEF m, d
<1>3. CASE c <= Len(m) /\ v > w
  <2>1. d = n  BY <1>0, <1>3 DEF DeleteModelFrom
  <2>2. <<c, v>> \notin LiveIn(m)
    <3> HIDE DEF m
    <3> QED BY <1>0, <1>3, SMT DEF LiveIn
  <2> HIDE DEF m, d
  <2> QED BY <1>1, <2>1, <2>2 DEF m, d
<1>4. CASE c <= Len(m) /\ v < w /\ null
  <2>1. d = n
    <3>1. w \in Nat /\ ~(c > Len(m)) /\ ~(v > w) /\ v # w
      <4> HIDE DEF m, slots
      <4> QED BY <1>0, <1>4, SMT
    <3> QED BY <1>4, <3>1 DEF DeleteModelFrom
  <2>2. <<c, v>> \notin LiveIn(m)
    <3>1. SlotAt(m, <<c, v>>) = slots[v]  BY DEF SlotAt
    <3> QED BY <1>4, <3>1 DEF LiveIn
  <2> HIDE DEF m, d
  <2> QED BY <1>1, <2>1, <2>2 DEF m, d
<1>5. CASE c <= Len(m) /\ v = w
  <2> DEFINE k == IF null THEN Wrap(nulls - 1) ELSE nulls
             new == SetChunk(m, c, SubSeq(slots, 1, w - 1), k)
  <2>0. c \in 1..Len(m) /\ w \in Nat /\ w >= 1 /\ nulls \in 0..(SizeMod - 1) /\ slots \in Seq(T) /\ slots # <<>>
    <3>1. c \in 1..Len(m)
      <4> HIDE DEF m
      <4> QED BY <1>0, <1>5, SMT
    <3>2. w \in Nat /\ w >= 1 /\ nulls \in 0..(SizeMod - 1) /\ slots \in Seq(T)
      BY <1>0, <1>5, <3>1, SMT
    <3> HIDE DEF slots
    <3> QED BY <3>1, <3>2, SMT
  <2>1. k \in 0..(SizeMod - 1)
    <3>1. nulls - 1 \in Int  BY <2>0, SizesAssumption, SMT
    <3> HIDE DEF nulls
    <3> QED BY <2>0, <3>1, WrapType
  <2>2. d = [models |-> new, node |-> RemoveFromNodes(n.node, slots[v])]
    <3>1. ~(c > Len(m)) /\ ~(v > w) /\ v - 1 = w - 1
      <4> HIDE DEF m, slots
      <4> QED BY <1>0, <1>5, <2>0, SMT
    <3> QED BY <1>5, <3>1 DEF DeleteModelFrom
  <2>3. d.models = new /\ d.node = RemoveFromNodes(n.node, slots[v])
    <3> HIDE DEF d, new
    <3> QED BY <2>2
  <2>4. new \in ChunksOf(T) /\ Dropped(m, new, <<c, v>>)
    <3> HIDE DEF k
    <3> QED BY <1>5, <2>0, <2>1, PopEffect
  <2>5. <<c, v>> \in SlotsIn(m) /\ SlotAt(m, <<c, v>>) = slots[v]
    <3>1. v \in 1..w  BY <1>5, <2>0, SMT
    <3>2. <<c, v>> \in SlotsIn(m)
      <4> HIDE DEF m
      <4> QED BY <1>0, <2>0, <3>1
    <3> QED BY <3>2 DEF SlotAt
  <2>6. ASSUME Counted(m) PROVE Counted(new)
    <3> DEFINE q == SubSeq(slots, 1, w - 1)
               S == NullsAmong(slots)
    <3>0. q \in Seq(T) /\ Len(q) = w - 1 /\ \A i \in 1..(w - 1) : q[i] = slots[i]
      <4>1. ASSUME NEW s \in Seq(T), NEW j \in 0..Len(s)
            PROVE  SubSeq(s, 1, j) \in Seq(T) /\ Len(SubSeq(s, 1, j)) = j
        BY SMT
      <4>2. ASSUME NEW s \in Seq(T), NEW j \in 0..Len(s), NEW i \in 1..j
            PROVE  SubSeq(s, 1, j)[i] = s[i]
        BY SMT
      <4>3. w - 1 \in 0..Len(slots)  BY <2>0, SMT
      <4> HIDE DEF w, slots, T
      <4> QED BY <2>0, <4>1, <4>2, <4>3
    <3>1. /\ Len(new) = Len(m) /\ new[c].slots = q /\ new[c].nulls = k
          /\ \A j \in 1..Len(m) : j # c => new[j] = m[j]
      <4>1. Len(q) <= ChunkSize
        <5>1. w \in 0..ChunkSize  BY <2>0, ChunkFacts
        <5> QED BY <2>0, <3>0, <5>1, SizesAssumption, SMT
      <4>2. new = SetChunk(m, c, q, k)  OBVIOUS
      <4> HIDE DEF q, k, T, m, new
      <4> QED BY <1>m, <2>0, <2>1, <3>0, <4>1, <4>2, SetChunkEffect, SMTT(30)
    <3>2. IsFiniteSet(S) /\ Cardinality(S) \in 0..(SizeMod - 1) /\ nulls = Cardinality(S)
      <4>1. nulls = Cardinality(S)  BY <2>0, <2>6 DEF Counted, NullsAmong
      <4> HIDE DEF m, nulls
      <4> QED BY <2>0, <4>1, NullsFinite DEF m
    <3>3. NullsAmong(q) = S \ {v}
      <4> HIDE DEF q, slots
      <4> QED BY <1>5, <2>0, <3>0, SMT DEF NullsAmong
    <3>4. null <=> v \in S
      <4> HIDE DEF slots
      <4> QED BY <1>5, <2>0, SMT DEF NullsAmong
    <3>5. k = Cardinality(NullsAmong(q))
      <4>1. CASE v \in S
        <5>1. Cardinality(S \ {v}) = Cardinality(S) - 1  BY <3>2, <4>1, FS_RemoveElement
        <5>2. Cardinality(S \ {v}) \in Nat  BY <3>2, FS_RemoveElement, FS_CardinalityType
        <5>3. k = Wrap(nulls - 1)  BY <3>4, <4>1
        <5> HIDE DEF nulls, S, k
        <5>4. nulls - 1 \in 0..(SizeMod - 1)  BY <3>2, <5>1, <5>2, SizesAssumption, SMT
        <5> QED BY <3>2, <3>3, <5>1, <5>3, <5>4, WrapSmall
      <4>2. CASE v \notin S
        <5>1. S \ {v} = S /\ k = nulls  BY <3>4, <4>2
        <5> QED BY <3>2, <3>3, <5>1
      <4> QED BY <4>1, <4>2
    <3> HIDE DEF m, new, k, q
    <3> QED BY <2>6, <3>1, <3>5, CountedStep
  <2> HIDE DEF d, m, new
  <2> QED BY <2>2, <2>3, <2>4, <2>5, <2>6 DEF d, m
<1>6. CASE c <= Len(m) /\ v < w /\ ~null
  <2> DEFINE k == Wrap(nulls + 1)
             q == [i \in 1..w |-> IF i = v THEN NullSlot ELSE slots[i]]
             new == SetChunk(m, c, q, k)
             S == NullsAmong(slots)
  <2>0. c \in 1..Len(m) /\ w \in Nat /\ v \in 1..w /\ nulls \in 0..(SizeMod - 1) /\ slots \in Seq(T)
    <3>1. c \in 1..Len(m)
      <4> HIDE DEF m
      <4> QED BY <1>0, <1>6, SMT
    <3>2. w \in Nat /\ nulls \in 0..(SizeMod - 1) /\ slots \in Seq(T)
      BY <1>0, <3>1
    <3> HIDE DEF slots
    <3> QED BY <1>6, <3>1, <3>2, SMT
  <2>1. k \in 0..(SizeMod - 1)
    <3>1. nulls + 1 \in Int  BY <2>0, SizesAssumption, SMT
    <3> HIDE DEF nulls
    <3> QED BY <3>1, WrapType
  <2>2. d = [models |-> new, node |-> RemoveFromNodes(n.node, slots[v])]
    <3>1. ~(c > Len(m)) /\ ~(v > w) /\ v # w
      <4> HIDE DEF m, slots
      <4> QED BY <1>0, <1>6, <2>0, SMT
    <3> QED BY <1>6, <3>1 DEF DeleteModelFrom
  <2>3. d.models = new /\ d.node = RemoveFromNodes(n.node, slots[v])
    <3> HIDE DEF d, new
    <3> QED BY <2>2
  <2>4. new \in ChunksOf(T) /\ Dropped(m, new, <<c, v>>)
    <3>1. NullSlot \in T  BY DEF SlotOf
    <3> HIDE DEF k, T, m
    <3> QED BY <1>m, <2>0, <2>1, <3>1, ClearEffect
  <2>5. <<c, v>> \in SlotsIn(m) /\ SlotAt(m, <<c, v>>) = slots[v]
    <3>2. <<c, v>> \in SlotsIn(m)
      <4> HIDE DEF m
      <4> QED BY <1>0, <2>0
    <3> QED BY <3>2 DEF SlotAt
  <2>6. ASSUME Counted(m) PROVE Counted(new)
    <3>0. q \in Seq(T) /\ Len(q) = w /\ q[v] = NullSlot /\ \A i \in 1..w : i # v => q[i] = slots[i]
      <4>1. \A i \in 1..w : slots[i] \in T  BY <1>0, <2>0
      <4>2. NullSlot \in T  BY DEF SlotOf
      <4> HIDE DEF slots, T, w
      <4>3. q \in [1..w -> T]  BY <4>1, <4>2
      <4>4. q[v] = NullSlot /\ \A i \in 1..w : i # v => q[i] = slots[i]  BY <2>0
      <4> HIDE DEF q
      <4> QED BY <2>0, <4>3, <4>4, SMT
    <3>1. /\ Len(new) = Len(m) /\ new[c].slots = q /\ new[c].nulls = k
          /\ \A j \in 1..Len(m) : j # c => new[j] = m[j]
      <4>1. Len(q) <= ChunkSize
        <5>1. w \in 0..ChunkSize  BY <2>0, ChunkFacts
        <5> QED BY <3>0, <5>1, SizesAssumption, SMT
      <4> HIDE DEF q, k, T, m
      <4> QED BY <1>m, <2>0, <2>1, <3>0, <4>1, SetChunkEffect, SMT
    <3>2. v \notin S
      <4> HIDE DEF slots
      <4> QED BY <1>6 DEF NullsAmong
    <3>3. /\ IsFiniteSet(S) /\ nulls = Cardinality(S) /\ Cardinality(S) \in 0..(SizeMod - 1)
          /\ Cardinality(S) + 1 \in 0..(SizeMod - 1)
      <4>1. nulls = Cardinality(S)  BY <2>0, <2>6 DEF Counted, NullsAmong
      <4> HIDE DEF m, nulls
      <4> QED BY <2>0, <3>2, <4>1, NullsFinite DEF m
    <3>4. NullsAmong(q) = S \cup {v}
      <4>1. q[v].type = "null"  BY <3>0, SMT DEF NullSlot
      <4> HIDE DEF q, slots
      <4> QED BY <2>0, <3>0, <4>1 DEF NullsAmong
    <3>5. k = Cardinality(NullsAmong(q))
      <4>1. Cardinality(S \cup {v}) = Cardinality(S) + 1  BY <3>2, <3>3, FS_AddElement
      <4> HIDE DEF nulls, S
      <4> QED BY <3>3, <3>4, <4>1, WrapSmall
    <3> HIDE DEF m, new, k, q
    <3> QED BY <2>6, <3>1, <3>5, CountedStep
  <2> HIDE DEF d, m, new
  <2> QED BY <2>2, <2>3, <2>4, <2>5, <2>6 DEF d, m
<1>7. c > Len(m) \/ c <= Len(m)
  BY <1>0, SMT
<1>8. c <= Len(m) => v > w \/ v < w \/ v = w
  <2>1. c <= Len(m) => w \in Nat
    <3>1. c <= Len(m) => c \in 1..Len(m)
      <4> HIDE DEF m
      <4> QED BY <1>0, SMT
    <3> QED BY <1>0, <3>1
  <2> HIDE DEF w
  <2> QED BY <2>1, SMT
<1> QED BY <1>2, <1>3, <1>4, <1>5, <1>6, <1>7, <1>8


-----------------------------------------------------------------------------
(* Netlists.                                                               *)

\* A live model of m has the pin, and its pin.nodes is k.
Holds(m, pin, k) ==
    \E p \in LiveIn(m) : \E i \in DOMAIN SlotAt(m, p).nodes :
        pin = <<SlotAt(m, p).id, i>> /\ SlotAt(m, p).nodes[i] = k

UniqueIn(m) == \A p, q \in LiveIn(m) : SlotAt(m, p).id = SlotAt(m, q).id => p = q

Sound(n) == Typed(n) /\ Members(n)

\* What a live slot holds.
LEMMA LiveFacts ==
    ASSUME NEW N, NEW m \in ChunksOf(SlotOf(N))
    PROVE  \A p \in LiveIn(m) :
              /\ p \in SlotsIn(m) /\ p \in Nat \X Nat
              /\ SlotAt(m, p) \in SlotOf(N) /\ SlotAt(m, p).type = "normal"
              /\ SlotAt(m, p).kind \in DOMAIN Devices /\ Devices[SlotAt(m, p).kind].pins \in Nat
              /\ SlotAt(m, p).id \in Nat \ {0}
              /\ SlotAt(m, p).nodes \in [1..Devices[SlotAt(m, p).kind].pins -> N \cup {Nullptr}]
<1> TAKE p \in LiveIn(m)
<1>1. p \in SlotsIn(m) /\ SlotAt(m, p).type = "normal"  BY DEF LiveIn
<1>2. p \in Nat \X Nat /\ SlotAt(m, p) \in SlotOf(N)  BY <1>1, ChunkFacts
<1> QED BY <1>1, <1>2, SlotFacts

\* A pin points to one node.
LEMMA HoldsUnique ==
    ASSUME NEW m, UniqueIn(m), NEW pin, NEW j, NEW k, Holds(m, pin, j), Holds(m, pin, k)
    PROVE  j = k
BY SMT DEF Holds, UniqueIn

\* PinsTo in terms of Holds.
LEMMA PinsToHolds ==
    ASSUME NEW n, NEW k, NEW pin
    PROVE  pin \in PinsTo(n, k) <=> Holds(n.models, pin, k)
BY SMT DEF PinsTo, PinsOfSlots, PinsOn, Holds, Live, LiveIn, At, Slots

\* The size of a netlist whose nodes are numbered from 0.
LEMMA SizeFacts ==
    ASSUME NEW n, NEW K \in Nat, Nodes(n) = 0..K
    PROVE  Size(n) = K + 1
<1>1. 0 \in Int /\ K \in Int  BY SMT
<1> QED BY <1>1, FS_Interval, SMT DEF Size

\* The parts a netlist is made of.
LEMMA TypedFacts ==
    ASSUME NEW n
    PROVE  Typed(n) <=>
             \E K \in Nat :
                /\ Nodes(n) = 0..K /\ Size(n) = K + 1
                /\ n = [models |-> n.models, node |-> n.node]
                /\ n.node \in [0..K -> NodeType]
                /\ n.models \in ChunksOf(SlotOf(0..K))
                /\ UniqueIn(n.models)
<1>1. (\A p, q \in Live(n) : At(n, p).id = At(n, q).id => p = q) <=> UniqueIn(n.models)
  BY DEF Live, LiveIn, At, Slots, UniqueIn
<1>2. ASSUME Typed(n)
      PROVE  \E K \in Nat :
                /\ Nodes(n) = 0..K /\ Size(n) = K + 1
                /\ n = [models |-> n.models, node |-> n.node]
                /\ n.node \in [0..K -> NodeType]
                /\ n.models \in ChunksOf(SlotOf(0..K))
                /\ UniqueIn(n.models)
  <2>1. /\ Size(n) \in Nat \ {0} /\ Nodes(n) = 0..(Size(n) - 1)
        /\ n = [models |-> n.models, node |-> n.node]
        /\ n.node \in [Nodes(n) -> NodeType]
        /\ n.models \in ChunksOf(SlotOf(Nodes(n)))
        /\ UniqueIn(n.models)
    BY <1>1, <1>2 DEF Typed
  <2>2. Size(n) - 1 \in Nat /\ Size(n) = (Size(n) - 1) + 1  BY <2>1, SMT
  <2> QED BY <2>1, <2>2
<1>3. ASSUME NEW K \in Nat,
             Nodes(n) = 0..K, Size(n) = K + 1,
             n = [models |-> n.models, node |-> n.node],
             n.node \in [0..K -> NodeType],
             n.models \in ChunksOf(SlotOf(0..K)),
             UniqueIn(n.models)
      PROVE  Typed(n)
  <2>1. Size(n) \in Nat \ {0} /\ Size(n) - 1 = K  BY <1>3, SMT
  <2> QED BY <1>1, <1>3, <2>1 DEF Typed
<1> QED BY <1>2, <1>3

\* A netlist put together from typed parts is typed.
LEMMA TypedIntro ==
    ASSUME NEW K \in Nat, NEW node \in [0..K -> NodeType],
           NEW m \in ChunksOf(SlotOf(0..K)), UniqueIn(m)
    PROVE  LET r == [models |-> m, node |-> node]
           IN  Typed(r) /\ Nodes(r) = 0..K /\ Size(r) = K + 1 /\ r.models = m /\ r.node = node
<1> DEFINE r == [models |-> m, node |-> node]
<1>1. r.models = m /\ r.node = node /\ r = [models |-> r.models, node |-> r.node]  OBVIOUS
<1>2. Nodes(r) = 0..K  BY DEF Nodes
<1> HIDE DEF r
<1>3. Size(r) = K + 1  BY <1>2, SizeFacts
<1>4. Typed(r)  BY <1>1, <1>2, <1>3, TypedFacts
<1> QED BY <1>1, <1>2, <1>3, <1>4 DEF r

\* Members in terms of Holds.
LEMMA MembersHold ==
    ASSUME NEW n
    PROVE  Members(n) <=> \A k \in Nodes(n) : \A pin \in n.node[k].pins : Holds(n.models, pin, k)
BY PinsToHolds DEF Members

\* A model of new is at the place it had in m, or at an address no model of m had.
Keeps(m, new) ==
    \A q \in LiveIn(new) : \/ q \in LiveIn(m) /\ SlotAt(new, q).id = SlotAt(m, q).id
                           \/ \A p \in LiveIn(m) : SlotAt(m, p).id # SlotAt(new, q).id

\* What every operation but the rollback does to a sound netlist.
Advances(n, r) ==
    /\ Sound(r)
    /\ Counted(n.models) => Counted(r.models)
    /\ Keeps(n.models, r.models)
    /\ Size(n) <= Size(r)


\* Setting pin.nodes of some pins.
LEMMA RepointHolds ==
    ASSUME NEW N, NEW m \in ChunksOf(SlotOf(N)), NEW pins, NEW k \in N \cup {Nullptr}
    PROVE  LET new == Repoint(m, pins, k)
           IN  /\ new \in ChunksOf(SlotOf(N)) /\ (Counted(m) => Counted(new))
               /\ LiveIn(new) = LiveIn(m)
               /\ \A p \in LiveIn(m) : SlotAt(new, p).id = SlotAt(m, p).id /\ SlotAt(new, p).kind = SlotAt(m, p).kind
               /\ Keeps(m, new)
               /\ UniqueIn(m) => UniqueIn(new)
               /\ \A pin : pin \notin pins => \A j : Holds(new, pin, j) <=> Holds(m, pin, j)
               /\ \A pin \in pins : \A j : Holds(new, pin, j) <=> j = k /\ \E i : Holds(m, pin, i)
<1> DEFINE new == Repoint(m, pins, k)
<1>1. /\ new \in ChunksOf(SlotOf(N)) /\ (Counted(m) => Counted(new))
      /\ SlotsIn(new) = SlotsIn(m)
      /\ \A p \in SlotsIn(m) : SlotAt(new, p) = Point(SlotAt(m, p), pins, k)
  BY RepointEffect, SMT
<1> HIDE DEF new
<1>2. \A p \in SlotsIn(m) :
         /\ SlotAt(new, p).type = SlotAt(m, p).type
         /\ SlotAt(new, p).kind = SlotAt(m, p).kind
         /\ SlotAt(new, p).id = SlotAt(m, p).id
         /\ DOMAIN SlotAt(new, p).nodes = DOMAIN SlotAt(m, p).nodes
         /\ \A i \in DOMAIN SlotAt(m, p).nodes :
                SlotAt(new, p).nodes[i] = IF <<SlotAt(m, p).id, i>> \in pins THEN k ELSE SlotAt(m, p).nodes[i]
  <2> TAKE p \in SlotsIn(m)
  <2>1. SlotAt(m, p) \in SlotOf(N)  BY ChunkFacts
  <2> QED BY <1>1, <2>1, PointFacts, SMT
<1>3. LiveIn(new) = LiveIn(m) /\ LiveIn(m) \in SUBSET SlotsIn(m)
  BY <1>1, <1>2 DEF LiveIn
<1>4. Keeps(m, new) /\ (UniqueIn(m) => UniqueIn(new))
  BY <1>2, <1>3 DEF Keeps, UniqueIn
<1>5. ASSUME NEW pin, pin \notin pins, NEW j PROVE Holds(new, pin, j) <=> Holds(m, pin, j)
  BY <1>2, <1>3, <1>5, SMT DEF Holds
<1>6. ASSUME NEW pin \in pins, NEW j PROVE Holds(new, pin, j) <=> j = k /\ \E i : Holds(m, pin, i)
  BY <1>2, <1>3, SMT DEF Holds
<1> QED BY <1>1, <1>2, <1>3, <1>4, <1>5, <1>6 DEF new

\* Setting pin.nodes of some pins, and the nodes' lists to ones that agree with it.
LEMMA RepointAdvances ==
    ASSUME NEW n, Sound(n), NEW pins, NEW k \in Nodes(n) \cup {Nullptr},
           NEW node \in [Nodes(n) -> NodeType],
           \A j \in Nodes(n) : \A pin \in node[j].pins :
              IF pin \in pins THEN j = k /\ \E i : Holds(n.models, pin, i) ELSE Holds(n.models, pin, j)
    PROVE  LET r == [models |-> Repoint(n.models, pins, k), node |-> node]
           IN  Advances(n, r) /\ Nodes(r) = Nodes(n) /\ LiveIn(r.models) = LiveIn(n.models)
<1> DEFINE m == n.models
           new == Repoint(m, pins, k)
           r == [models |-> new, node |-> node]
<1>1. PICK K \in Nat : /\ Nodes(n) = 0..K /\ Size(n) = K + 1
                       /\ m \in ChunksOf(SlotOf(0..K))
                       /\ UniqueIn(m)
  BY TypedFacts DEF Sound
<1>2. /\ new \in ChunksOf(SlotOf(0..K)) /\ (Counted(m) => Counted(new))
      /\ LiveIn(new) = LiveIn(m) /\ Keeps(m, new) /\ UniqueIn(new)
      /\ \A pin : pin \notin pins => \A j : Holds(new, pin, j) <=> Holds(m, pin, j)
      /\ \A pin \in pins : \A j : Holds(new, pin, j) <=> j = k /\ \E i : Holds(m, pin, i)
  <2> DEFINE N == 0..K
  <2>1. m \in ChunksOf(SlotOf(N)) /\ k \in N \cup {Nullptr} /\ UniqueIn(m)  BY <1>1
  <2> HIDE DEF m, N
  <2>2. /\ new \in ChunksOf(SlotOf(N)) /\ (Counted(m) => Counted(new))
        /\ LiveIn(new) = LiveIn(m) /\ Keeps(m, new) /\ UniqueIn(new)
        /\ \A pin : pin \notin pins => \A j : Holds(new, pin, j) <=> Holds(m, pin, j)
        /\ \A pin \in pins : \A j : Holds(new, pin, j) <=> j = k /\ \E i : Holds(m, pin, i)
    BY <2>1, RepointHolds, SMT
  <2> QED BY <2>2 DEF N
<1> HIDE DEF new
<1>3. Typed(r) /\ Nodes(r) = 0..K /\ Size(r) = K + 1 /\ r.models = new /\ r.node = node
  BY <1>1, <1>2, TypedIntro
<1> HIDE DEF r
<1>4. Members(r)
  <2> SUFFICES ASSUME NEW j \in Nodes(n), NEW pin \in node[j].pins PROVE Holds(new, pin, j)
    BY <1>1, <1>3, MembersHold
  <2>1. CASE pin \in pins  BY <1>2, <2>1
  <2>2. CASE pin \notin pins  BY <1>2, <2>2
  <2> QED BY <2>1, <2>2
<1>5. Size(n) <= Size(r)  BY <1>1, <1>3, SMT
<1>6. Advances(n, r)  BY <1>2, <1>3, <1>4, <1>5 DEF Advances, Sound
<1> QED BY <1>1, <1>2, <1>3, <1>6 DEF r, new


\* What a sound netlist is made of, for the operations below.
LEMMA SoundFacts ==
    ASSUME NEW n, Sound(n)
    PROVE  /\ n.node \in [Nodes(n) -> NodeType] /\ Nodes(n) \in SUBSET Nat /\ Nullptr \notin Nodes(n)
           /\ n.models \in ChunksOf(SlotOf(Nodes(n))) /\ UniqueIn(n.models)
           /\ Live(n) = LiveIn(n.models)
           /\ \A p : At(n, p) = SlotAt(n.models, p)
           /\ \A k \in Nodes(n) : \A pin \in n.node[k].pins : Holds(n.models, pin, k)
           /\ \A k \in Nodes(n) : /\ n.node[k] \in NodeType
                                  /\ n.node[k].pins \in SUBSET (Nat \X Nat) /\ n.node[k].an \in 0..(SizeMod - 1)
<1>1. PICK K \in Nat : /\ Nodes(n) = 0..K
                       /\ n.node \in [0..K -> NodeType]
                       /\ n.models \in ChunksOf(SlotOf(0..K))
                       /\ UniqueIn(n.models)
  BY TypedFacts DEF Sound
<1>2. Nodes(n) \in SUBSET Nat /\ Nullptr \notin Nodes(n)  BY <1>1, SMT DEF Nullptr
<1>3. \A k \in Nodes(n) : \A pin \in n.node[k].pins : Holds(n.models, pin, k)
  BY MembersHold DEF Sound
<1>4. Live(n) = LiveIn(n.models) /\ \A p : At(n, p) = SlotAt(n.models, p)
  BY DEF Live, LiveIn, Slots, At
<1>5. \A k \in Nodes(n) : n.node[k] \in NodeType  BY <1>1
<1>6. \A x \in NodeType : x.pins \in SUBSET (Nat \X Nat) /\ x.an \in 0..(SizeMod - 1)  BY DEF NodeType
<1> QED BY <1>1, <1>2, <1>3, <1>4, <1>5, <1>6

\* A node of some pins and some count.
LEMMA NodeIntro ==
    ASSUME NEW pins \in SUBSET (Nat \X Nat), NEW an \in 0..(SizeMod - 1)
    PROVE  [pins |-> pins, an |-> an] \in NodeType /\ EmptyNode \in NodeType
BY SizesAssumption, SMT DEF NodeType, EmptyNode

\* delete_node() keeps a netlist sound.
LEMMA DeleteNodeAdvances ==
    ASSUME NEW n, Sound(n), NEW k \in Nodes(n)
    PROVE  Advances(n, DeleteNodeIn(n, k))
<1> DEFINE pins == n.node[k].pins
           node == [n.node EXCEPT ![k] = EmptyNode]
<1>1. EmptyNode \in NodeType  BY SizesAssumption, SMT DEF NodeType, EmptyNode
<1>2. node \in [Nodes(n) -> NodeType]  BY <1>1, SoundFacts
<1>3. node[k].pins = {} /\ \A j \in Nodes(n) : j # k => node[j] = n.node[j]
  BY SoundFacts DEF EmptyNode
<1>4. ASSUME NEW j \in Nodes(n), NEW pin \in node[j].pins PROVE pin \notin pins /\ Holds(n.models, pin, j)
  <2>1. j # k /\ pin \in n.node[j].pins  BY <1>3
  <2>2. Holds(n.models, pin, j)  BY <2>1, SoundFacts
  <2>3. pin \in pins => Holds(n.models, pin, k)  BY SoundFacts
  <2> QED BY <2>1, <2>2, <2>3, SoundFacts, HoldsUnique
<1> HIDE DEF node, pins
<1>5. Advances(n, [models |-> Repoint(n.models, pins, Nullptr), node |-> node])
  BY <1>2, <1>4, RepointAdvances
<1> QED BY <1>5 DEF DeleteNodeIn, node, pins

\* merge_node() keeps a netlist sound, also when a node is merged with itself.
LEMMA MergeNodeAdvances ==
    ASSUME NEW n, Sound(n), NEW k \in Nodes(n), NEW other \in Nodes(n)
    PROVE  Advances(n, MergeNodeIn(n, k, other))
<1> DEFINE pins == n.node[other].pins
           new == [pins |-> n.node[k].pins \cup pins, an |-> n.node[k].an]
           node == [j \in Nodes(n) |-> IF j = other THEN EmptyNode ELSE IF j = k THEN new ELSE n.node[j]]
<1>1. EmptyNode \in NodeType /\ new \in NodeType
  BY SoundFacts, SizesAssumption, SMT DEF NodeType, EmptyNode
<1>2. node \in [Nodes(n) -> NodeType]
  <2> HIDE DEF new
  <2> QED BY <1>1, SoundFacts
<1>3. ASSUME NEW j \in Nodes(n), NEW pin \in node[j].pins
      PROVE  IF pin \in pins THEN j = k /\ \E i : Holds(n.models, pin, i) ELSE Holds(n.models, pin, j)
  <2>0. j # other /\ pin \in n.node[j].pins \cup pins /\ (j # k => pin \in n.node[j].pins)  BY DEF EmptyNode
  <2>1. CASE pin \in pins
    <3>1. Holds(n.models, pin, other)  BY <2>1, SoundFacts
    <3>2. j # k => Holds(n.models, pin, j)  BY <2>0, SoundFacts
    <3>3. j = k  BY <2>0, <3>1, <3>2, SoundFacts, HoldsUnique
    <3> QED BY <2>1, <3>1, <3>3
  <2>2. CASE pin \notin pins
    BY <2>0, <2>2, SoundFacts
  <2> QED BY <2>1, <2>2
<1> HIDE DEF node, pins
<1>5. Advances(n, [models |-> Repoint(n.models, pins, k), node |-> node])
  BY <1>2, <1>3, RepointAdvances
<1> QED BY <1>5 DEF MergeNodeIn, node, pins

\* The pin is a pin of the live model at p.
LEMMA PinHolds ==
    ASSUME NEW n, Sound(n), NEW p \in Live(n), NEW i \in DOMAIN At(n, p).nodes
    PROVE  /\ <<At(n, p).id, i>> \in Nat \X Nat
           /\ Holds(n.models, <<At(n, p).id, i>>, At(n, p).nodes[i])
           /\ At(n, p).nodes[i] \in Nodes(n) \cup {Nullptr}
<1>1. p \in LiveIn(n.models) /\ At(n, p) = SlotAt(n.models, p)  BY SoundFacts
<1>2. At(n, p).id \in Nat /\ i \in Nat /\ At(n, p).nodes[i] \in Nodes(n) \cup {Nullptr}
  <2>1. n.models \in ChunksOf(SlotOf(Nodes(n)))  BY SoundFacts
  <2>2. /\ At(n, p).id \in Nat
        /\ At(n, p).nodes \in [1..Devices[At(n, p).kind].pins -> Nodes(n) \cup {Nullptr}]
    BY <1>1, <2>1, LiveFacts, SMT
  <2> DEFINE f == At(n, p).nodes
             D == 1..Devices[At(n, p).kind].pins
  <2>3. DOMAIN f = D /\ f[i] \in Nodes(n) \cup {Nullptr}  BY <2>2
  <2>4. \A x \in D : x \in Nat  BY SMT
  <2> QED BY <2>2, <2>3, <2>4
<1> QED BY <1>1, <1>2 DEF Holds

\* add_to_node() keeps a netlist sound.
LEMMA AddToNodeAdvances ==
    ASSUME NEW n, Sound(n), NEW p \in Live(n), NEW i \in DOMAIN At(n, p).nodes,
           At(n, p).nodes[i] = Nullptr, NEW k \in Nodes(n)
    PROVE  Advances(n, AddToNodeIn(n, p, i, k))
<1> DEFINE pin == <<At(n, p).id, i>>
           new == [pins |-> n.node[k].pins \cup {pin},
                   an |-> IF Analog(At(n, p)) THEN Wrap(n.node[k].an + 1) ELSE n.node[k].an]
           node == [n.node EXCEPT ![k] = new]
<1>0. pin \in Nat \X Nat /\ Holds(n.models, pin, Nullptr)  BY PinHolds
<1>1. new \in NodeType
  <2>1. n.node[k].an + 1 \in Int /\ n.node[k].an \in 0..(SizeMod - 1)  BY SoundFacts, SizesAssumption, SMT
  <2>2. Wrap(n.node[k].an + 1) \in 0..(SizeMod - 1)  BY <2>1, WrapType
  <2>3. n.node[k].pins \cup {pin} \in SUBSET (Nat \X Nat)  BY <1>0, SoundFacts
  <2> HIDE DEF pin
  <2> QED BY <2>1, <2>2, <2>3, NodeIntro
<1> HIDE DEF pin
<1>2. /\ node \in [Nodes(n) -> NodeType] /\ node[k].pins = n.node[k].pins \cup {pin}
      /\ \A j \in Nodes(n) : j # k => node[j] = n.node[j]
  <2>1. new.pins = n.node[k].pins \cup {pin}  OBVIOUS
  <2> HIDE DEF new
  <2> QED BY <1>1, <2>1, SoundFacts
<1>3. ASSUME NEW j \in Nodes(n), NEW x \in node[j].pins
      PROVE  IF x \in {pin} THEN j = k /\ \E l : Holds(n.models, x, l) ELSE Holds(n.models, x, j)
  <2>1. CASE x \in n.node[j].pins
    <3>1. Holds(n.models, x, j)  BY <2>1, SoundFacts
    <3>u. UniqueIn(n.models) /\ Nullptr \notin Nodes(n)  BY SoundFacts
    <3>2. x # pin  BY <1>0, <3>1, <3>u, HoldsUnique
    <3> QED BY <3>1, <3>2
  <2>2. CASE x \notin n.node[j].pins
    BY <1>0, <1>2, <2>2, SMT
  <2> QED BY <2>1, <2>2
<1>4. AddToNodeIn(n, p, i, k) = [models |-> Repoint(n.models, {pin}, k), node |-> node]
  BY DEF AddToNodeIn, pin
<1> HIDE DEF node
<1>5. Advances(n, [models |-> Repoint(n.models, {pin}, k), node |-> node])
  BY <1>2, <1>3, RepointAdvances
<1> QED BY <1>4, <1>5

\* remove_from_node() keeps a netlist sound.
LEMMA RemoveFromNodeAdvances ==
    ASSUME NEW n, Sound(n), NEW p \in Live(n), NEW i \in DOMAIN At(n, p).nodes,
           At(n, p).nodes[i] # Nullptr
    PROVE  Advances(n, RemoveFromNodeIn(n, p, i, At(n, p).nodes[i]))
<1> DEFINE k == At(n, p).nodes[i]
           pin == <<At(n, p).id, i>>
           new == [pins |-> n.node[k].pins \ {pin},
                   an |-> IF Analog(At(n, p)) THEN Wrap(n.node[k].an - 1) ELSE n.node[k].an]
           node == [n.node EXCEPT ![k] = new]
<1>0. k \in Nodes(n) /\ pin \in Nat \X Nat /\ Holds(n.models, pin, k)  BY PinHolds
<1>a. RemoveFromNodeIn(n, p, i, k) = [models |-> Repoint(n.models, {pin}, Nullptr), node |-> node]
  BY DEF RemoveFromNodeIn
<1> HIDE DEF k, pin
<1>1. new \in NodeType
  <2>1. n.node[k].an - 1 \in Int /\ n.node[k].an \in 0..(SizeMod - 1)  BY <1>0, SoundFacts, SizesAssumption, SMT
  <2>2. Wrap(n.node[k].an - 1) \in 0..(SizeMod - 1)  BY <2>1, WrapType
  <2>3. n.node[k].pins \ {pin} \in SUBSET (Nat \X Nat)  BY <1>0, SoundFacts
  <2> QED BY <2>1, <2>2, <2>3, NodeIntro
<1>2. /\ node \in [Nodes(n) -> NodeType] /\ node[k].pins = n.node[k].pins \ {pin}
      /\ \A j \in Nodes(n) : j # k => node[j] = n.node[j]
  <2>1. new.pins = n.node[k].pins \ {pin}  OBVIOUS
  <2> HIDE DEF new
  <2> QED BY <1>0, <1>1, <2>1, SoundFacts
<1>3. ASSUME NEW j \in Nodes(n), NEW x \in node[j].pins
      PROVE  IF x \in {pin} THEN j = Nullptr /\ \E l : Holds(n.models, x, l) ELSE Holds(n.models, x, j)
  <2>1. x \in n.node[j].pins /\ (j = k => x # pin)  BY <1>2
  <2>2. Holds(n.models, x, j)  BY <2>1, SoundFacts
  <2>u. UniqueIn(n.models)  BY SoundFacts
  <2>3. x # pin  BY <1>0, <2>1, <2>2, <2>u, HoldsUnique
  <2> QED BY <2>2, <2>3
<1> HIDE DEF node
<1>5. Advances(n, [models |-> Repoint(n.models, {pin}, Nullptr), node |-> node])
  BY <1>2, <1>3, RepointAdvances
<1> QED BY <1>a, <1>5 DEF k


\* Chunks of fewer nodes are chunks of more.
LEMMA ChunksMono ==
    ASSUME NEW T, NEW U, T \subseteq U, NEW m \in ChunksOf(T)
    PROVE  m \in ChunksOf(U)
<1>1. /\ Len(m) \in Nat /\ DOMAIN m = 1..Len(m) /\ m \in Seq(Chunk(T))
      /\ \A c \in 1..Len(m) : /\ m[c] \in Chunk(T) /\ m[c].slots \in Seq(T)
                              /\ Len(m[c].slots) <= ChunkSize
  BY ChunkFacts, SMT
<1>2. Seq(T) \subseteq Seq(U)  BY SMT
<1>3. \A c \in 1..Len(m) : m[c] \in Chunk(U)  BY <1>1, <1>2 DEF Chunk
<1>4. m \in [1..Len(m) -> Chunk(U)]  BY <1>1, <1>3, SMT
<1> QED BY <1>1, <1>4, ChunkIntro

\* create_node() keeps a netlist sound.
LEMMA CreateNodeAdvances ==
    ASSUME NEW n, Sound(n)
    PROVE  Advances(n, CreateNodeIn(n))
<1>1. PICK K \in Nat : /\ Nodes(n) = 0..K /\ Size(n) = K + 1
                       /\ n.node \in [0..K -> NodeType]
                       /\ n.models \in ChunksOf(SlotOf(0..K))
                       /\ UniqueIn(n.models)
  BY TypedFacts DEF Sound
<1> DEFINE node == [k \in 0..(K + 1) |-> IF k \in 0..K THEN n.node[k] ELSE EmptyNode]
           r == [models |-> n.models, node |-> node]
<1>2. CreateNodeIn(n) = r  BY <1>1 DEF CreateNodeIn
<1>3. EmptyNode \in NodeType  BY SizesAssumption, SMT DEF NodeType, EmptyNode
<1>4. node \in [0..(K + 1) -> NodeType]  BY <1>1, <1>3
<1>5. n.models \in ChunksOf(SlotOf(0..(K + 1)))
  <2>1. 0..K \subseteq 0..(K + 1)  BY SMT
  <2> QED BY <1>1, <2>1, SlotMono, ChunksMono, SMT
<1>n. \A k \in 0..(K + 1) : IF k \in 0..K THEN node[k] = n.node[k] ELSE node[k].pins = {}
  BY DEF EmptyNode
<1> HIDE DEF node
<1>6. Typed(r) /\ Nodes(r) = 0..(K + 1) /\ Size(r) = K + 2 /\ r.models = n.models /\ r.node = node
  <2>1. K + 1 \in Nat /\ (K + 1) + 1 = K + 2  BY SMT
  <2> HIDE DEF r
  <2> QED BY <1>1, <1>4, <1>5, <2>1, TypedIntro, SMT DEF r
<1> HIDE DEF r
<1>7. Members(r)
  <2> SUFFICES ASSUME NEW k \in 0..(K + 1), NEW pin \in node[k].pins PROVE Holds(n.models, pin, k)
    BY <1>6, MembersHold
  <2>1. k \in 0..K /\ node[k] = n.node[k]  BY <1>n
  <2> QED BY <1>1, <2>1, MembersHold DEF Sound
<1>8. Keeps(n.models, r.models)  BY <1>6 DEF Keeps
<1>9. Advances(n, r)  BY <1>1, <1>6, <1>7, <1>8, SMT DEF Advances, Sound
<1> QED BY <1>2, <1>9

\* add_model() keeps a netlist sound, and adds one unconnected model.
LEMMA AddModelAdvances ==
    ASSUME NEW n, Sound(n), NEW k \in DOMAIN Devices, NEW id \in Nat \ {0},
           \A p \in Live(n) : At(n, p).id # id
    PROVE  /\ Advances(n, AddModelTo(n, k, id))
           /\ AddModelTo(n, k, id).node = n.node
           /\ \E q : /\ LiveIn(AddModelTo(n, k, id).models) = LiveIn(n.models) \cup {q} /\ q \notin LiveIn(n.models)
                     /\ SlotAt(AddModelTo(n, k, id).models, q) = NewModel(k, id)
                     /\ \A p \in LiveIn(n.models) : SlotAt(AddModelTo(n, k, id).models, p) = SlotAt(n.models, p)
<1>1. PICK K \in Nat : /\ Nodes(n) = 0..K /\ Size(n) = K + 1
                       /\ n.node \in [0..K -> NodeType]
                       /\ n.models \in ChunksOf(SlotOf(0..K))
                       /\ UniqueIn(n.models)
  BY TypedFacts DEF Sound
<1> DEFINE m == n.models
           s == NewModel(k, id)
           new == Emplace(m, s)
           r == [models |-> new, node |-> n.node]
<1>2. s \in SlotOf(0..K) /\ s.type = "normal" /\ s.id = id
  <2>1. [i \in 1..Devices[k].pins |-> Nullptr] \in [1..Devices[k].pins -> (0..K) \cup {Nullptr}]  OBVIOUS
  <2>2. s \in SlotOf(0..K)  BY <2>1, SlotIntro DEF NewModel
  <2> QED BY <2>2 DEF NewModel
<1> HIDE DEF s
<1>3. /\ new \in ChunksOf(SlotOf(0..K)) /\ (Counted(m) => Counted(new))
      /\ \E q : Placed(m, new, q, s)
  BY <1>1, <1>2, EmplaceEffect
<1>4. PICK q : Placed(m, new, q, s)  BY <1>3
<1> HIDE DEF new
<1>5. /\ LiveIn(new) = LiveIn(m) \cup {q} /\ SlotAt(new, q) = s /\ q \notin SlotsIn(m)
      /\ \A p \in LiveIn(m) : SlotAt(new, p) = SlotAt(m, p)
  <2>0. q \notin SlotsIn(m)
    <3>1. \A p \in SlotsIn(m) : Before(p, q)  BY <1>4 DEF Placed
    <3>2. q \in Nat \X Nat  BY <1>4 DEF Placed
    <3>3. ~Before(q, q)  BY <3>2, SMT DEF Before
    <3> QED BY <3>1, <3>3
  <2> QED BY <1>2, <1>4, <2>0 DEF Placed, LiveIn
<1>6. \A p \in LiveIn(m) : SlotAt(m, p).id # id  BY SoundFacts
<1>7. UniqueIn(new) /\ Keeps(m, new)
  <2> HIDE DEF m
  <2> QED BY <1>1, <1>2, <1>5, <1>6 DEF UniqueIn, Keeps, m
<1>8. Typed(r) /\ Nodes(r) = 0..K /\ Size(r) = K + 1 /\ r.models = new /\ r.node = n.node
  BY <1>1, <1>3, <1>7, TypedIntro
<1>9. AddModelTo(n, k, id) = r  BY DEF AddModelTo, new, s
<1> HIDE DEF r, m
<1>10. Members(r)
  <2>1. \A pin, j : Holds(m, pin, j) => Holds(new, pin, j)  BY <1>5 DEF Holds
  <2>2. \A j \in Nodes(n) : \A pin \in n.node[j].pins : Holds(m, pin, j)  BY MembersHold DEF Sound, m
  <2> QED BY <1>1, <1>8, <2>1, <2>2, MembersHold
<1>11. Advances(n, r)
  <2>1. Sound(r)  BY <1>8, <1>10 DEF Sound
  <2>2. (Counted(n.models) => Counted(r.models)) /\ Keeps(n.models, r.models)  BY <1>3, <1>7, <1>8 DEF m
  <2>3. Size(n) <= Size(r)  BY <1>1, <1>8, SMT
  <2> QED BY <2>1, <2>2, <2>3 DEF Advances
<1>12. q \notin LiveIn(m)  BY <1>5 DEF LiveIn
<1> QED BY <1>5, <1>8, <1>9, <1>11, <1>12 DEF m, s


\* A model has finitely many pins on a node.
LEMMA PinsOnFinite ==
    ASSUME NEW N, NEW s \in SlotOf(N), NEW k
    PROVE  /\ IsFiniteSet(PinsOn(s, k)) /\ Cardinality(PinsOn(s, k)) \in Nat
           /\ PinsOn(s, k) \in SUBSET (Nat \X Nat)
<1> DEFINE D == {j \in DOMAIN s.nodes : s.nodes[j] = k}
           f == [i \in D |-> <<s.id, i>>]
<1>1. s.id \in Nat /\ \E w \in Nat : DOMAIN s.nodes = 1..w
  <2>1. CASE s.type = "null"
    <3>1. s = NullSlot  BY <2>1, SlotFacts
    <3>2. s.id = 0 /\ DOMAIN s.nodes = 1..0  BY <3>1, SMT DEF NullSlot
    <3> QED BY <3>2, SMT
  <2>2. CASE s.type = "normal"
    <3>1. /\ s.id \in Nat /\ Devices[s.kind].pins \in Nat
          /\ s.nodes \in [1..Devices[s.kind].pins -> N \cup {Nullptr}]
      BY <2>2, SlotFacts
    <3> QED BY <3>1
  <2> QED BY <2>1, <2>2, SlotFacts
<1>2. PICK w \in Nat : DOMAIN s.nodes = 1..w  BY <1>1
<1>3. IsFiniteSet(1..w)
  <2>1. 1 \in Int /\ w \in Int  BY SMT
  <2> QED BY <2>1, FS_Interval
<1>4. IsFiniteSet(D)
  <2>1. D \in SUBSET (1..w)  BY <1>2
  <2> QED BY <1>3, <2>1, FS_Subset
<1>5. f \in Surjection(D, PinsOn(s, k))  BY DEF PinsOn, Surjection
<1>6. PinsOn(s, k) \in SUBSET (Nat \X Nat)
  <2>1. \A x \in 1..w : x \in Nat  BY SMT
  <2> QED BY <1>1, <1>2, <2>1, SMT DEF PinsOn
<1>7. IsFiniteSet(PinsOn(s, k))
  <2> HIDE DEF D, f
  <2> QED BY <1>4, <1>5, FS_Surjection
<1> QED BY <1>6, <1>7, FS_CardinalityType

\* A model leaves the nodes: its pins are in no list any more.
LEMMA DeleteModelAdvances ==
    ASSUME NEW n, Sound(n), NEW c \in Nat \ {0}, NEW v \in Nat \ {0}
    PROVE  LET d == DeleteModelFrom(n, c, v)
           IN  /\ Advances(n, d) /\ Nodes(d) = Nodes(n)
               /\ Dropped(n.models, d.models, <<c, v>>)
<1>1. PICK K \in Nat : /\ Nodes(n) = 0..K /\ Size(n) = K + 1
                       /\ n = [models |-> n.models, node |-> n.node]
                       /\ n.node \in [0..K -> NodeType]
                       /\ n.models \in ChunksOf(SlotOf(0..K))
                       /\ UniqueIn(n.models)
  BY TypedFacts DEF Sound
<1> DEFINE m == n.models
           d == DeleteModelFrom(n, c, v)
           p == <<c, v>>
           s == SlotAt(m, p)
           node == RemoveFromNodes(n.node, s)
<1>2. /\ d.models \in ChunksOf(SlotOf(0..K))
      /\ Dropped(m, d.models, p)
      /\ Counted(m) => Counted(d.models)
      /\ \/ d = n /\ p \notin LiveIn(m)
         \/ p \in SlotsIn(m) /\ d = [models |-> d.models, node |-> node]
  BY <1>1, DeleteEffect
<1> HIDE DEF d, p
<1>3. UniqueIn(d.models) /\ Keeps(m, d.models)
  BY <1>1, <1>2 DEF Dropped, UniqueIn, Keeps
<1>4. CASE d = n
  BY <1>1, <1>2, <1>3, <1>4, SMT DEF Advances, d, p
<1>5. CASE p \in SlotsIn(m) /\ d = [models |-> d.models, node |-> node]
  <2>1. s \in SlotOf(0..K)  BY <1>1, <1>5, ChunkFacts
  <2>2. \A k : Cardinality(PinsOn(s, k)) \in Nat  BY <2>1, PinsOnFinite
  <2> HIDE DEF s
  <2>3. ASSUME NEW k \in 0..K
        PROVE  /\ node[k] \in NodeType
               /\ node[k].pins = n.node[k].pins \ PinsOn(s, k)
    <3>1. /\ DOMAIN n.node = 0..K
          /\ n.node[k].pins \in SUBSET (Nat \X Nat) /\ n.node[k].an \in 0..(SizeMod - 1)
      BY <1>1 DEF NodeType
    <3>2. node[k] = [pins |-> n.node[k].pins \ PinsOn(s, k),
                     an |-> IF Analog(s) THEN Wrap(n.node[k].an - Cardinality(PinsOn(s, k))) ELSE n.node[k].an]
      BY <3>1 DEF RemoveFromNodes
    <3>3. n.node[k].an - Cardinality(PinsOn(s, k)) \in Int  BY <2>2, <3>1, SizesAssumption, SMT
    <3>4. Wrap(n.node[k].an - Cardinality(PinsOn(s, k))) \in 0..(SizeMod - 1)  BY <3>3, WrapType
    <3>5. n.node[k].pins \ PinsOn(s, k) \in SUBSET (Nat \X Nat)  BY <3>1
    <3> QED BY <3>1, <3>2, <3>4, <3>5, NodeIntro, SMT
  <2>4. node \in [0..K -> NodeType]
    <3>1. node = [k \in 0..K |-> node[k]]  BY <1>1 DEF RemoveFromNodes
    <3> HIDE DEF node
    <3> QED BY <2>3, <3>1
  <2> HIDE DEF node
  <2>5. Typed(d) /\ Nodes(d) = 0..K /\ Size(d) = K + 1 /\ d.node = node
    BY <1>2, <1>3, <1>5, <2>4, TypedIntro, SMT
  <2>6. Members(d)
    <3> SUFFICES ASSUME NEW k \in 0..K, NEW pin \in node[k].pins PROVE Holds(d.models, pin, k)
      BY <2>5, MembersHold
    <3>1. pin \in n.node[k].pins /\ pin \notin PinsOn(s, k)  BY <2>3
    <3>2. Holds(m, pin, k)  BY <1>1, <3>1, MembersHold DEF Sound
    <3>3. PICK x \in LiveIn(m) : \E i \in DOMAIN SlotAt(m, x).nodes :
                pin = <<SlotAt(m, x).id, i>> /\ SlotAt(m, x).nodes[i] = k
      BY <3>2 DEF Holds
    <3>4. x # p  BY <3>1, <3>3 DEF PinsOn, s
    <3>5. x \in LiveIn(d.models) /\ SlotAt(d.models, x) = SlotAt(m, x)  BY <1>2, <3>4 DEF Dropped
    <3> QED BY <3>3, <3>5 DEF Holds
  <2> QED BY <1>1, <1>2, <1>3, <2>5, <2>6, SMT DEF Advances, Sound, d, p
<1> QED BY <1>2, <1>4, <1>5


\* new has the live models of m, those at the places of set P aside, at their addresses.
Shrinks(m, new, P) ==
    /\ LiveIn(new) \subseteq LiveIn(m)
    /\ LiveIn(m) \ P \subseteq LiveIn(new)
    /\ \A q \in LiveIn(new) : SlotAt(new, q).id = SlotAt(m, q).id /\ SlotAt(new, q).kind = SlotAt(m, q).kind

\* Moving the readers of a buffer to its input keeps a netlist sound.
LEMMA MoveConsumersAdvances ==
    ASSUME NEW n, Sound(n), NEW from \in Nodes(n), NEW to \in Nodes(n), from # to,
           NEW driver \in Nat \X Nat, Holds(n.models, driver, from)
    PROVE  LET r == MoveConsumers(n, from, to, driver)
           IN  Advances(n, r) /\ Nodes(r) = Nodes(n) /\ Shrinks(n.models, r.models, {})
<1> DEFINE moved == n.node[from].pins \ {driver}
           a == [pins |-> {driver}, an |-> n.node[from].an]
           b == [pins |-> n.node[to].pins \cup moved, an |-> n.node[to].an]
           node == [n.node EXCEPT ![from] = a, ![to] = b]
           r == [models |-> Repoint(n.models, moved, to), node |-> node]
<1>1. a \in NodeType /\ b \in NodeType
  <2>1. /\ n.node[from].pins \in SUBSET (Nat \X Nat) /\ n.node[from].an \in 0..(SizeMod - 1)
        /\ n.node[to].pins \in SUBSET (Nat \X Nat) /\ n.node[to].an \in 0..(SizeMod - 1)
    BY SoundFacts
  <2>2. {driver} \in SUBSET (Nat \X Nat) /\ n.node[to].pins \cup moved \in SUBSET (Nat \X Nat)  BY <2>1
  <2> HIDE DEF moved
  <2> QED BY <2>1, <2>2, NodeIntro
<1>2. MoveConsumers(n, from, to, driver) = r
  <2>1. n.node \in [Nodes(n) -> NodeType]  BY SoundFacts
  <2> QED BY <2>1 DEF MoveConsumers
<1>3. /\ node \in [Nodes(n) -> NodeType]
      /\ node[from].pins = {driver} /\ node[to].pins = n.node[to].pins \cup moved
      /\ \A j \in Nodes(n) : j # from /\ j # to => node[j] = n.node[j]
  <2>1. a.pins = {driver} /\ b.pins = n.node[to].pins \cup moved  OBVIOUS
  <2>2. n.node \in [Nodes(n) -> NodeType]  BY SoundFacts
  <2> HIDE DEF a, b
  <2> QED BY <1>1, <2>1, <2>2
<1> HIDE DEF node
<1>4. ASSUME NEW j \in Nodes(n), NEW pin \in node[j].pins
      PROVE  IF pin \in moved THEN j = to /\ \E i : Holds(n.models, pin, i) ELSE Holds(n.models, pin, j)
  <2>1. pin \in moved => Holds(n.models, pin, from)  BY SoundFacts
  <2>2. CASE j = from  BY <1>3, <2>2
  <2>3. CASE j = to
    <3>1. pin \notin moved => pin \in n.node[to].pins  BY <1>3, <2>3
    <3> QED BY <2>1, <2>3, <3>1, SoundFacts
  <2>4. CASE j # from /\ j # to
    <3>1. Holds(n.models, pin, j)  BY <1>3, <2>4, SoundFacts
    <3>2. pin \notin moved  BY <2>1, <2>4, <3>1, SoundFacts, HoldsUnique
    <3> QED BY <3>1, <3>2
  <2> QED BY <2>2, <2>3, <2>4
<1> HIDE DEF moved
<1>5. Advances(n, r) /\ Nodes(r) = Nodes(n)
  <2>1. to \in Nodes(n) \cup {Nullptr}  OBVIOUS
  <2>2. node \in [Nodes(n) -> NodeType]  BY <1>3
  <2> QED BY <1>4, <2>1, <2>2, RepointAdvances
<1>6. Shrinks(n.models, r.models, {})
  <2>1. r.models = Repoint(n.models, moved, to)  OBVIOUS
  <2> HIDE DEF r
  <2>2. n.models \in ChunksOf(SlotOf(Nodes(n)))  BY SoundFacts
  <2>3. /\ LiveIn(r.models) = LiveIn(n.models)
        /\ \A p \in LiveIn(n.models) : /\ SlotAt(r.models, p).id = SlotAt(n.models, p).id
                                       /\ SlotAt(r.models, p).kind = SlotAt(n.models, p).kind
    <3>1. to \in Nodes(n) \cup {Nullptr}  OBVIOUS
    <3> QED BY <2>1, <2>2, <3>1, RepointHolds, SMT
  <2> QED BY <2>3 DEF Shrinks
<1> QED BY <1>2, <1>5, <1>6

\* Two sound calls in a row are sound.
LEMMA AdvancesTrans ==
    ASSUME NEW n, NEW r, NEW t, Sound(n), Advances(n, r), Advances(r, t)
    PROVE  Sound(r) /\ Sound(t) /\ (Counted(n.models) => Counted(t.models)) /\ Size(n) <= Size(t)
<1>1. Size(n) \in Nat /\ Size(r) \in Nat /\ Size(t) \in Nat
  BY DEF Advances, Sound, Typed
<1> QED BY <1>1, SMT DEF Advances

\* Removing one buffer keeps a netlist sound, and removes at most that model.
LEMMA EliminateYesAdvances ==
    ASSUME NEW n, Sound(n), NEW p \in Live(n), At(n, p).kind = "YES", NEW protected
    PROVE  LET r == EliminateYes(n, p, protected)
           IN  /\ Sound(r) /\ (Counted(n.models) => Counted(r.models)) /\ Size(n) <= Size(r)
               /\ Shrinks(n.models, r.models, {p}) /\ Nodes(r) = Nodes(n)
<1> DEFINE r == EliminateYes(n, p, protected)
           s == At(n, p)
           from == s.nodes[2]
           to == s.nodes[1]
           driver == <<s.id, 2>>
           mid == MoveConsumers(n, from, to, driver)
<1>0. p \in Nat \X Nat /\ p[1] \in Nat \ {0} /\ p[2] \in Nat \ {0} /\ p = <<p[1], p[2]>> /\ DOMAIN s.nodes = 1..2
  <2>1. n.models \in ChunksOf(SlotOf(Nodes(n))) /\ p \in LiveIn(n.models) /\ s = SlotAt(n.models, p)  BY SoundFacts
  <2>2. /\ p \in SlotsIn(n.models) /\ p \in Nat \X Nat
        /\ s.kind \in DOMAIN Devices
        /\ s.nodes \in [1..Devices[s.kind].pins -> Nodes(n) \cup {Nullptr}]
    BY <2>1, LiveFacts, SMT
  <2>3. p[1] \in 1..Len(n.models) /\ p[2] \in 1..Len(n.models[p[1]].slots)  BY <2>1, <2>2, ChunkFacts
  <2>4. Devices[s.kind].pins = 2  BY <2>2, DevicesAssumption
  <2>5. DOMAIN s.nodes = 1..2  BY <2>2, <2>4
  <2> HIDE DEF s
  <2>6. p[1] \in Nat \ {0}  BY <2>3, SMT
  <2>7. p[2] \in Nat \ {0}  BY <2>3, SMT
  <2>8. p = <<p[1], p[2]>>  BY <2>2, SMT
  <2> QED BY <2>2, <2>5, <2>6, <2>7, <2>8
<1>1. CASE r = n
  <2>1. Size(n) <= Size(n)  BY SMT DEF Sound, Typed
  <2> HIDE DEF r
  <2> QED BY <1>1, <2>1 DEF Shrinks, r
<1>2. CASE r # n
  <2>1. /\ to # Nullptr /\ from # Nullptr /\ to # from
        /\ r = DeleteModelFrom(mid, p[1], p[2])
    BY <1>2 DEF EliminateYes
  <2>2. from \in Nodes(n) /\ to \in Nodes(n) /\ driver \in Nat \X Nat /\ Holds(n.models, driver, from)
    <3>1. 1 \in DOMAIN s.nodes /\ 2 \in DOMAIN s.nodes  BY <1>0, SMT
    <3>2. to \in Nodes(n) \cup {Nullptr}  BY <3>1, PinHolds
    <3>3. driver \in Nat \X Nat /\ Holds(n.models, driver, from) /\ from \in Nodes(n) \cup {Nullptr}
      BY <3>1, PinHolds
    <3> HIDE DEF to, from, driver
    <3> QED BY <2>1, <3>2, <3>3
  <2> HIDE DEF from, to, driver, r
  <2>3. Advances(n, mid) /\ Shrinks(n.models, mid.models, {}) /\ Nodes(mid) = Nodes(n)
    BY <2>1, <2>2, MoveConsumersAdvances
  <2>4. Sound(mid)  BY <2>3 DEF Advances
  <2> HIDE DEF mid
  <2>5. Advances(mid, r) /\ Dropped(mid.models, r.models, p) /\ Nodes(r) = Nodes(mid)
    BY <1>0, <2>1, <2>4, DeleteModelAdvances
  <2>6. Shrinks(n.models, r.models, {p})
    BY <2>3, <2>5 DEF Shrinks, Dropped
  <2> QED BY <2>3, <2>5, <2>6, AdvancesTrans DEF r
<1> QED BY <1>1, <1>2


\* The places of a netlist are finitely many.
LEMMA SlotsFinite ==
    ASSUME NEW T, NEW m \in ChunksOf(T)
    PROVE  /\ SlotsIn(m) \in SUBSET (Nat \X Nat) /\ IsFiniteSet(SlotsIn(m))
           /\ Cardinality(SlotsIn(m)) \in Nat
           /\ LiveIn(m) \in SUBSET SlotsIn(m) /\ IsFiniteSet(LiveIn(m))
<1> DEFINE count == [c \in 1..Len(m) |-> Len(m[c].slots)]
<1>1. count \in [1..Len(m) -> Nat] /\ Len(m) \in Nat
  <2>1. Len(m) \in Nat /\ \A c \in 1..Len(m) : Len(m[c].slots) \in 0..ChunkSize  BY ChunkFacts
  <2>2. \A x \in 0..ChunkSize : x \in Nat  BY SMT
  <2> QED BY <2>1, <2>2
<1>2. SlotsIn(m) = UNION {{c} \X (1..count[c]) : c \in 1..Len(m)}  BY DEF SlotsIn
<1> HIDE DEF count
<1>3. SlotsIn(m) \in SUBSET (Nat \X Nat) /\ IsFiniteSet(SlotsIn(m))  BY <1>1, <1>2, FinitePairs
<1>4. LiveIn(m) \in SUBSET SlotsIn(m)  BY DEF LiveIn
<1> QED BY <1>3, <1>4, FS_Subset, FS_CardinalityType

\* The buffer removal pass makes netlists g[0], ..., g[w], the i-th without buffer order[i].
Removal(n, protected, w, g, order) ==
    /\ g[0] = n /\ g[w] = EliminateYesBuffers(n, protected)
    /\ \A i \in 1..w : /\ g[i] = EliminateYes(g[i - 1], order[i], protected)
                       /\ order[i] \in Live(g[i - 1]) /\ At(g[i - 1], order[i]).kind = "YES"
    /\ \A i \in 0..w : /\ Sound(g[i]) /\ Nodes(g[i]) = Nodes(n)
                       /\ Counted(n.models) => Counted(g[i].models)
                       /\ Shrinks(n.models, g[i].models, {order[j] : j \in 1..i})

\* The buffer removal pass goes through sound netlists, one buffer after the other: those
\* that follow are still there.
LEMMA EliminateLoop ==
    ASSUME NEW n, Sound(n), NEW protected
    PROVE  \E w \in Nat : \E g, order : Removal(n, protected, w, g, order)
<1> DEFINE Y == {p \in Live(n) : At(n, p).kind = "YES"}
           order == YesModels(n)
           w == Cardinality(Y)
           T == {x \in [models : ChunksOf(SlotOf(Nodes(n))), node : [Nodes(n) -> NodeType]] : Sound(x)}
           round == [x \in T \X (1..w) |->
                        IF EliminateYes(x[1], order[x[2]], protected) \in T
                        THEN EliminateYes(x[1], order[x[2]], protected) ELSE x[1]]
<1>1. /\ w \in Nat /\ order \in [1..w -> Y]
      /\ \A i, j \in 1..w : order[i] = order[j] => i = j
      /\ Len(order) = w
  <2>1. n.models \in ChunksOf(SlotOf(Nodes(n))) /\ Live(n) = LiveIn(n.models)  BY SoundFacts
  <2>2. Y \in SUBSET (Nat \X Nat) /\ IsFiniteSet(Y)
    <3>1. LiveIn(n.models) \in SUBSET (Nat \X Nat) /\ IsFiniteSet(LiveIn(n.models))  BY <2>1, SlotsFinite
    <3>2. Y \in SUBSET LiveIn(n.models)  BY <2>1
    <3> HIDE DEF Y
    <3> QED BY <3>1, <3>2, FS_Subset
  <2>3. order = InOrder(Y)  BY DEF YesModels
  <2> HIDE DEF Y, order
  <2>4. /\ w \in Nat /\ order \in [1..w -> Y]
        /\ \A i, j \in 1..w : order[i] = order[j] => i = j
    BY <2>2, <2>3, InOrderBijective
  <2> HIDE DEF w
  <2> QED BY <2>4, SMT
<1>2. \A x \in T : Sound(x) /\ Nodes(x) = Nodes(n)  BY DEF Nodes
<1>3. ASSUME NEW x, Sound(x), Nodes(x) = Nodes(n) PROVE x \in T
  <2>1. x = [models |-> x.models, node |-> x.node]  BY <1>3 DEF Sound, Typed
  <2>2. x.models \in ChunksOf(SlotOf(Nodes(n))) /\ x.node \in [Nodes(n) -> NodeType]  BY <1>3, SoundFacts
  <2> QED BY <1>3, <2>1, <2>2
<1>4. n \in T  BY <1>3
<1>5. round \in [T \X (1..w) -> T]
  <2> HIDE DEF T, w, order
  <2> QED OBVIOUS
<1> HIDE DEF T
<1>6. PICK g \in [0..w -> T] : Rounds(g, w, n, round)
  <2> HIDE DEF w, round
  <2> QED BY <1>1, <1>4, <1>5, LoopValues
<1> HIDE DEF order, w
<1>7. /\ g[0] = n
      /\ \A i \in 1..w : g[i] = IF EliminateYes(g[i - 1], order[i], protected) \in T
                                THEN EliminateYes(g[i - 1], order[i], protected) ELSE g[i - 1]
  <2>1. g[0] = n /\ \A i \in 1..w : g[i] = round[<<g[i - 1], i>>]  BY <1>6 DEF Rounds
  <2>2. ASSUME NEW i \in 1..w
        PROVE  g[i] = IF EliminateYes(g[i - 1], order[i], protected) \in T
                      THEN EliminateYes(g[i - 1], order[i], protected) ELSE g[i - 1]
    <3>1. g[i - 1] \in T  BY <1>1, SMT
    <3>2. <<g[i - 1], i>> \in T \X (1..w)  BY <3>1
    <3> QED BY <2>1, <3>2
  <2> QED BY <2>1, <2>2
<1> HIDE DEF round
<1> DEFINE P(i) == /\ Sound(g[i]) /\ Nodes(g[i]) = Nodes(n)
                   /\ Counted(n.models) => Counted(g[i].models)
                   /\ Shrinks(n.models, g[i].models, {order[j] : j \in 1..i})
           Q(i) == /\ g[i] = EliminateYes(g[i - 1], order[i], protected)
                   /\ order[i] \in Live(g[i - 1]) /\ At(g[i - 1], order[i]).kind = "YES"
           S == {i \in Nat : i <= w => P(i) /\ (i > 0 => Q(i))}
<1>8. 0 \in S
  <2>1. Shrinks(n.models, n.models, {order[j] : j \in 1..0})  BY DEF Shrinks
  <2> QED BY <1>7, <2>1, SMT
<1>9. ASSUME NEW i \in S PROVE i + 1 \in S
  <2> SUFFICES ASSUME i + 1 <= w
               PROVE  P(i + 1) /\ Q(i + 1)
    <3> HIDE DEF P, Q
    <3> QED BY SMT
  <2> DEFINE x == g[i]
             p == order[i + 1]
             r == EliminateYes(x, p, protected)
  <2>0. i \in Nat /\ i + 1 \in 1..w /\ (i + 1) - 1 = i /\ P(i)
    <3> HIDE DEF P
    <3> QED BY <1>1, SMT
  <2>1. p \in Live(n) /\ At(n, p).kind = "YES" /\ p \notin {order[j] : j \in 1..i}
    <3>1. p \in Y  BY <1>1, <2>0
    <3>2. \A j \in 1..i : j \in 1..w /\ j # i + 1  BY <1>1, <2>0, SMT
    <3> QED BY <1>1, <2>0, <3>1, <3>2
  <2>2. Sound(x) /\ Shrinks(n.models, x.models, {order[j] : j \in 1..i})  BY <2>0
  <2> HIDE DEF x, p
  <2>3. p \in Live(x) /\ At(x, p).kind = "YES"
    <3>1. p \in LiveIn(n.models) /\ SlotAt(n.models, p).kind = "YES"  BY <2>1, SoundFacts
    <3>2. p \in LiveIn(x.models) /\ SlotAt(x.models, p).kind = "YES"  BY <2>1, <2>2, <3>1 DEF Shrinks
    <3> QED BY <2>2, <3>2, SoundFacts
  <2>4. /\ Sound(r) /\ (Counted(x.models) => Counted(r.models))
        /\ Shrinks(x.models, r.models, {p}) /\ Nodes(r) = Nodes(x)
    BY <2>2, <2>3, EliminateYesAdvances
  <2>5. r \in T  BY <1>3, <2>0, <2>4 DEF x
  <2>6. g[i + 1] = r  BY <1>7, <2>0, <2>5 DEF x, p
  <2> HIDE DEF r
  <2>7. Shrinks(n.models, r.models, {order[j] : j \in 1..(i + 1)})
    <3>1. {order[j] : j \in 1..(i + 1)} = {order[j] : j \in 1..i} \cup {p}
      <4>0. i \in Nat  BY <2>0
      <4> HIDE DEF P, Q, S
      <4>1. 1..(i + 1) = (1..i) \cup {i + 1}  BY <4>0, SMT
      <4> QED BY <4>1 DEF p
    <3> QED BY <2>2, <2>4, <3>1 DEF Shrinks
  <2>8. Q(i + 1)  BY <2>0, <2>3, <2>6 DEF r, x, p
  <2> QED BY <2>0, <2>4, <2>6, <2>7, <2>8 DEF r, x, p
<1>10. S = Nat
  <2>1. S \in SUBSET Nat  OBVIOUS
  <2> HIDE DEF S
  <2> QED BY <1>8, <1>9, <2>1, Induct
<1>11. \A i \in 0..w : P(i) /\ (i > 0 => Q(i))
  <2>0. \A i \in 0..w : i \in Nat /\ i <= w  BY <1>1, SMT
  <2>1. \A i \in 0..w : i \in S /\ i <= w
    <3> HIDE DEF S
    <3> QED BY <1>10, <2>0
  <2> HIDE DEF P
  <2> QED BY <2>1
<1> HIDE DEF S
<1> DEFINE IsLoop(f) == f = [i \in 0..w |-> IF i = 0 THEN n ELSE EliminateYes(f[i - 1], order[i], protected)]
           up == CHOOSE f : IsLoop(f)
<1>12. IsLoop(g)
  <2> HIDE DEF P
  <2> QED BY <1>7, <1>11, SMT
<1>13. IsLoop(up) /\ EliminateYesBuffers(n, protected) = up[w]
  <2>1. IsLoop(up)
    <3> HIDE DEF IsLoop
    <3> QED BY <1>12
  <2>2. Len(order) = w  BY <1>1
  <2>3. EliminateYesBuffers(n, protected) = up[w]
    BY <2>2 DEF EliminateYesBuffers, order
  <2> QED BY <2>1, <2>3
<1>14. up[w] = g[w]
  <2> HIDE DEF up, P
  <2> DEFINE E == {i \in Nat : i <= w => up[i] = g[i]}
  <2>1. up = [i \in 0..w |-> IF i = 0 THEN n ELSE EliminateYes(up[i - 1], order[i], protected)]  BY <1>13
  <2>2. 0 \in E  BY <1>1, <1>7, <2>1, SMT
  <2>3. ASSUME NEW i \in E PROVE i + 1 \in E
    <3> SUFFICES ASSUME i + 1 <= w PROVE up[i + 1] = g[i + 1]
      BY SMT
    <3>1. i + 1 \in 0..w /\ i + 1 > 0 /\ (i + 1) - 1 = i /\ i <= w  BY <1>1, SMT
    <3>2. up[i] = g[i]  BY <3>1
    <3>3. up[i + 1] = EliminateYes(up[(i + 1) - 1], order[i + 1], protected)  BY <2>1, <3>1, SMT
    <3>4. g[i + 1] = EliminateYes(g[(i + 1) - 1], order[i + 1], protected)  BY <1>11, <3>1
    <3> QED BY <3>1, <3>2, <3>3, <3>4
  <2>4. E = Nat
    <3>1. E \in SUBSET Nat  OBVIOUS
    <3> HIDE DEF E
    <3> QED BY <2>2, <2>3, <3>1, Induct
  <2>5. w \in E
    <3> HIDE DEF E
    <3> QED BY <1>1, <2>4
  <2> QED BY <1>1, <2>5, SMT
<1>15. \A i \in 1..w : Q(i)
  <2>1. \A i \in 1..w : i \in 0..w /\ i > 0  BY <1>1, SMT
  <2> HIDE DEF P, Q
  <2> QED BY <1>11, <2>1
<1>16. g[w] = EliminateYesBuffers(n, protected)
  <2> HIDE DEF up
  <2> QED BY <1>13, <1>14
<1>17. \A i \in 0..w : P(i)
  <2> HIDE DEF P, Q
  <2> QED BY <1>11
<1>18. Removal(n, protected, w, g, order)
  BY <1>7, <1>15, <1>16, <1>17 DEF Removal
<1>19. w \in Nat  BY <1>1
<1> HIDE DEF P, Q, S
<1> QED BY <1>18, <1>19

\* The buffer removal pass keeps a netlist sound.
LEMMA EliminateAdvances ==
    ASSUME NEW n, Sound(n), NEW protected
    PROVE  Advances(n, EliminateYesBuffers(n, protected))
<1> DEFINE r == EliminateYesBuffers(n, protected)
<1>1. PICK P : /\ Sound(r) /\ Nodes(r) = Nodes(n)
               /\ Counted(n.models) => Counted(r.models)
               /\ Shrinks(n.models, r.models, P)
  <2> HIDE DEF r
  <2>1. PICK w \in Nat : \E g, order : Removal(n, protected, w, g, order)
    BY EliminateLoop
  <2>2. PICK g, order : Removal(n, protected, w, g, order)  BY <2>1
  <2>3. w \in 0..w  BY SMT
  <2>4. /\ Sound(r) /\ Nodes(r) = Nodes(n)
        /\ Counted(n.models) => Counted(r.models)
        /\ Shrinks(n.models, r.models, {order[j] : j \in 1..w})
    BY <2>2, <2>3 DEF Removal, r
  <2> QED BY <2>4
<1> HIDE DEF r
<1>2. Keeps(n.models, r.models)
  BY <1>1 DEF Keeps, Shrinks
<1>3. Size(n) <= Size(r)
  <2>1. Size(r) = Size(n)  BY <1>1 DEF Size
  <2> QED BY <2>1, SMT DEF Sound, Typed
<1> QED BY <1>1, <1>2, <1>3 DEF Advances, r


\* Addresses the allocator returns are new, and differ from each other.
LEMMA FreshIdsFacts ==
    ASSUME NEW used, IsFiniteSet(used), NEW count \in Nat, Cardinality(used) + count <= 2 * MaxModels
    PROVE  /\ FreshIds(used, count) \in [1..count -> Nat \ {0}]
           /\ \A i \in 1..count : FreshIds(used, count)[i] \notin used
           /\ \A i, j \in 1..count : FreshIds(used, count)[i] = FreshIds(used, count)[j] => i = j
<1> DEFINE A == 1..(2 * MaxModels)
           F == A \ used
           Z == {0} \X F
           free == InOrder(Z)
<1>1. 2 * MaxModels \in Nat  BY SizesAssumption, SMT
<1>2. IsFiniteSet(A) /\ Cardinality(A) = 2 * MaxModels
  <2>1. 1 \in Int /\ 2 * MaxModels \in Int  BY <1>1, SMT
  <2> QED BY <1>1, <2>1, FS_Interval, SMT
<1>3. Cardinality(used) \in Nat  BY FS_CardinalityType
<1>4. IsFiniteSet(F) /\ Cardinality(F) \in Nat /\ Cardinality(F) >= count
  <2> HIDE DEF A
  <2>1. IsFiniteSet(A \cap used) /\ Cardinality(A \cap used) <= Cardinality(used)
    <3>1. A \cap used \in SUBSET used  OBVIOUS
    <3> QED BY <3>1, FS_Subset
  <2>2. IsFiniteSet(F) /\ Cardinality(F) = Cardinality(A) - Cardinality(A \cap used)
    BY <1>2, FS_Difference
  <2>3. Cardinality(A \cap used) \in Nat /\ Cardinality(F) \in Nat  BY <2>1, <2>2, FS_CardinalityType
  <2> HIDE DEF F
  <2> QED BY <1>1, <1>2, <1>3, <2>1, <2>2, <2>3, SMT
<1>5. Z \in SUBSET (Nat \X Nat) /\ IsFiniteSet(Z) /\ Cardinality(Z) = Cardinality(F)
  <2>1. F \in SUBSET Nat  BY SMT
  <2> HIDE DEF F
  <2>2. IsFiniteSet({0}) /\ Cardinality({0}) = 1  BY FS_Singleton
  <2>3. IsFiniteSet(Z) /\ Cardinality(Z) = Cardinality({0}) * Cardinality(F)  BY <1>4, <2>2, FS_Product
  <2>4. Z \in SUBSET (Nat \X Nat)
    <3>0. F \subseteq Nat /\ {0} \subseteq Nat  BY <2>1, SMT
    <3>1. \A x \in Z : x \in Nat \X Nat
      <4> SUFFICES ASSUME NEW a \in {0}, NEW b \in F PROVE <<a, b>> \in Nat \X Nat
        OBVIOUS
      <4> QED BY <3>0
    <3> HIDE DEF Z
    <3> QED BY <3>1
  <2> HIDE DEF Z
  <2>5. \A x \in Nat : 1 * x = x  BY SMT
  <2>6. Cardinality(Z) = 1 * Cardinality(F)  BY <2>2, <2>3
  <2>7. Cardinality(Z) = Cardinality(F)  BY <1>4, <2>5, <2>6
  <2> QED BY <2>3, <2>4, <2>7
<1>6. \A x \in Z : x[1] = 0 /\ x[2] \in Nat \ {0} /\ x[2] \notin used /\ x = <<0, x[2]>>
  BY SMT
<1> HIDE DEF Z, F
<1>7. /\ free \in [1..Cardinality(Z) -> Z]
      /\ \A i, j \in 1..Cardinality(Z) : free[i] = free[j] => i = j
  BY <1>5, InOrderBijective
<1>8. FreshIds(used, count) = [i \in 1..count |-> free[i][2]]
  BY DEF FreshIds, Z, F
<1> HIDE DEF free
<1>9. \A i \in 1..count : i \in 1..Cardinality(Z) /\ free[i] \in Z  BY <1>4, <1>5, <1>7, SMT
<1>10. FreshIds(used, count) \in [1..count -> Nat \ {0}]  BY <1>6, <1>8, <1>9
<1>11. \A i \in 1..count : FreshIds(used, count)[i] \notin used  BY <1>6, <1>8, <1>9
<1>12. ASSUME NEW i \in 1..count, NEW j \in 1..count, FreshIds(used, count)[i] = FreshIds(used, count)[j]
       PROVE  i = j
  <2>1. free[i][2] = free[j][2]  BY <1>8, <1>12
  <2>2. free[i] = free[j]  BY <1>6, <1>9, <2>1
  <2> QED BY <1>7, <1>9, <2>2
<1> QED BY <1>10, <1>11, <1>12

\* The addresses in use are those of the live models.
LEMMA UsedFacts ==
    ASSUME NEW n, Sound(n)
    PROVE  /\ Used(n) = {SlotAt(n.models, p).id : p \in LiveIn(n.models)}
           /\ IsFiniteSet(Used(n)) /\ Cardinality(Used(n)) \in Nat
           /\ Cardinality(Slots(n)) \in Nat /\ Cardinality(Used(n)) <= Cardinality(Slots(n))
<1> DEFINE L == LiveIn(n.models)
           f == [p \in L |-> SlotAt(n.models, p).id]
           U == {SlotAt(n.models, p).id : p \in L}
<1>1. /\ Live(n) = L /\ \A p : At(n, p) = SlotAt(n.models, p)
      /\ n.models \in ChunksOf(SlotOf(Nodes(n)))
      /\ \A k \in Nodes(n) : \A pin \in n.node[k].pins : Holds(n.models, pin, k)
  BY SoundFacts
<1>2. \A k \in Nodes(n) : \A pin \in n.node[k].pins : pin[1] \in U
  BY <1>1, SMTT(30) DEF Holds
<1>3. Used(n) = U
  BY <1>1, <1>2, SMT DEF Used
<1>4. /\ IsFiniteSet(SlotsIn(n.models)) /\ Cardinality(SlotsIn(n.models)) \in Nat
      /\ L \in SUBSET SlotsIn(n.models) /\ IsFiniteSet(L)
  BY <1>1, SlotsFinite
<1>5. f \in Surjection(L, U)  BY DEF Surjection
<1> HIDE DEF L, U, f
<1>6. IsFiniteSet(U) /\ Cardinality(U) <= Cardinality(L)  BY <1>4, <1>5, FS_Surjection
<1>7. Cardinality(L) <= Cardinality(SlotsIn(n.models))  BY <1>4, FS_Subset
<1>8. Cardinality(U) \in Nat /\ Cardinality(L) \in Nat  BY <1>4, <1>6, FS_CardinalityType
<1>9. Slots(n) = SlotsIn(n.models)  BY DEF Slots
<1>10. Cardinality(U) <= Cardinality(SlotsIn(n.models))  BY <1>4, <1>6, <1>7, <1>8, SMT
<1>11. /\ Used(n) = U /\ IsFiniteSet(Used(n)) /\ Cardinality(Used(n)) \in Nat
       /\ Cardinality(Slots(n)) \in Nat /\ Cardinality(Used(n)) <= Cardinality(Slots(n))
  BY <1>3, <1>4, <1>6, <1>8, <1>9, <1>10
<1> QED BY <1>11 DEF L, U

=============================================================================
