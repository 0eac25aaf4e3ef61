------------------------------ MODULE Netlist ------------------------------
(***************************************************************************)
(* The netlist: models in chunked slots, nodes, and the pin pointers that  *)
(* tie them together in both directions (pin.nodes and node.pins), with    *)
(* the operations of netlist/operation.h, the copies of netlist/netlist.h, *)
(* and what the synthesizer does to a netlist in place: the buffer removal *)
(* pass, and the rollback to a snapshot.                                   *)
(*                                                                         *)
(* A netlist is a value.  Its nodes are numbered in the order of creation, *)
(* node 0 is ground_node.  A model object is identified by the address of  *)
(* its allocation, `id'; its pins are the pairs <<id, 1>>, <<id, 2>>, ...  *)
(***************************************************************************)
EXTENDS Order, Sequences, Functions, TLC

CONSTANTS
    Devices,     \* kind |-> [analog: BOOLEAN, pins: Nat, outputs: SUBSET Nat]
    ChunkSize,   \* chunk_module_size of the model blocks
    SizeMod,     \* 2^w of std::size_t
    Start,       \* netlists to start from, as the callers build them
    MaxModels,   \* bound: slots in use
    MaxNodes,    \* bound: nodes created
    MaxCalls     \* bound: calls made

ASSUME SizesAssumption ==
    /\ ChunkSize \in Nat \ {0} /\ SizeMod \in Nat /\ ChunkSize < SizeMod
    /\ MaxModels \in Nat /\ MaxNodes \in Nat /\ MaxCalls \in Nat

ASSUME DevicesAssumption ==
    /\ \A k \in DOMAIN Devices : Devices[k].pins \in Nat /\ Devices[k].analog \in BOOLEAN
    /\ "YES" \in DOMAIN Devices => Devices["YES"].pins = 2 /\ Devices["YES"].outputs = {2}

VARIABLES
    nl,       \* the circuit's netlist
    snap,     \* a copy of it, kept by the synthesizer
    saved,    \* ghost: the connections nl had when snap was copied
    op,       \* the last call
    calls,    \* number of calls made
    crashed   \* the last call dereferenced end() or nullptr

vars == <<nl, snap, saved, op, calls, crashed>>

-----------------------------------------------------------------------------
(* Slots, models and pins.                                                 *)

Nullptr == -1
Ground == 0

NullSlot == [type |-> "null", kind |-> "none", id |-> 0, nodes |-> <<>>]
NewModel(k, id) == [type |-> "normal", kind |-> k, id |-> id,
                    nodes |-> [i \in 1..Devices[k].pins |-> Nullptr]]
Analog(s) == s.type = "normal" /\ Devices[s.kind].analog

EmptyNode == [pins |-> {}, an |-> 0]
EmptyNetlist == [models |-> <<>>, node |-> (Ground :> EmptyNode)]

Nodes(n) == DOMAIN n.node
SlotsIn(models) == UNION {{c} \X (1..Len(models[c].slots)) : c \in 1..Len(models)}
SlotAt(models, p) == models[p[1]].slots[p[2]]
Slots(n) == SlotsIn(n.models)
At(n, p) == SlotAt(n.models, p)
Live(n) == {p \in Slots(n) : At(n, p).type = "normal"}

(* The slots at the positions of set P, in order.                          *)
Listing(n, P) == LET order == InOrder(P) IN [i \in DOMAIN order |-> At(n, order[i])]
AllSlots(n) == Listing(n, Slots(n))

(* The pins of model s that point to node k.                               *)
PinsOn(s, k) == {<<s.id, i>> : i \in {j \in DOMAIN s.nodes : s.nodes[j] = k}}
PinsOfSlots(S, k) == UNION {PinsOn(s, k) : s \in S}
(* The pins of all live models of n that point to node k, and of those     *)
(* that are not digital.                                                   *)
PinsTo(n, k) == PinsOfSlots({At(n, p) : p \in Live(n)}, k)
AnalogPinsTo(n, k) == PinsOfSlots({s \in {At(n, p) : p \in Live(n)} : Analog(s)}, k)
Owner(n, pin) == CHOOSE p \in Live(n) : At(n, p).id = pin[1]
NodeOf(n, pin) == At(n, Owner(n, pin)).nodes[pin[2]]
LivePins(n) == UNION {{<<At(n, p).id, i>> : i \in DOMAIN At(n, p).nodes} : p \in Live(n)}

Wrap(x) == x % SizeMod

(* The allocator may return any free address; the smallest one stands for  *)
(* them all, since no code compares the addresses of models.               *)
Used(n) == {At(n, p).id : p \in Live(n)} \cup {pin[1] : pin \in UNION {n.node[k].pins : k \in Nodes(n)}}
FreshIds(used, count) ==
    LET free == InOrder({0} \X ((1..(2 * MaxModels)) \ used)) IN [i \in 1..count |-> free[i][2]]

-----------------------------------------------------------------------------
(* Operations, as functions from netlists to netlists.                     *)

SetChunk(models, c, slots, nulls) ==
    [j \in 1..Len(models) |-> IF j = c THEN [slots |-> slots, nulls |-> nulls] ELSE models[j]]

(* Appending to the last chunk, or to a new one when it is full.           *)
Emplace(models, s) ==
    LET last == models[Len(models)]
    IN  IF models = <<>> \/ Len(last.slots) = ChunkSize
        THEN Append(models, [slots |-> <<s>>, nulls |-> 0])
        ELSE SetChunk(models, Len(models), Append(last.slots, s), last.nulls)

AddModelTo(n, k, id) == [models |-> Emplace(n.models, NewModel(k, id)), node |-> n.node]

Size(n) == Cardinality(Nodes(n))

CreateNodeIn(n) ==
    [models |-> n.models,
     node |-> [k \in 0..Size(n) |-> IF k \in Nodes(n) THEN n.node[k] ELSE EmptyNode]]

(* Leaving the destroyed model's pins in the nodes' pin sets.              *)
RemoveCountsOnly(node, s) ==
    [k \in DOMAIN node |->
        [node[k] EXCEPT !.an = IF Analog(s) THEN Wrap(@ - Cardinality(PinsOn(s, k))) ELSE @]]

(* model_base::remove_from_node(): every pin of s leaves its node.         *)
RemoveFromNodes(node, s) ==
    [k \in DOMAIN node |->
        [pins |-> node[k].pins \ PinsOn(s, k),
         an |-> IF Analog(s) THEN Wrap(node[k].an - Cardinality(PinsOn(s, k))) ELSE node[k].an]]

(* Erasing the slot instead of leaving a null model in it.                 *)
DeleteModelShifting(n, c, v) ==
    LET slots == n.models[c].slots
    IN  IF c > Len(n.models) \/ v > Len(slots) THEN n
        ELSE [n EXCEPT !.node = RemoveFromNodes(@, slots[v]),
                       !.models[c].slots = SubSeq(slots, 1, v - 1) \o SubSeq(slots, v + 1, Len(slots))]

(* delete_model(): the last slot of a chunk is erased, another one is left *)
(* holding a null model.                                                   *)
DeleteModelFrom(n, c, v) ==
    LET slots == n.models[c].slots
        nulls == n.models[c].nulls
        null == slots[v].type = "null"
    IN  IF c > Len(n.models) THEN n
        ELSE IF v > Len(slots) THEN n
        ELSE IF v = Len(slots)
        THEN [models |-> SetChunk(n.models, c, SubSeq(slots, 1, v - 1), IF null THEN Wrap(nulls - 1) ELSE nulls),
              node |-> RemoveFromNodes(n.node, slots[v])]
        ELSE IF null THEN n
        ELSE [models |-> SetChunk(n.models, c, [i \in 1..Len(slots) |-> IF i = v THEN NullSlot ELSE slots[i]],
                                  Wrap(nulls + 1)),
              node |-> RemoveFromNodes(n.node, slots[v])]

(* pin.nodes = k for every pin of the set.                                 *)
Point(s, pins, k) ==
    IF s.type = "null" THEN s
    ELSE [s EXCEPT !.nodes = [i \in DOMAIN s.nodes |-> IF <<s.id, i>> \in pins THEN k ELSE s.nodes[i]]]
Repoint(models, pins, k) ==
    [c \in DOMAIN models |->
        [slots |-> [v \in DOMAIN models[c].slots |-> Point(models[c].slots[v], pins, k)],
         nulls |-> models[c].nulls]]

AddToNodeIn(n, p, i, k) ==
    LET s == At(n, p)
    IN  [models |-> Repoint(n.models, {<<s.id, i>>}, k),
         node |-> [n.node EXCEPT ![k] = [pins |-> @.pins \cup {<<s.id, i>>},
                                         an |-> IF Analog(s) THEN Wrap(@.an + 1) ELSE @.an]]]

RemoveFromNodeIn(n, p, i, k) ==
    LET s == At(n, p)
    IN  [models |-> Repoint(n.models, {<<s.id, i>>}, Nullptr),
         node |-> [n.node EXCEPT ![k] = [pins |-> @.pins \ {<<s.id, i>>},
                                         an |-> IF Analog(s) THEN Wrap(@.an - 1) ELSE @.an]]]

(* Without setting pin.nodes to nullptr.                                   *)
DeleteNodeForgetting(n, k) == [n EXCEPT !.node[k] = EmptyNode]

DeleteNodeIn(n, k) ==
    [models |-> Repoint(n.models, n.node[k].pins, Nullptr), node |-> [n.node EXCEPT ![k] = EmptyNode]]

(* The pins of `other' go to k, its count does not.                        *)
MergeNodeIn(n, k, other) ==
    [models |-> Repoint(n.models, n.node[other].pins, k),
     node |-> [j \in Nodes(n) |->
                  IF j = other THEN EmptyNode
                  ELSE IF j = k THEN [pins |-> n.node[k].pins \cup n.node[other].pins, an |-> n.node[k].an]
                  ELSE n.node[j]]]

(* Copies of models get fresh addresses; their pins keep pointing where    *)
(* the originals do (copy_with_node_ptr), by ordinal of the node.          *)
CopyWithNodePtr(slots, ids) ==
    [i \in 1..Len(slots) |->
        IF slots[i].type = "normal" THEN [slots[i] EXCEPT !.id = ids[i]] ELSE slots[i]]

EmplaceAll(models, slots) ==
    LET upto[i \in 0..Len(slots)] == IF i = 0 THEN models ELSE Emplace(upto[i - 1], slots[i])
    IN  upto[Len(slots)]

(* Leaving the pins that point to ground unconnected.                      *)
CopyNetlistWithoutGround(other) ==
    LET cut(s) == [s EXCEPT !.nodes = [i \in DOMAIN @ |-> IF @[i] = Ground THEN Nullptr ELSE @[i]]]
        all == AllSlots(other)
        slots == CopyWithNodePtr([i \in 1..Len(all) |-> cut(all[i])], [i \in 1..Len(all) |-> i])
    IN  [models |-> EmplaceAll(<<>>, slots),
         node |-> [k \in Nodes(other) |-> [pins |-> PinsOfSlots(Range(slots), k), an |-> 0]]]

(* netlist(netlist const&): nodes are copied disconnected and with no      *)
(* analog count, null models are copied but not counted as null.           *)
CopyNetlist(other) ==
    LET slots == CopyWithNodePtr(AllSlots(other), [i \in 1..Len(AllSlots(other)) |-> i])
    IN  [models |-> EmplaceAll(<<>>, slots),
         node |-> [k \in Nodes(other) |-> [pins |-> PinsOfSlots(Range(slots), k), an |-> 0]]]

(* netlist::operator=: what the target held is released first.             *)
AssignNetlist(target, other) == CopyNetlist(other)

(* add_netlist() looks every connected pin up in a map of other's nodes    *)
(* that lacks ground, and dereferences the model of every slot.            *)
AddNetlistCrashes(other) ==
    \E p \in Slots(other) : \/ At(other, p).type = "null"
                            \/ \E i \in DOMAIN At(other, p).nodes : At(other, p).nodes[i] = Ground

AddNetlistTo(n, other) ==
    LET base == Size(n) - 1
        moved(s) == [s EXCEPT !.nodes = [i \in DOMAIN s.nodes |->
                                            IF s.nodes[i] = Nullptr THEN Nullptr ELSE base + s.nodes[i]]]
        all == AllSlots(other)
        slots == CopyWithNodePtr([i \in 1..Len(all) |-> moved(all[i])], FreshIds(Used(n), Len(all)))
    IN  [models |-> EmplaceAll(n.models, slots),
         node |-> [k \in 0..(base + Size(other) - 1) |->
                      IF k \in Nodes(n) THEN n.node[k]
                      ELSE [pins |-> PinsOfSlots(Range(slots), k), an |-> 0]]]

(* restore_from_snapshot(): nodes stay in place.  Their pins and counts    *)
(* are cleared first; the models destroyed next still decrement the count  *)
(* of the nodes their pins point to.                                       *)
ClearedNodes(dst) ==
    [k \in Nodes(dst) |-> [pins |-> {}, an |-> Wrap(-Cardinality(AnalogPinsTo(dst, k)))]]

AttachAll(node, S) ==
    [k \in DOMAIN node |->
        [pins |-> node[k].pins \cup PinsOfSlots(S, k),
         an |-> Wrap(node[k].an + Cardinality(PinsOfSlots({s \in S : Analog(s)}, k)))]]

RestoreFromSnapshot(dst, src) ==
    LET live == Listing(src, Live(src))
        slots == CopyWithNodePtr(live, [i \in 1..Len(live) |-> i])
    IN  IF Size(dst) < Size(src)
        THEN [models |-> <<>>, node |-> ClearedNodes(dst)]
        ELSE [models |-> EmplaceAll(<<>>, slots), node |-> AttachAll(ClearedNodes(dst), Range(slots))]

-----------------------------------------------------------------------------
(* optimize_eliminate_yes_buffers().                                       *)

IsOutputPin(n, pin) == pin[2] \in Devices[At(n, Owner(n, pin)).kind].outputs
Drivers(n, k) == {pin \in n.node[k].pins : IsOutputPin(n, pin)}

(* All pins of node `from' but its driver move to node `to'; the analog    *)
(* counts stay behind.                                                     *)
MoveConsumers(n, from, to, driver) ==
    LET moved == n.node[from].pins \ {driver}
    IN  [models |-> Repoint(n.models, moved, to),
         node |-> [n.node EXCEPT ![from] = [pins |-> {driver}, an |-> @.an],
                                 ![to] = [pins |-> @.pins \cup moved, an |-> @.an]]]

(* Without asking whether the buffer is the only driver of its output.     *)
EliminateSharedYes(n, p, protected) ==
    LET s == At(n, p)
    IN  IF /\ s.nodes[1] # Nullptr /\ s.nodes[2] # Nullptr
           /\ s.nodes[1] # s.nodes[2]
           /\ s.nodes[2] \notin protected
        THEN DeleteModelFrom(MoveConsumers(n, s.nodes[2], s.nodes[1], <<s.id, 2>>), p[1], p[2])
        ELSE n

EliminateYes(n, p, protected) ==
    LET s == At(n, p)
        driver == <<s.id, 2>>
    IN  IF /\ s.nodes[1] # Nullptr /\ s.nodes[2] # Nullptr
           /\ s.nodes[1] # s.nodes[2]
           /\ s.nodes[2] \notin protected
           /\ Drivers(n, s.nodes[2]) = {driver}
        THEN DeleteModelFrom(MoveConsumers(n, s.nodes[2], s.nodes[1], driver), p[1], p[2])
        ELSE n

YesModels(n) == InOrder({p \in Live(n) : At(n, p).kind = "YES"})

EliminateYesBuffers(n, protected) ==
    LET order == YesModels(n)
        upto[i \in 0..Len(order)] ==
            IF i = 0 THEN n ELSE EliminateYes(upto[i - 1], order[i], protected)
    IN  upto[Len(order)]

-----------------------------------------------------------------------------
(* The connections of a netlist, independent of addresses and of slots     *)
(* that hold no model: for each model in order, its kind and pin nodes.    *)
Connections(n) ==
    LET live == Listing(n, Live(n)) IN [i \in 1..Len(live) |-> <<live[i].kind, live[i].nodes>>]

Init ==
    /\ nl \in Start
    /\ snap = CopyNetlist(nl)
    /\ saved = Connections(nl)
    /\ op = "none"
    /\ calls = 0
    /\ crashed = FALSE

Call(name) ==
    /\ ~crashed
    /\ calls < MaxCalls
    /\ calls' = calls + 1
    /\ op' = name

OnNl(name, n) ==
    /\ Call(name)
    /\ nl' = n
    /\ UNCHANGED <<snap, saved, crashed>>

AddModel(k) ==
    /\ Cardinality(Slots(nl)) < MaxModels
    /\ OnNl("add_model", AddModelTo(nl, k, FreshIds(Used(nl), 1)[1]))

DeleteModel(c, v) == OnNl("delete_model", DeleteModelFrom(nl, c, v))

CreateNode ==
    /\ Size(nl) <= MaxNodes
    /\ OnNl("create_node", CreateNodeIn(nl))

(* Callers connect the pins of a live model that have no node yet.         *)
AddToNode(p, i, k) ==
    /\ At(nl, p).nodes[i] = Nullptr
    /\ OnNl("add_to_node", AddToNodeIn(nl, p, i, k))

(* Callers name the node that the pin is on.                               *)
RemoveFromNode(p, i) ==
    /\ At(nl, p).nodes[i] # Nullptr
    /\ OnNl("remove_from_node", RemoveFromNodeIn(nl, p, i, At(nl, p).nodes[i]))

DeleteNode(k) == OnNl("delete_node", DeleteNodeIn(nl, k))

MergeNode(k, other) == OnNl("merge_node", MergeNodeIn(nl, k, other))

Eliminate(protected) == OnNl("eliminate_yes", EliminateYesBuffers(nl, protected))

Snapshot ==
    /\ Call("snapshot")
    /\ snap' = AssignNetlist(snap, nl)
    /\ saved' = Connections(nl)
    /\ UNCHANGED <<nl, crashed>>

Restore == OnNl("restore", RestoreFromSnapshot(nl, snap))

AddNetlist ==
    /\ Cardinality(Slots(nl)) + Cardinality(Slots(snap)) <= MaxModels
    /\ Size(nl) + Size(snap) <= MaxNodes + 2
    /\ Call("add_netlist")
    /\ crashed' = AddNetlistCrashes(snap)
    /\ nl' = IF crashed' THEN nl ELSE AddNetlistTo(nl, snap)
    /\ UNCHANGED <<snap, saved>>

Next ==
    \/ \E k \in DOMAIN Devices : AddModel(k)
    \/ \E c \in 1..(Len(nl.models) + 1), v \in 1..(ChunkSize + 1) : DeleteModel(c, v)
    \/ CreateNode
    \/ \E p \in Live(nl) : \E i \in DOMAIN At(nl, p).nodes :
            \/ \E k \in Nodes(nl) : AddToNode(p, i, k)
            \/ RemoveFromNode(p, i)
    \/ \E k \in Nodes(nl) : DeleteNode(k)
    \/ \E k, other \in Nodes(nl) : MergeNode(k, other)
    \/ \E protected \in {{}} \cup {{k} : k \in Nodes(nl)} : Eliminate(protected)
    \/ Snapshot
    \/ Restore
    \/ AddNetlist

Spec == Init /\ [][Next]_vars

-----------------------------------------------------------------------------
(* Properties.                                                             *)

(* A model whose pins point to nodes of set N or nowhere.                  *)
ModelOf(N) ==
    {s \in [type : {"normal"}, kind : DOMAIN Devices, id : Nat \ {0}, nodes : Seq(N \cup {Nullptr})] :
        Len(s.nodes) = Devices[s.kind].pins}
SlotOf(N) == {NullSlot} \cup ModelOf(N)
(* Chunks of slots of set T, none holding more than ChunkSize.             *)
ChunksOf(T) ==
    {m \in Seq([slots : Seq(T), nulls : 0..(SizeMod - 1)]) :
        \A c \in 1..Len(m) : Len(m[c].slots) <= ChunkSize}
NodeType == [pins : SUBSET (Nat \X Nat), an : 0..(SizeMod - 1)]

(* n is a netlist: ground and the nodes created, models that point to      *)
(* nodes of n or nowhere, each at an address of its own.                   *)
Typed(n) ==
    /\ n = [models |-> n.models, node |-> n.node]
    /\ Size(n) \in Nat \ {0} /\ Nodes(n) = 0..(Size(n) - 1)
    /\ n.node \in [Nodes(n) -> NodeType]
    /\ n.models \in ChunksOf(SlotOf(Nodes(n)))
    /\ \A p, q \in Live(n) : At(n, p).id = At(n, q).id => p = q

(* Every pin that a node lists is a pin of a live model pointing back to   *)
(* that node.                                                              *)
Members(n) == \A k \in Nodes(n) : n.node[k].pins \subseteq PinsTo(n, k)

(* num_of_null_model of every chunk is the number of its null models.      *)
Counted(models) ==
    \A c \in 1..Len(models) :
        models[c].nulls =
            Cardinality({v \in 1..Len(models[c].slots) : models[c].slots[v].type = "null"})

ASSUME StartAssumption == \A n \in Start : Typed(n) /\ Members(n) /\ Counted(n.models)

TypeOK == Typed(nl) /\ Typed(snap) /\ calls \in 0..MaxCalls /\ crashed \in BOOLEAN

(* No node ever lists a pin that is not a pin of a live model pointing     *)
(* back to it: ~node_t(), delete_node() and digital_clk() write through    *)
(* every pin a node lists.                                                 *)
MembersLive == Members(nl) /\ Members(snap)

(* get_num_of_model() agrees with get_num_of_model<true>().                *)
NullsCounted == Counted(nl.models)

(* The container's own bookkeeping is right after every call: types, the   *)
(* pins a node lists, and the count of null models.                        *)
WellFormed == TypeOK /\ MembersLive /\ NullsCounted

(* A model keeps its model_pos until it is deleted, whatever is added or   *)
(* deleted around it (restore_from_snapshot() rebuilds all models): the    *)
(* C interface hands these positions out.                                  *)
PositionsStable ==
    [][op' # "restore" =>
        \A p \in Live(nl), q \in Live(nl') : At(nl, p).id = At(nl', q).id => p = q]_vars

(* Every node lists exactly the pins that point to it.                     *)
Listed(n) == \A k \in Nodes(n) : n.node[k].pins = PinsTo(n, k)

(* Node k lists exactly the pins that point to it, and num_of_analog_node  *)
(* counts the analog ones.                                                 *)
Exact(n, k) ==
    /\ n.node[k].pins = PinsTo(n, k)
    /\ n.node[k].an = Wrap(Cardinality(AnalogPinsTo(n, k)))

(* Every call but merge_node(), the buffer removal and the rollback leaves *)
(* a node exact that was exact, so prepare() keeps telling digital, hybrid *)
(* and analog nodes apart by num_of_analog_node.                           *)
CountsKept ==
    [][op' \notin {"merge_node", "eliminate_yes", "restore"} =>
        \A k \in Nodes(nl) : Exact(nl, k) => Exact(nl', k)]_vars

(* Rolling back brings back the models and connections the netlist had     *)
(* when the snapshot was copied, whatever was deleted, merged, moved or    *)
(* created since, and nodes list exactly the pins that point to them.      *)
RolledBack ==
    op = "restore" =>
        /\ Connections(nl) = saved
        /\ Listed(nl)

(* The node at the far end of the chain of buffers that drives node k.     *)
BehindYes(n, k) ==
    LET yes == {p \in Live(n) : /\ At(n, p).kind = "YES"
                                /\ At(n, p).nodes[2] = k /\ At(n, p).nodes[1] # Nullptr
                                /\ Drivers(n, k) = {<<At(n, p).id, 2>>}}
    IN  IF yes = {} THEN k ELSE At(n, CHOOSE p \in yes : TRUE).nodes[1]
Source(n, k) ==
    LET back[i \in 0..MaxModels] == IF i = 0 THEN k ELSE BehindYes(n, back[i - 1])
    IN  back[MaxModels]

(* Removing buffers leaves every pin of every surviving model with the     *)
(* source it had (rings of buffers aside, which have none), as long as     *)
(* nodes list the pins that point to them.                                 *)
SourceKept ==
    [][op' = "eliminate_yes" /\ Listed(nl) =>
        \A k \in Nodes(nl) : \A pin \in nl.node[k].pins :
            (pin \in LivePins(nl') /\ BehindYes(nl, Source(nl, k)) = Source(nl, k)) =>
                Source(nl', NodeOf(nl', pin)) = Source(nl, k)]_vars
=============================================================================
