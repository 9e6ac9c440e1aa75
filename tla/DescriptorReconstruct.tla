------------------------ MODULE DescriptorReconstruct ------------------------
(***************************************************************************)
(* hid_winapi_descriptor_reconstruct_pp_data                               *)
(* (windows/hidapi_descriptor_reconstruct.c): a report descriptor rebuilt  *)
(* from the preparsed data, which is all that Windows hands out.           *)
(*                                                                         *)
(* First a device declares its descriptor item by item, and Windows files  *)
(* it as preparsed data: a tree of link collections and, for each type of  *)
(* report, capabilities with their bit positions (external; what the files *)
(* of windows/test/data show).  Then the function runs, one action for one *)
(* turn of each of its loops.  What it writes is decoded again, and has to *)
(* declare the fields that the device declared.                            *)
(*                                                                         *)
(* Usage pages, limits and units are left out, every field is variable and *)
(* has no aliases (no Delimiter items), and the buffer is large enough.    *)
(***************************************************************************)
EXTENDS Integers, Sequences, SequencesExt, FiniteSets

CONSTANTS
    Devices,          \* devices: [types, ids], the types and IDs of report each has
    FieldKinds,       \* what one main item may declare: [button, range, size, usages]
    Paddings,         \* numbers of constant bits it may declare
    MaxCollections,   \* bound: collections, with the top-level one
    MaxItems          \* bound: main items, constant ones included

TypeOrder == <<"input", "output", "feature">>
Nowhere == -1

VARIABLES
    device,     \* the device: {0} are the IDs of one that does not use them
    phase,      \* what runs: "declare", then the phases of the function, then "done"
    nodes,      \* link_collection_nodes, numbered from 0
    caps,       \* caps of each type
    bits,       \* next free bit of each report, as the device declares it
    fields,     \* the fields declared: what the reconstruction is checked against
    items,      \* main items declared so far
    idx,        \* collection_node_idx (in phase "declare": the open collection)
    level,      \* actual_coll_level
    levels,     \* coll_levels
    children,   \* coll_number_of_direct_childs
    range,      \* coll_bit_range
    unmerged,   \* collections the loop over levels has still to visit
    order,      \* coll_child_order
    written,    \* coll_last_written_child
    list,       \* main_item_list
    cursor,     \* position in the caps of a type, or in list
    last_bit,   \* last_bit_position
    last_item,  \* last_report_item_lookup
    top_end,    \* node_before_top_level_coll_end
    out,        \* the items written so far
    last_id,    \* last_report_id
    merged,     \* report_count
    refused     \* rd_write_short_item has returned -1

sourceVars == <<device, nodes, caps, bits, fields, items>>
treeVars == <<levels, children, range, unmerged, order, written>>
padVars == <<last_bit, last_item, top_end>>
outVars == <<out, last_id, merged, refused>>
vars == <<phase, sourceVars, idx, level, treeVars, list, cursor, padVars, outVars>>

Types == device.types
ReportIDs == device.ids
AllIDs == {0} \cup ReportIDs
Collections == DOMAIN nodes
HasTypes == SelectSeq(TypeOrder, LAMBDA t : t \in Types)

NoNode == [kind |-> "none", coll |-> Nowhere, id |-> 0, first |-> 0, last |-> 0, cap |-> 0]

Init ==
    /\ device \in Devices
    /\ phase = "declare"
    /\ nodes = [c \in {0} |-> [Parent |-> 0, NumberOfChildren |-> 0, NextSibling |-> 0, FirstChild |-> 0]]
    /\ caps = [t \in Types |-> <<>>]
    /\ bits = [t \in Types |-> [r \in ReportIDs |-> 0]]
    /\ fields = {} /\ items = 0
    /\ idx = 0 /\ level = 0
    /\ levels = <<>> /\ children = <<>> /\ range = <<>> /\ unmerged = {} /\ order = <<>> /\ written = <<>>
    /\ list = <<>> /\ cursor = 0
    /\ last_bit = [t \in Types |-> [r \in AllIDs |-> -1]]
    /\ last_item = [t \in Types |-> [r \in AllIDs |-> NoNode]]
    /\ top_end = NoNode
    /\ out = <<>> /\ last_id = 0 /\ merged = 0 /\ refused = FALSE

(***************************************************************************)
(* The device's descriptor, and Windows's account of it.  The children of  *)
(* a collection are linked from the last to the first, and so are the      *)
(* capabilities of one main item with several usages.                      *)
(***************************************************************************)
OpenCollection ==
    /\ phase = "declare" /\ Cardinality(Collections) < MaxCollections
    /\ LET new == Cardinality(Collections) IN
       /\ nodes' = [c \in Collections \cup {new} |->
              IF c = new THEN [Parent |-> idx, NumberOfChildren |-> 0,
                               NextSibling |-> nodes[idx].FirstChild, FirstChild |-> 0]
              ELSE IF c = idx THEN [nodes[c] EXCEPT !.FirstChild = new, !.NumberOfChildren = @ + 1]
              ELSE nodes[c]]
       /\ idx' = new
    /\ UNCHANGED <<phase, device, caps, bits, fields, items, level, treeVars, list, cursor, padVars, outVars>>

CloseCollection ==
    /\ phase = "declare" /\ idx # 0
    /\ idx' = nodes[idx].Parent
    /\ UNCHANGED <<phase, sourceVars, level, treeVars, list, cursor, padVars, outVars>>

(* The capabilities Windows makes of one main item of kind k. *)
CapsOf(t, r, k) ==
    LET cap(i, n) == [coll |-> idx, id |-> r, first |-> bits[t][r] + (i - 1) * k.size, size |-> k.size,
                      count |-> n, button |-> k.button, range |-> k.range, usage |-> <<items, i>>]
    IN IF k.range THEN <<cap(1, k.usages)>>
       ELSE [i \in 1..k.usages |-> cap(k.usages + 1 - i, 1)]

DeclareField(t, r, k) ==
    /\ phase = "declare" /\ items < MaxItems
    /\ caps' = [caps EXCEPT ![t] = @ \o CapsOf(t, r, k)]
    /\ fields' = fields \cup {[type |-> t, id |-> r, coll |-> idx, size |-> k.size, usage |-> <<items, i>>,
                               first |-> bits[t][r] + (i - 1) * k.size] : i \in 1..k.usages}
    /\ bits' = [bits EXCEPT ![t][r] = @ + k.usages * k.size]
    /\ items' = items + 1
    /\ UNCHANGED <<phase, device, nodes, idx, level, treeVars, list, cursor, padVars, outVars>>

DeclarePadding(t, r, n) ==
    /\ phase = "declare" /\ items < MaxItems
    /\ bits' = [bits EXCEPT ![t][r] = @ + n]
    /\ items' = items + 1
    /\ UNCHANGED <<phase, device, nodes, caps, fields, idx, level, treeVars, list, cursor, padVars, outVars>>

(* caps_info[type].ReportByteLength: the longest report and its ID. *)
Bytes(n) == (n + 7) \div 8
ReportByteLength(t) == 1 + Bytes(CHOOSE m \in {bits[t][r] : r \in ReportIDs} :
                                    \A r \in ReportIDs : bits[t][r] <= m)

(***************************************************************************)
(* The bit range of each report per collection, from its own capabilities. *)
(***************************************************************************)
Begin ==
    /\ phase = "declare" /\ idx = 0 /\ fields # {}
    /\ phase' = "levels"
    /\ range' = [c \in Collections |-> [r \in AllIDs |-> [t \in Types |->
           LET own == {i \in DOMAIN caps[t] : caps[t][i].coll = c /\ caps[t][i].id = r}
               firsts == {caps[t][i].first : i \in own}
           IN IF own = {} THEN -1 ELSE CHOOSE b \in firsts : \A other \in firsts : b <= other]]]
    /\ levels' = [c \in Collections |-> -1]
    /\ children' = [c \in Collections |-> 0]
    /\ UNCHANGED <<sourceVars, idx, level, unmerged, order, written, list, cursor, padVars, outVars>>

(***************************************************************************)
(* The levels and the number of direct children of each collection.        *)
(***************************************************************************)
LevelDescends ==
    /\ phase = "levels" /\ nodes[idx].NumberOfChildren > 0
    /\ levels[nodes[idx].FirstChild] = -1
    /\ level' = level + 1
    /\ levels' = [levels EXCEPT ![idx] = level + 1]
    /\ children' = [children EXCEPT ![idx] = @ + 1]
    /\ idx' = nodes[idx].FirstChild
    /\ UNCHANGED <<phase, range, unmerged>>

(* No child, or back from the children. *)
LevelLeaves ==
    /\ phase = "levels"
    /\ nodes[idx].NumberOfChildren = 0 \/ levels[nodes[idx].FirstChild] # -1
    /\ levels' = [levels EXCEPT ![idx] = level]
    /\ UNCHANGED range
    /\ \/ /\ nodes[idx].NextSibling # 0
          /\ children' = [children EXCEPT ![nodes[idx].Parent] = @ + 1]
          /\ idx' = nodes[idx].NextSibling
          /\ UNCHANGED <<phase, level, unmerged>>
       \/ /\ nodes[idx].NextSibling = 0
          /\ level' = level - 1
          /\ UNCHANGED children
          /\ idx' = IF level > 0 THEN nodes[idx].Parent ELSE 0
          /\ IF level > 0 THEN UNCHANGED <<phase, unmerged>>
             ELSE phase' = "merge" /\ unmerged' = Collections

DetermineLevels ==
    /\ LevelDescends \/ LevelLeaves
    /\ UNCHANGED <<sourceVars, order, written, list, cursor, padVars, outVars>>

(***************************************************************************)
(* The ranges of the children are merged into their parent's, level by     *)
(* level from below.  The loop steps to the next sibling with every report *)
(* and type, not with every child: of each report and type one child is    *)
(* merged, or collection 0 once the siblings are exhausted.  And a parent  *)
(* without a range of its own, -1, never takes over a child's.             *)
(***************************************************************************)
Siblings(c) == LET chain[n \in Collections] ==
                     IF nodes[n].NextSibling = 0 THEN <<n>> ELSE <<n>> \o chain[nodes[n].NextSibling]
               IN IF nodes[c].FirstChild = 0 THEN <<>> ELSE chain[nodes[c].FirstChild]

Turn(r, t) == r * Len(TypeOrder) + (CHOOSE i \in DOMAIN TypeOrder : TypeOrder[i] = t)

ChildMerged(c, r, t) == IF Turn(r, t) <= Len(Siblings(c)) THEN Siblings(c)[Turn(r, t)] ELSE 0

Merge(mine, childs) == IF childs # -1 /\ mine > childs THEN childs ELSE mine

MergeInto(c) ==
    /\ phase = "merge" /\ c \in unmerged
    /\ \A d \in unmerged : levels[d] < levels[c] \/ (levels[d] = levels[c] /\ d >= c)
    /\ range' = IF Siblings(c) = <<>> THEN range
                ELSE [range EXCEPT ![c] = [r \in AllIDs |-> [t \in Types |->
                          Merge(@[r][t], range[ChildMerged(c, r, t)][r][t])]]]
    /\ unmerged' = unmerged \ {c}
    /\ order' = <<>> /\ idx' = 0 /\ level' = 0
    /\ phase' = IF unmerged = {c} THEN "order" ELSE phase
    /\ UNCHANGED <<sourceVars, levels, children, written, list, cursor, padVars, outVars>>

(***************************************************************************)
(* The order of the children: the reverse of the links, then one pass of   *)
(* exchanges for every type and report.                                    *)
(***************************************************************************)
Exchange(children_of, p) ==
    LET a == range[children_of[p.at - 1]][p.id][p.type]
        b == range[children_of[p.at]][p.id][p.type]
    IN IF a # -1 /\ b # -1 /\ a > b
       THEN [children_of EXCEPT ![p.at - 1] = children_of[p.at], ![p.at] = children_of[p.at - 1]]
       ELSE children_of

Passes(n) == FlattenSeq([i \in DOMAIN HasTypes |->
                 FlattenSeq([r \in 1..Cardinality(AllIDs) |->
                     [k \in 1..(n - 1) |->
                         [type |-> HasTypes[i], at |-> k + 1, id |-> SetToSortSeq(AllIDs, <)[r]]]])])

ChildOrder(c) == FoldLeft(Exchange, Reverse(Siblings(c)), Passes(children[c]))

OrderChildren ==
    /\ phase = "order"
    /\ order' = [c \in Collections |-> IF children[c] = 0 THEN <<>> ELSE ChildOrder(c)]
    /\ written' = [c \in Collections |-> -1]
    /\ list' = <<[NoNode EXCEPT !.kind = "collection", !.coll = 0]>>
    /\ idx' = 0 /\ level' = 0 /\ phase' = "collections"
    /\ UNCHANGED <<sourceVars, levels, children, range, unmerged, cursor, padVars, outVars>>

(***************************************************************************)
(* The list of Collection and End Collection items.                        *)
(***************************************************************************)
CollectionNode(kind, c) == [NoNode EXCEPT !.kind = kind, !.coll = c]

WriteChild ==
    /\ phase = "collections" /\ children[idx] # 0
    /\ \E n \in 1..children[idx] :
         /\ IF written[idx] = -1 THEN n = 1
            ELSE n > 1 /\ written[idx] = order[idx][n - 1]
         /\ written' = [written EXCEPT ![idx] = order[idx][n]]
         /\ idx' = order[idx][n]
         /\ list' = Append(list, CollectionNode("collection", order[idx][n]))
    /\ level' = level + 1
    /\ UNCHANGED <<phase, sourceVars, levels, children, range, unmerged, order, cursor, padVars, outVars>>

WriteEnd ==
    /\ phase = "collections"
    /\ children[idx] # 0 => written[idx] = Last(order[idx])
    /\ list' = Append(list, CollectionNode("end", idx))
    /\ level' = level - 1
    /\ idx' = nodes[idx].Parent
    /\ phase' = IF level = 0 THEN HasTypes[1] ELSE phase
    /\ cursor' = 1
    /\ UNCHANGED <<sourceVars, treeVars, padVars, outVars>>

(***************************************************************************)
(* The capabilities of each type, one by one, at their bit positions.      *)
(***************************************************************************)
BeginOf(c) == CHOOSE i \in DOMAIN list : list[i] = CollectionNode("collection", c)
EndOf(c) == CHOOSE i \in DOMAIN list : list[i] = CollectionNode("end", c)

(* rd_search_main_item_list_for_bit_position *)
SearchStops(node, bit, t, r) ==
    node.kind \in {"collection", "end"} \/ (node.last >= bit /\ node.id = r /\ node.kind = t)

Search(from, bit, t, r) ==
    CHOOSE i \in from..(Len(list) - 1) :
        /\ SearchStops(list[i + 1], bit, t, r)
        /\ \A j \in from..(i - 1) : ~SearchStops(list[j + 1], bit, t, r)

(* Mutant: the children's bit ranges are not looked at. *)
SectionOf_AfterAll(cap, t) ==
    LET kids == order[cap.coll] IN IF kids = <<>> THEN BeginOf(cap.coll) ELSE EndOf(Last(kids))

(* Behind the last child that begins no later than the field, as the bit   *)
(* ranges tell it; a child without a range is passed over.                 *)
SectionOf(cap, t) ==
    LET kids == order[cap.coll]
        later == {k \in DOMAIN kids : cap.first < range[kids[k]][cap.id][t]}
        passed == IF later = {} THEN Len(kids) ELSE (CHOOSE k \in later : \A l \in later : k <= l) - 1
    IN IF passed = 0 THEN BeginOf(cap.coll) ELSE EndOf(kids[passed])

InsertCap(t) ==
    /\ phase = t /\ cursor <= Len(caps[t])
    /\ LET cap == caps[t][cursor]
           at == Search(SectionOf(cap, t), cap.first, t, cap.id)
       IN list' = InsertAt(list, at + 1, [kind |-> t, coll |-> cap.coll, id |-> cap.id, first |-> cap.first,
                                          last |-> cap.first + cap.size * cap.count - 1, cap |-> cursor])
    /\ cursor' = cursor + 1
    /\ UNCHANGED <<phase, sourceVars, idx, level, treeVars, padVars, outVars>>

NextType(t) ==
    /\ phase = t /\ cursor > Len(caps[t])
    /\ phase' = IF t = Last(HasTypes) THEN "gaps"
                ELSE HasTypes[1 + CHOOSE i \in DOMAIN HasTypes : HasTypes[i] = t]
    /\ cursor' = 1
    /\ UNCHANGED <<sourceVars, idx, level, treeVars, list, padVars, outVars>>

(***************************************************************************)
(* Padding: the gaps between the fields of a report, then its last byte,   *)
(* then, without report IDs, the bytes up to the length of the report.     *)
(***************************************************************************)
Padding(t, r, first, last) ==
    [kind |-> t, coll |-> 0, id |-> r, first |-> first, last |-> last, cap |-> 0]
IsPadding(node) == node.cap = 0

PositionOf(node) == CHOOSE i \in DOMAIN list : list[i] = node

(* A gap before the first field of a report is none for this test. *)
GapBefore(node) ==
    LET before == last_item[node.kind][node.id] IN
    /\ before # NoNode /\ before.first # node.first
    /\ last_bit[node.kind][node.id] + 1 # node.first

FillGap ==
    /\ phase = "gaps" /\ cursor < Len(list)
    /\ LET node == list[cursor]
           t == node.kind
           r == node.id
           from == last_bit[t][r] + 1
           at == Search(PositionOf(last_item[t][r]), from - 1, t, r)
       IN /\ IF t \in Types /\ GapBefore(node)
             THEN /\ list' = InsertAt(list, at + 1, Padding(t, r, from, node.first - 1))
                  /\ cursor' = IF at < cursor THEN cursor + 2 ELSE cursor + 1
             ELSE UNCHANGED list /\ cursor' = cursor + 1
          /\ IF t \in Types
             THEN /\ last_bit' = [last_bit EXCEPT ![t][r] = node.last]
                  /\ last_item' = [last_item EXCEPT ![t][r] = node]
             ELSE UNCHANGED <<last_bit, last_item>>
          /\ top_end' = IF list'[cursor' ].kind = "end" THEN node ELSE top_end
    /\ UNCHANGED <<phase, sourceVars, idx, level, treeVars, outVars>>

InsertAfter(nodes_list, node, new) ==
    InsertAt(nodes_list, 1 + CHOOSE i \in DOMAIN nodes_list : nodes_list[i] = node, new)

(* Mutant: takes the last bit for the number of bits. *)
LastByteOf_OneOff(n) == 8 - (n % 8)

LastByteOf(n) == 8 - ((n + 1) % 8)

PadLastByte(acc, p) ==
    LET b == acc.last_bit[p.type][p.id]
        new == Padding(p.type, p.id, b + 1, b + LastByteOf(b))
    IN IF b = -1 \/ LastByteOf(b) = 8 THEN acc
       ELSE [list |-> InsertAfter(acc.list, last_item[p.type][p.id], new),
             last_bit |-> [acc.last_bit EXCEPT ![p.type][p.id] = b + LastByteOf(b)],
             top_end |-> IF last_item[p.type][p.id] = acc.top_end THEN new ELSE acc.top_end]

PadLastBytes ==
    /\ phase = "gaps" /\ cursor = Len(list)
    /\ LET done == FoldLeft(PadLastByte, [list |-> list, last_bit |-> last_bit, top_end |-> top_end], Passes(2))
       IN list' = done.list /\ last_bit' = done.last_bit /\ top_end' = done.top_end
    /\ phase' = "bytes"
    /\ UNCHANGED <<sourceVars, idx, level, treeVars, cursor, last_item, outVars>>

(* devicehasReportIDs *)
HasReportIDs == \E t \in Types : \E i \in DOMAIN caps[t] : caps[t][i].id # 0

PadReport(so_far, t) ==
    LET missing == (ReportByteLength(t) - 1) * 8 - (last_bit[t][0] + 1)
    IN IF HasReportIDs \/ caps[t] = <<>> \/ missing <= 0 THEN so_far
       ELSE InsertAfter(so_far, top_end, Padding(t, 0, last_bit[t][0] + 1, last_bit[t][0] + missing))

PadReports ==
    /\ phase = "bytes"
    /\ list' = FoldLeft(PadReport, list, HasTypes)
    /\ phase' = "encode" /\ cursor' = 1
    /\ UNCHANGED <<sourceVars, idx, level, treeVars, padVars, outVars>>

(***************************************************************************)
(* The encoding.  An item is <<name, value>>; rd_write_short_item refuses  *)
(* a value that is out of range, and nobody looks at its result.           *)
(***************************************************************************)
Unsigned == {"report_size", "report_count", "report_id"}
Refused(item) == item[1] \in Unsigned /\ item[2] < 0

Write(written_items) ==
    /\ out' = out \o SelectSeq(written_items, LAMBDA i : ~Refused(i))
    /\ refused' = (refused \/ \E i \in DOMAIN written_items : Refused(written_items[i]))

EncodeCollection(node) ==
    /\ Write(IF node.kind = "collection" THEN <<<<"collection", node.coll>>>> ELSE <<<<"end", node.coll>>>>)
    /\ UNCHANGED <<last_id, merged>>

(* Padding writes no report ID: it goes to the report written last. *)
EncodePadding(node) ==
    LET n == node.last - node.first + 1 IN
    /\ Write((IF n % 8 = 0 THEN <<<<"report_size", 8>>, <<"report_count", n \div 8>>>>
              ELSE <<<<"report_size", n>>, <<"report_count", 1>>>>)
             \o <<<<node.kind, "constant">>>>)
    /\ merged' = 0 /\ UNCHANGED last_id

CapOf(node) == caps[node.kind][node.cap]

(* The next field is of the same type, report and usage style: it may      *)
(* share the main item, which then has one usage and one count more.       *)
Mergeable(node) ==
    LET next == list[cursor + 1] IN
    /\ next.kind = node.kind /\ ~IsPadding(next)
    /\ ~CapOf(node).range /\ ~CapOf(next).range /\ CapOf(next).id = CapOf(node).id

Prefix(cap) ==
    (IF last_id # cap.id THEN <<<<"report_id", cap.id>>>> ELSE <<>>)
      \o (IF cap.range THEN <<<<"usage_range", <<cap.usage, cap.count>>>>>> ELSE <<<<"usage", cap.usage>>>>)

MainItem(node, count) ==
    <<<<"report_size", CapOf(node).size>>, <<"report_count", count>>, <<node.kind, "variable">>>>

EncodeButton(node) ==
    LET cap == CapOf(node) IN
    /\ last_id' = cap.id
    /\ IF Mergeable(node) /\ CapOf(list[cursor + 1]).button
       THEN /\ Write(Prefix(cap))
            /\ merged' = IF list[cursor + 1].first # node.first THEN merged + 1 ELSE merged
       ELSE /\ Write(Prefix(cap) \o MainItem(node, IF cap.range THEN cap.count ELSE cap.count + merged))
            /\ merged' = 0

ValueMerges(node) ==
    LET next == CapOf(list[cursor + 1]) IN
    /\ Mergeable(node) /\ ~next.button
    /\ next.size = CapOf(node).size /\ next.count = 1 /\ CapOf(node).count = 1

EncodeValue(node) ==
    LET cap == CapOf(node) IN
    /\ last_id' = cap.id
    /\ IF ValueMerges(node)
       THEN Write(Prefix(cap)) /\ merged' = merged + 1
       ELSE Write(Prefix(cap) \o MainItem(node, cap.count + merged)) /\ merged' = 0

Encode ==
    /\ phase = "encode" /\ cursor <= Len(list)
    /\ LET node == list[cursor] IN
       IF node.kind \in {"collection", "end"} THEN EncodeCollection(node)
       ELSE IF IsPadding(node) THEN EncodePadding(node)
       ELSE IF CapOf(node).button THEN EncodeButton(node) ELSE EncodeValue(node)
    /\ cursor' = cursor + 1
    /\ phase' = IF cursor = Len(list) THEN "done" ELSE phase
    /\ UNCHANGED <<sourceVars, idx, level, treeVars, list, padVars>>

Declares ==
    \/ OpenCollection \/ CloseCollection
    \/ \E t \in Types, r \in ReportIDs, k \in FieldKinds : DeclareField(t, r, k)
    \/ \E t \in Types, r \in ReportIDs, n \in Paddings : DeclarePadding(t, r, n)

Reconstructs ==
    \/ Begin \/ DetermineLevels
    \/ \E c \in Collections : MergeInto(c)
    \/ OrderChildren \/ WriteChild \/ WriteEnd
    \/ \E t \in Types : InsertCap(t) \/ NextType(t)
    \/ FillGap \/ PadLastBytes \/ PadReports \/ Encode

Next == Declares \/ Reconstructs
Spec == Init /\ [][Next]_vars

(***************************************************************************)
(* What a host reads from the reconstructed descriptor: a field for each   *)
(* usage of a main item, at the next free bits of the current report.      *)
(***************************************************************************)
Start == [id |-> 0, size |-> 0, count |-> 0, usages |-> <<>>, open |-> <<>>, nested |-> {}, read |-> {},
          bits |-> [t \in Types |-> [r \in AllIDs |-> 0]]]

ReadMain(d, t, kind) ==
    LET first == d.bits[t][d.id] IN
    [d EXCEPT !.usages = <<>>, !.bits[t][d.id] = first + d.size * d.count,
              !.read = IF kind = "constant" THEN @
                       ELSE @ \cup {[type |-> t, id |-> d.id, coll |-> Last(d.open), size |-> d.size,
                                     usage |-> d.usages[i], first |-> first + (i - 1) * d.size]
                                    : i \in 1..d.count}]

ReadItem(d, item) ==
    CASE item[1] = "report_id" -> [d EXCEPT !.id = item[2]]
      [] item[1] = "report_size" -> [d EXCEPT !.size = item[2]]
      [] item[1] = "report_count" -> [d EXCEPT !.count = item[2]]
      [] item[1] = "usage" -> [d EXCEPT !.usages = Append(@, item[2])]
      [] item[1] = "usage_range" ->
             [d EXCEPT !.usages = @ \o [i \in 1..item[2][2] |-> <<item[2][1][1], i>>]]
      [] item[1] = "collection" ->
             [d EXCEPT !.nested = @ \cup {<<IF d.open = <<>> THEN 0 ELSE Last(d.open), item[2]>>},
                       !.open = Append(@, item[2])]
      [] item[1] = "end" -> [d EXCEPT !.open = Front(@)]
      [] OTHER -> ReadMain(d, item[1], item[2])

Host == FoldLeft(ReadItem, Start, out)

(***************************************************************************)
(* Descriptors that the function gets right.                               *)
(***************************************************************************)
FieldBits(t, r) == UNION {f.first..(f.first + f.size - 1) : f \in {g \in fields : g.type = t /\ g.id = r}}
LastFieldBit(t, r) == CHOOSE b \in FieldBits(t, r) : \A other \in FieldBits(t, r) : other <= b

(* No report begins with padding; with report IDs, none has any but at its end. *)
GapsSupported ==
    \A t \in Types, r \in ReportIDs :
        FieldBits(t, r) # {} => /\ 0 \in FieldBits(t, r)
                                /\ r = 0 \/ FieldBits(t, r) = 0..LastFieldBit(t, r)

(* A collection that contains others, unless it is the top-level one, is alone in its parent:
   child_idx = NextSibling stands inside of the loops over reports and types, so a child is
   merged for one of them only, and a range that is still -1 is not taken over. *)
NestingSupported ==
    \A c \in Collections \ {0} :
        nodes[c].NumberOfChildren > 0 =>
            /\ nodes[nodes[c].Parent].NumberOfChildren = 1
            /\ \A f \in fields : f.coll # nodes[c].Parent

(* The descriptor declares the fields of the device, each with its usage,  *)
(* at its bits of its report and in its collection; the function's comment *)
(* promises it of every descriptor (bit ranges are propagated to the       *)
(* parents, all bit gaps are filled).  No run checks it: it fails where    *)
(* the two conditions above are not met.                                   *)
LayoutKept == Host.read = fields

(* It holds for the descriptors that are supported: no field is lost, moved*)
(* or given the usage of another, in whatever order the capabilities come, *)
(* through sorting, insertion, padding and the merging of main items.      *)
(* Whatever the descriptor, the collections are nested as the device's     *)
(* are, and closed.                                                        *)
SupportedLayoutKept ==
    phase = "done" =>
        /\ GapsSupported /\ NestingSupported => LayoutKept
        /\ Host.open = <<>>
        /\ Host.nested = {<<nodes[c].Parent, c>> : c \in Collections}

(* The reports of a device without report IDs keep their length, which a   *)
(* host needs to transfer them: padding completes the last byte and the    *)
(* bytes that no capability covers.                                        *)
LengthKept ==
    phase = "done" /\ ~HasReportIDs /\ GapsSupported /\ NestingSupported =>
        \A t \in Types : caps[t] # <<>> => Host.bits[t][0] = 8 * (ReportByteLength(t) - 1)
==============================================================================
