---------------------------- MODULE UsageParser ----------------------------
(***************************************************************************)
(* What hid_enumerate reads from a report descriptor: usage page and usage *)
(* of the device.  libusb takes the first of each (get_usage); Linux and   *)
(* NetBSD have an iterator, the same in both, that finds those of every    *)
(* top-level collection (get_next_hid_usage), each for one record.         *)
(*                                                                         *)
(* A device declares a descriptor item by item, then it is read, perhaps   *)
(* without its last bytes, and walked; a step is one turn of a loop.  The  *)
(* walk sees bytes, whose number differs from item to item and whose       *)
(* values may look like other items; what it finds is compared with what   *)
(* the items say.                                                          *)
(***************************************************************************)
EXTENDS Integers, Sequences

CONSTANTS
    Backends,     \* the algorithms to look at
    Items,        \* items a descriptor may have: [kind, page, usage]
    MaxItems      \* bound: items of a descriptor

Kinds == {"page", "wide_page", "usage", "page_and_usage", "field", "collection", "end", "long"}

ASSUME UsageAssumption ==
    /\ Backends \subseteq {"libusb", "linux", "netbsd"}
    /\ Items \subseteq [kind : Kinds, page : 0..255, usage : 0..255]
    /\ MaxItems \in Nat

VARIABLES
    backend,         \* whose algorithm runs
    items,           \* the items of the descriptor
    report_descriptor,   \* the bytes read
    phase,           \* "declare", "walk", "collection" (inside of
                     \* hid_iterate_over_collection) or "done"
    pos,             \* i, ctx->pos
    page_found,      \* usage_page_found, ctx->usage_page_found
    page,            \* *usage_page, ctx->usage_page
    usage_found,     \* usage_found
    usage,           \* *usage
    initial,         \* initial: this is the first call of the iterator
    level,           \* collection_level
    list             \* the pairs found, one record for each

findVars == <<page_found, page, usage_found, usage, initial>>
walkVars == <<pos, findVars, level, list>>
vars == <<backend, items, report_descriptor, phase, walkVars>>

(***************************************************************************)
(* What a host makes of the items: a top-level collection has the usage    *)
(* that stands before it, in the usage page in force or in its own.        *)
(*                                                                         *)
(* The walk gets it right for a regular descriptor: each top-level         *)
(* collection has one usage, whose page was set since the collection       *)
(* before, or outside of any collection.  HID knows more: a page that was  *)
(* set inside of a collection, and one that is in force again after a      *)
(* usage with a page of its own.                                           *)
(***************************************************************************)
NoPage == "none"
Start == [page |-> 0, from |-> NoPage, usages |-> <<>>, depth |-> 0,
          opened |-> <<>>, closed |-> <<>>, collections |-> 0, regular |-> TRUE,
          settled |-> TRUE]

InForce(h) == IF h.usages[1].kind = "usage" THEN h.page ELSE h.usages[1].page
PairOf(h) == <<InForce(h), h.usages[1].usage>>
HasPair(h) == Len(h.usages) = 1 /\ h.from = h.usages[1].kind

ReadPage(h, item) ==
    [h EXCEPT !.page = item.page, !.from = IF h.depth = 0 THEN "usage" ELSE NoPage,
              !.settled = @ /\ (h.depth = 0 /\ h.usages # <<>> => h.from = NoPage)]

ReadUsage(h, item) ==
    [h EXCEPT !.usages = Append(@, item),
              !.from = IF h.depth = 0 /\ item.kind = "page_and_usage" THEN item.kind ELSE @]

ReadCollection(h) ==
    [h EXCEPT !.depth = @ + 1, !.usages = <<>>,
              !.collections = IF h.depth = 0 THEN @ + 1 ELSE @,
              !.opened = IF h.depth = 0 /\ HasPair(h) THEN PairOf(h) ELSE @,
              !.regular = @ /\ (h.depth = 0 => HasPair(h))]

ReadEnd(h) ==
    [h EXCEPT !.depth = @ - 1, !.usages = <<>>,
              !.closed = IF h.depth = 1 THEN Append(@, h.opened) ELSE @]

ReadItem(h, item) ==
    CASE item.kind \in {"page", "wide_page"} -> ReadPage(h, item)
      [] item.kind \in {"usage", "page_and_usage"} -> ReadUsage(h, item)
      [] item.kind = "collection" -> ReadCollection(h)
      [] item.kind = "end" -> ReadEnd(h)
      [] item.kind = "field" -> [h EXCEPT !.usages = <<>>, !.regular = @ /\ h.depth > 0]
      [] item.kind = "long" -> h

(* What is known after each of the items of s. *)
Readings(s) ==
    LET after[k \in 0..Len(s)] == IF k = 0 THEN Start ELSE ReadItem(after[k - 1], s[k])
    IN after

(***************************************************************************)
(* The bytes of an item (HID 1.11, 6.2.2): a key, whose low bits tell how  *)
(* many bytes follow, and the value.  A long item says so in its second    *)
(* byte; the data of this one look like a usage.                           *)
(***************************************************************************)
Encode(item) ==
    CASE item.kind = "page" -> <<5, item.page>>
      [] item.kind = "wide_page" -> <<6, item.page, 0>>
      [] item.kind = "usage" -> <<9, item.usage>>
      [] item.kind = "page_and_usage" -> <<11, item.usage, 0, item.page, 0>>
      [] item.kind = "field" -> <<129, 2>>
      [] item.kind = "collection" -> <<161, 1>>
      [] item.kind = "end" -> <<192>>
      [] item.kind = "long" -> <<254, 2, 0, 9, 161>>

(* The bytes of the first items of s. *)
Encodings(s) ==
    LET upto[k \in 0..Len(s)] == IF k = 0 THEN <<>> ELSE upto[k - 1] \o Encode(s[k])
    IN upto

Bytes == Encodings(items)[Len(items)]
size == Len(report_descriptor)
Byte(p) == report_descriptor[p + 1]
Opened == Readings(items)[Len(items)].depth

Init ==
    /\ backend \in Backends
    /\ items = <<>> /\ report_descriptor = <<>> /\ phase = "declare"
    /\ pos = 0 /\ page_found = FALSE /\ page = 0 /\ usage_found = FALSE /\ usage = 0
    /\ initial = TRUE /\ level = 0 /\ list = <<>>

Declare(item) ==
    /\ phase = "declare" /\ Len(items) < MaxItems
    /\ item.kind = "end" => Opened > 0
    /\ items' = Append(items, item)
    /\ UNCHANGED <<backend, report_descriptor, phase, walkVars>>

(* The descriptor is fetched; a transfer or a buffer that is too short     *)
(* ends it within an item.                                                 *)
Fetch(missing) ==
    /\ phase = "declare" /\ items # <<>> /\ missing < Len(Encode(items[Len(items)]))
    /\ report_descriptor' = SubSeq(Bytes, 1, Len(Bytes) - missing) /\ phase' = "walk"
    /\ UNCHANGED <<backend, items, walkVars>>

(* The items that were read whole, and what a host makes of them. *)
Cut == size < Len(Bytes)
Whole == IF Cut THEN Len(items) - 1 ELSE Len(items)
Host == Readings(items)[Whole]

(***************************************************************************)
(* Items.                                                                  *)
(***************************************************************************)
Key(p) == Byte(p)
Command(p) == Key(p) - (Key(p) % 4)
IsLong(p) == Key(p) >= 240
PageItem == 4
UsageItem == 8
CollectionItem == 160
EndItem == 192

ShortLength(p) == <<0, 1, 2, 4>>[(Key(p) % 4) + 1]

(* data_len; the iterator takes a long item without its length for a short one. *)
DataLength(p) ==
    IF ~IsLong(p) THEN ShortLength(p)
    ELSE IF p + 1 < size THEN Byte(p + 1)
    ELSE IF backend = "libusb" THEN 0 ELSE ShortLength(p)

KeySize(p) == IF IsLong(p) /\ (backend = "libusb" \/ p + 1 < size) THEN 3 ELSE 1

After(p) == p + DataLength(p) + KeySize(p)

(* The value of n bytes after p as an unsigned short, 0 if they are not all there. *)
get_bytes(p, n) ==
    IF n = 0 \/ p + n >= size THEN 0
    ELSE IF n = 1 THEN Byte(p + 1) ELSE Byte(p + 1) + 256 * Byte(p + 2)

(***************************************************************************)
(* The loop of get_usage, which ends with the first pair, and of           *)
(* get_next_hid_usage, which at a collection goes to its end first.        *)
(***************************************************************************)
Turn == phase = "walk" /\ pos < size

Continue ==
    IF backend = "libusb" /\ page_found' /\ usage_found'
    THEN /\ phase' = "done" /\ list' = <<<<page', usage'>>>>
         /\ UNCHANGED <<backend, items, report_descriptor, pos, initial, level>>
    ELSE /\ pos' = After(pos)
         /\ UNCHANGED <<backend, items, report_descriptor, phase, initial, level, list>>

TakePage ==
    /\ Turn /\ Command(pos) = PageItem
    /\ page' = get_bytes(pos, DataLength(pos)) /\ page_found' = TRUE
    /\ UNCHANGED <<usage_found, usage>>
    /\ Continue

TakeUsage ==
    /\ Turn /\ Command(pos) = UsageItem
    /\ usage_found' = TRUE
    /\ IF DataLength(pos) = 4
       THEN /\ page' = get_bytes(pos + 2, 2) /\ page_found' = TRUE
            /\ usage' = get_bytes(pos, 2)
       ELSE /\ usage' = get_bytes(pos, DataLength(pos))
            /\ UNCHANGED <<page, page_found>>
    /\ Continue

MeetCollection ==
    /\ Turn /\ Command(pos) = CollectionItem /\ backend # "libusb"
    /\ phase' = "collection" /\ level' = 0
    /\ UNCHANGED <<backend, items, report_descriptor, pos, findVars, list>>

SkipItem ==
    /\ Turn /\ Command(pos) \notin {PageItem, UsageItem}
    /\ Command(pos) = CollectionItem => backend = "libusb"
    /\ UNCHANGED <<page_found, page, usage_found, usage>>
    /\ Continue

(* Mutant: collections inside of the collection are not counted. *)
Level_Flat ==
    CASE Command(pos) = CollectionItem -> 1
      [] Command(pos) = EndItem -> 0
      [] OTHER -> level

Level ==
    CASE Command(pos) = CollectionItem -> level + 1
      [] Command(pos) = EndItem -> level - 1
      [] OTHER -> level

(* One turn of hid_iterate_over_collection.  At its end a pair is returned,*)
(* if there is one, and the next call goes on from here, without a usage.  *)
IterateOverCollection ==
    /\ phase = "collection" /\ pos < size
    /\ level' = Level
    /\ phase' = IF level' = 0 THEN "walk" ELSE phase
    /\ IF level' = 0 /\ usage_found /\ page_found
       THEN /\ list' = Append(list, <<page, usage>>)
            /\ usage_found' = FALSE /\ initial' = FALSE
            /\ UNCHANGED pos
       ELSE pos' = After(pos) /\ UNCHANGED <<list, usage_found, initial>>
    /\ UNCHANGED <<backend, items, report_descriptor, page_found, page, usage>>

(* The descriptor ends within a collection: malformed, nothing follows. *)
CollectionUnclosed ==
    /\ phase = "collection" /\ pos >= size
    /\ phase' = "done"
    /\ UNCHANGED <<backend, items, report_descriptor, walkVars>>

(* get_usage leaves what it has found, be it half a pair; the iterator     *)
(* takes a pair without a collection, if its first call found no other.    *)
EndOfDescriptor ==
    /\ phase = "walk" /\ pos >= size
    /\ phase' = "done"
    /\ list' = IF backend = "libusb" \/ (initial /\ usage_found /\ page_found)
               THEN <<<<page, usage>>>> ELSE list
    /\ UNCHANGED <<backend, items, report_descriptor, pos, findVars, level>>
-----------------------------------------------------------------------------
Walk ==
    \/ TakePage \/ TakeUsage \/ MeetCollection \/ SkipItem
    \/ IterateOverCollection \/ CollectionUnclosed \/ EndOfDescriptor

Next ==
    \/ \E item \in Items : Declare(item)
    \/ \E missing \in 0..4 : Fetch(missing)
    \/ Walk

Spec == Init /\ [][Next]_vars

(***************************************************************************)
(* Properties.                                                             *)
(***************************************************************************)
(* The iterator "returns the current Usage Page/Usage pair whenever a new  *)
(* Collection is found": one record for each complete top-level collection *)
(* of a regular descriptor, in order and with its own usage, whatever is   *)
(* inside of it, however long the items are and wherever the descriptor    *)
(* was cut; without any collection, for the one usage there is.  get_usage *)
(* "just returns the first Usage and Usage Page that it finds": they are   *)
(* those of the first top-level collection, unless the page is changed     *)
(* once more behind the usage.                                             *)
UsagesFound ==
    phase = "done" /\ Host.regular =>
        IF Host.collections = 0
        THEN HasPair(Host) /\ ~Cut /\ Host.settled => list = <<PairOf(Host)>>
        ELSE IF backend # "libusb" THEN list = Host.closed
        ELSE Host.settled => list = <<IF Host.closed = <<>> THEN Host.opened ELSE Host.closed[1]>>
============================================================================
