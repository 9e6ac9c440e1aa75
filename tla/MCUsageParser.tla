--------------------------- MODULE MCUsageParser ---------------------------
(* Every kind of item, with two pages and two usages; the value of one     *)
(* usage is the key of a collection.                                       *)
EXTENDS UsageParser

AllBackends == {"libusb", "linux"}
Plain(kind) == [kind |-> kind, page |-> 0, usage |-> 0]
AllItems ==
    {[kind |-> "page", page |-> 1, usage |-> 0],
     [kind |-> "wide_page", page |-> 2, usage |-> 0],
     [kind |-> "usage", page |-> 0, usage |-> 161],
     [kind |-> "page_and_usage", page |-> 2, usage |-> 6]}
    \cup {Plain(kind) : kind \in {"field", "collection", "end", "long"}}
============================================================================
