\* Every descriptor of up to six items, complete or cut within its last item.
SPECIFICATION Spec
CONSTANTS
    Backends <- AllBackends
    Items <- AllItems
    MaxItems = 6
INVARIANT UsagesFound
\* the system stops when the descriptor has been walked
CHECK_DEADLOCK FALSE
