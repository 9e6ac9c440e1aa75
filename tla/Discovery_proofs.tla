-------------------------- MODULE Discovery_proofs --------------------------
(***************************************************************************)
(* Proofs about Discovery, for all backends, any devices, places and       *)
(* number of calls: what a call holds at each of its steps, that NULL is   *)
(* explained, that hid_open opens what was asked for, and that the list    *)
(* has everything once.                                                    *)
(***************************************************************************)
EXTENDS Discovery, WellFoundedInduction, TLAPS

(***************************************************************************)
(* The inductive invariant, in named parts.                                *)
(***************************************************************************)
Systems == {"libusb", "linux", "netbsd", "mac", "windows"}
Residents == {Absent} \cup {[kind |-> k, plug |-> n] : k \in Kinds, n \in Nat}
Sightings == {[place |-> p, kind |-> k, plug |-> n] : p \in Places, k \in Kinds, n \in Nat}

WorldTypeOK ==
    /\ backend \in Systems
    /\ present \in [Places -> Residents] /\ plugs \in Nat /\ steady \subseteq Places
CurrentTypeOK == current \in {None} \cup Sightings
TodoTypeOK == todo \subseteq Sightings
PlugsInv == \A p \in Places : At(p) # Absent => At(p).plug <= plugs
PathTypeOK == path = BadPath \/ path[1] \in Places
TypeOK == WorldTypeOK /\ PlugsInv /\ CurrentTypeOK /\ TodoTypeOK /\ PathTypeOK

(* Where a call can be. *)
Listing == {"snapshot", "interfaces", "look", "describe", "choose"}
Opening == {"open", "linux_open", "linux_ioctl", "mac_entry", "mac_create", "mac_open",
            "windows_buffers", "windows_caps", "netbsd_drvctl", "netbsd_walk", "netbsd_child"}
PhaseInv ==
    /\ pc \in {"done"} \cup Listing \cup Opening
    /\ pc \in Listing => call.function \in {"hid_enumerate", "hid_open"}
    /\ pc \in {"interfaces", "windows_buffers", "windows_caps"} => backend = "windows"
    /\ pc \in {"linux_open", "linux_ioctl"} => backend = "linux"
    /\ pc \in {"mac_entry", "mac_create", "mac_open"} => backend = "mac"
    /\ pc \in {"netbsd_drvctl", "netbsd_walk", "netbsd_child"} => backend = "netbsd"
    /\ pc \in {"describe", "mac_create", "mac_open", "windows_buffers", "windows_caps"} =>
         current # None
    /\ pc = "netbsd_child" => path # BadPath /\ length \in Nat
    /\ pc # "done" \/ answer = "list" => device = NoKind

(* What a call holds at each of its steps, but for what NetBSD has lost.   *)
Keeps == held \ {"lost drvctl"}
Walking == IF backend = "netbsd" THEN {"drvctl"} ELSE {}
HeldInv ==
    /\ pc = "done" => Keeps = Owned
    /\ pc \in {"snapshot", "interfaces"} => Keeps = {}
    /\ pc = "look" => Keeps = Walking
    /\ pc = "describe" => Keeps = IF backend = "windows" THEN {"device_handle"} ELSE Walking
    /\ pc = "choose" => Keeps = {"list"}
    /\ pc \in Opening /\ backend = "netbsd" => "list" \notin held
    /\ pc = "open" => Keeps \ {"list"} = {}
    /\ pc \in {"linux_open", "mac_entry", "netbsd_drvctl"} => Keeps \ {"list"} = {"dev"}
    /\ pc = "linux_ioctl" => Keeps \ {"list"} = {"dev", "device_handle"}
    /\ pc = "mac_create" => Keeps \ {"list"} = {"dev", "entry"}
    /\ pc = "mac_open" => Keeps \ {"list"} = {"dev", "entry", "IOHIDDevice"}
    /\ pc = "windows_buffers" => Keeps \ {"list"} = {"device_handle"}
    /\ pc = "windows_caps" => Keeps \ {"list"} = {"device_handle", "pp_data"}
    /\ pc = "netbsd_walk" => Keeps \ {"list"} = {"dev", "drvctl"}
    /\ pc = "netbsd_child" => Keeps \ {"list"} = {"dev", "drvctl"} \cup Handles

(* What a call has seen: a plugging tells the device, and where nothing    *)
(* changed since the call began it is still there.                         *)
Remembered(d) ==
    /\ d \in Sightings /\ d.plug <= plugs
    /\ At(d.place) # Absent /\ At(d.place).plug = d.plug => At(d.place).kind = d.kind
    /\ d.place \in steady => StillThere(d)

(* An entry of the list is a device that was seen, although the vendor     *)
(* (on Windows) or the serial number may have been gone when it was asked. *)
EntryOf(e, d) ==
    /\ e.path = PathOf(d) /\ e.place = d.place
    /\ e.serial = Missing \/ e.serial = d.kind.serial
    /\ e.vendor_id = d.kind.vendor_id \/ (e.vendor_id = 0 /\ backend = "windows")
IsSeq(s) == s \in Seq(Range(s))
ListOK(s) == IsSeq(s) /\ \A i \in DOMAIN s : \E d \in Sightings : Remembered(d) /\ EntryOf(s[i], d)
SeenInv ==
    /\ pc \in {"look", "describe"} => \A d \in todo : Remembered(d)
    /\ pc = "describe" => Remembered(current)
    /\ pc \in Listing => ListOK(list)

(***************************************************************************)
(* The steps, by what they are for.                                        *)
(***************************************************************************)
BeginsListing ==
    \/ \E v \in Vendors \cup {0} : hid_enumerate(v)
    \/ \E v \in Vendors, serial \in Serials : hid_open(v, serial)
Finishes == hid_free_enumeration \/ hid_close \/ hid_exit
Listens ==
    \/ libusb_get_device_list \/ udev_enumerate \/ IOHIDManagerCopyDevices
    \/ CM_Get_Device_Interface_List_Size \/ CM_Get_Device_Interface_List \/ netbsd_enumerate
EndsListing == netbsd_walk_again \/ ListEmpty \/ ListAnswered \/ ListSearched

LEMMA Steps ==
    ASSUME [Next]_vars
    PROVE  \/ \E p \in Places : Plug(p)
           \/ BeginsListing \/ \E p \in Paths : hid_open_path(p)
           \/ Finishes \/ Listens \/ Look \/ Describe \/ EndsListing \/ Choose
           \/ OpenPath \/ UNCHANGED vars
BY DEF Next, BeginsListing, Finishes, Listens, EndsListing

(***************************************************************************)
(* Types.                                                                  *)
(***************************************************************************)
LEMMA NoKindFacts == NoKind \notin Kinds /\ Unknown # NoKind
BY DiscoveryAssumption DEF NoKind, Unknown

LEMMA FoundFacts ==
    ASSUME WorldTypeOK, NEW p \in Places, At(p) # Absent
    PROVE  /\ Found(p) \in Sightings /\ Found(p).place = p
           /\ Found(p).kind = At(p).kind /\ Found(p).plug = At(p).plug
           /\ At(p).kind \in Kinds /\ At(p).plug \in Nat
           /\ Found(p) # None
<1>1. PICK k \in Kinds, n \in Nat : At(p) = [kind |-> k, plug |-> n]
  BY DEF WorldTypeOK, Residents, At
<1>2. At(p).kind = k /\ At(p).plug = n
  BY <1>1
<1>3. Found(p) = [place |-> p, kind |-> k, plug |-> n]
  BY <1>2 DEF Found
<1>4. Found(p) \in Sightings
  BY <1>3 DEF Sightings
<1>5. Found(p) # None
  BY <1>3, NoKindFacts DEF None
<1>. QED BY <1>1, <1>2, <1>3, <1>4, <1>5

LEMMA SightingFacts ==
    ASSUME NEW d \in Sightings
    PROVE  /\ d.place \in Places /\ d.kind \in Kinds /\ d.plug \in Nat /\ d # None
           /\ d = [place |-> d.place, kind |-> d.kind, plug |-> d.plug]
BY NoKindFacts DEF Sightings, None

(* Only Plug changes the world, and the beginning of a call what is steady. *)
LEMMA WorldKept ==
    ASSUME [Next]_vars
    PROVE  \/ UNCHANGED worldVars
           \/ \E p \in Places : Plug(p)
           \/ BeginsListing \/ \E p \in Paths : hid_open_path(p)
<1>1. CASE Finishes
  BY <1>1 DEF Finishes, hid_free_enumeration, hid_close, hid_exit
<1>2. CASE Listens
  BY <1>2 DEF Listens, libusb_get_device_list, udev_enumerate, IOHIDManagerCopyDevices,
    CM_Get_Device_Interface_List_Size, CM_Get_Device_Interface_List, netbsd_enumerate, Goes,
    SnapshotFails, Returns
<1>3. CASE Look
  BY <1>3 DEF Look, libusb_look, linux_look, mac_look, windows_look, netbsd_look, Takes,
    Skips, Goes
<1>4. CASE Describe
  BY <1>4 DEF Describe, libusb_describe, linux_describe, mac_describe, windows_describe,
    netbsd_describe, get_hid_report_descriptor, Lists, Goes
<1>5. CASE EndsListing \/ Choose
  BY <1>5 DEF EndsListing, netbsd_walk_again, ListEmpty, ListAnswered, ListSearched, Choose,
    Goes, Returns
<1>6. CASE OpenPath
  BY <1>6 DEF OpenPath, libusb_open_path, new_hid_device, linux_open, linux_ioctl,
    mac_entry, mac_create, mac_open, windows_open, windows_buffers, windows_caps, netbsd_drvctl,
    netbsd_walk, netbsd_child, netbsd_opened, Goes, Returns, Acquires, Fails, Opens
<1>. QED BY <1>1, <1>2, <1>3, <1>4, <1>5, <1>6, Steps DEF vars

LEMMA WorldStep == WorldTypeOK /\ [Next]_vars => WorldTypeOK'
<1>. SUFFICES ASSUME WorldTypeOK, [Next]_vars PROVE WorldTypeOK'
  OBVIOUS
<1>1. CASE UNCHANGED worldVars
  BY <1>1 DEF WorldTypeOK, worldVars
<1>2. ASSUME NEW p \in Places, Plug(p) PROVE WorldTypeOK'
  <2>1. present' \in [Places -> Residents]
    <3>1. CASE present' = [present EXCEPT ![p] = Absent]
      BY <3>1 DEF WorldTypeOK, Residents
    <3>2. ASSUME NEW k \in Kinds, present' = [present EXCEPT ![p] = [kind |-> k, plug |-> plugs + 1]]
          PROVE  present' \in [Places -> Residents]
      <4>1. [kind |-> k, plug |-> plugs + 1] \in Residents
        BY DEF WorldTypeOK, Residents
      <4>. QED BY <3>2, <4>1 DEF WorldTypeOK
    <3>. QED BY <1>2, <3>1, <3>2 DEF Plug
  <2>. QED BY <1>2, <2>1 DEF Plug, WorldTypeOK
<1>3. CASE BeginsListing \/ \E p \in Paths : hid_open_path(p)
  BY <1>3 DEF BeginsListing, hid_enumerate, hid_open, hid_open_path, Calls, WorldTypeOK
<1>. QED BY <1>1, <1>2, <1>3, WorldKept

LEMMA FoundSet ==
    ASSUME WorldTypeOK, NEW S, S \subseteq Occupied
    PROVE  {Found(p) : p \in S} \subseteq Sightings
BY FoundFacts DEF Occupied

LEMMA HubPortsFacts ==
    ASSUME WorldTypeOK, NEW addr
    PROVE  HubPorts(addr) \subseteq Sightings
<1>1. {Found(p) : p \in Occupied} \subseteq Sightings
  BY FoundSet
<1>2. {Found(p) : p \in Occupied \cap {FirstPlace}} \subseteq Sightings
  BY FoundSet
<1>. QED BY <1>1, <1>2 DEF HubPorts

(* A device taken is one of the snapshot, or what is in its place by now.  *)
LEMMA LookFacts ==
    ASSUME TypeOK, Look
    PROVE  \E d \in todo :
             /\ pc = "look" /\ todo' = todo \ {d}
             /\ UNCHANGED <<list, length, path, device, worldVars, call, calls, answer>>
             /\ \/ /\ pc' = "describe" /\ current' \in {d, Found(d.place)} /\ current' \in Sightings
                   /\ current'.place = d.place
                   /\ current' = d \/ At(d.place) # Absent
                   /\ held' = IF backend = "windows" THEN held \cup {"device_handle"} ELSE held
                \/ pc' = "look" /\ UNCHANGED <<current, held>>
<1>1. PICK d \in todo :
        /\ todo' = todo \ {d}
        /\ libusb_look(d) \/ linux_look(d) \/ mac_look(d) \/ windows_look(d) \/ netbsd_look(d)
  BY DEF Look
<1>2. pc = "look" /\ d \in Sightings /\ d.place \in Places
  BY <1>1, SightingFacts DEF Look, TypeOK, TodoTypeOK
<1>3. /\ Skips => /\ pc' = "look" /\ UNCHANGED <<current, list, length, path, device, worldVars>>
                  /\ UNCHANGED <<call, calls, answer>>
      /\ \A e : Takes(e) => /\ pc' = "describe" /\ current' = e
                            /\ UNCHANGED <<list, length, path, device, worldVars>>
                            /\ UNCHANGED <<call, calls, answer>>
  BY DEF Skips, Takes, Goes, callVars
<1>4. CASE libusb_look(d) \/ linux_look(d) \/ mac_look(d)
  BY <1>1, <1>2, <1>3, <1>4 DEF libusb_look, linux_look, mac_look
<1>5. CASE windows_look(d)
  <2>1. Names(PathOf(d), d.place) => At(d.place) # Absent
    BY DEF Names
  <2>. QED BY <1>1, <1>2, <1>3, <1>5, <2>1, FoundFacts DEF windows_look, TypeOK
<1>6. CASE netbsd_look(d)
  BY <1>1, <1>2, <1>3, <1>6, FoundFacts DEF netbsd_look, TypeOK
<1>. QED BY <1>1, <1>4, <1>5, <1>6

LEMMA TodoStep == TypeOK /\ [Next]_vars => TodoTypeOK'
<1>. SUFFICES ASSUME TypeOK, [Next]_vars PROVE TodoTypeOK'
  OBVIOUS
<1>1. CASE todo' \subseteq todo
  BY <1>1 DEF TypeOK, TodoTypeOK, Sightings
<1>2. CASE Listens
  <2>1. CASE todo' = {Found(p) : p \in Occupied}
    BY <2>1, FoundSet DEF TypeOK, TodoTypeOK, Sightings
  <2>2. CASE todo' = {Found(p) : p \in {q \in Occupied : Wanted(At(q).kind.vendor_id)}}
    BY <2>2, FoundSet DEF TypeOK, TodoTypeOK, Sightings
  <2>3. CASE todo' = HubPorts(0)
    BY <2>3, HubPortsFacts DEF TypeOK, TodoTypeOK, Sightings
  <2>. QED BY <1>1, <1>2, <2>1, <2>2, <2>3 DEF Listens, libusb_get_device_list, udev_enumerate,
         IOHIDManagerCopyDevices, CM_Get_Device_Interface_List_Size, CM_Get_Device_Interface_List,
         netbsd_enumerate, SnapshotFails, Snapshots, listVars
<1>3. CASE Look
  BY <1>1, <1>3 DEF Look
<1>4. CASE EndsListing
  <2>1. CASE todo' = HubPorts(1)
    BY <2>1, HubPortsFacts DEF TypeOK, TodoTypeOK, Sightings
  <2>. QED BY <1>1, <1>4, <2>1 DEF EndsListing, netbsd_walk_again, ListEmpty, ListAnswered,
         ListSearched, Enumerated, listVars
<1>5. CASE Finishes \/ BeginsListing \/ \E p \in Paths : hid_open_path(p)
  BY <1>1, <1>5 DEF Finishes, hid_free_enumeration, hid_close, hid_exit, BeginsListing,
    hid_enumerate, hid_open, hid_open_path, listVars
<1>6. CASE Describe \/ Choose
  BY <1>1, <1>6 DEF Describe, libusb_describe, linux_describe, mac_describe, windows_describe,
    netbsd_describe, get_hid_report_descriptor, Lists, Choose, listVars
<1>7. CASE OpenPath
  BY <1>1, <1>7 DEF OpenPath, libusb_open_path, new_hid_device, linux_open, linux_ioctl,
    mac_entry, mac_create, mac_open, windows_open, windows_buffers, windows_caps, netbsd_drvctl,
    netbsd_walk, netbsd_child, netbsd_opened, listVars
<1>8. CASE UNCHANGED vars \/ \E p \in Places : Plug(p)
  BY <1>1, <1>8 DEF vars, Plug, listVars
<1>. QED BY <1>2, <1>3, <1>4, <1>5, <1>6, <1>7, <1>8, Steps

(***************************************************************************)
(* What was seen stays remembered until the next call begins.              *)
(***************************************************************************)
LEMMA FoundRemembered ==
    ASSUME WorldTypeOK, PlugsInv, NEW p \in Places, At(p) # Absent
    PROVE  Remembered(Found(p))
<1>1. StillThere(Found(p))
  BY FoundFacts DEF StillThere, Found, WorldTypeOK, Residents, At
<1>. QED BY <1>1, FoundFacts DEF Remembered, PlugsInv

LEMMA PlugsStep == WorldTypeOK /\ PlugsInv /\ [Next]_vars => PlugsInv'
<1>. SUFFICES ASSUME WorldTypeOK, PlugsInv, [Next]_vars PROVE PlugsInv'
  OBVIOUS
<1>1. CASE UNCHANGED <<present, plugs>>
  BY <1>1 DEF PlugsInv, At
<1>2. ASSUME NEW p \in Places, Plug(p) PROVE PlugsInv'
  <2>1. /\ plugs' = plugs + 1 /\ plugs \in Nat
        /\ \A q \in Places \ {p} : At(q)' = At(q)
        /\ At(p)' = Absent \/ \E k \in Kinds : At(p)' = [kind |-> k, plug |-> plugs + 1]
    BY <1>2 DEF Plug, WorldTypeOK, At
  <2>2. ASSUME NEW q \in Places, At(q)' # Absent PROVE At(q)'.plug <= plugs'
    <3>1. CASE q = p
      BY <2>1, <2>2, <3>1
    <3>2. CASE q # p
      <4>1. At(q)' = At(q) /\ At(q) # Absent /\ At(q).plug <= plugs /\ At(q).plug \in Nat
        BY <2>1, <2>2, <3>2, FoundFacts DEF PlugsInv
      <4>. QED BY <2>1, <4>1
    <3>. QED BY <3>1, <3>2
  <2>. QED BY <2>2 DEF PlugsInv
<1>3. CASE UNCHANGED worldVars \/ BeginsListing \/ \E p \in Paths : hid_open_path(p)
  BY <1>1, <1>3 DEF worldVars, BeginsListing, hid_enumerate, hid_open, hid_open_path, Calls
<1>. QED BY <1>2, <1>3, WorldKept, Steps

LEMMA RememberedStep ==
    ASSUME WorldTypeOK, PlugsInv, NEW d \in Sightings, Remembered(d),
           UNCHANGED <<present, plugs, steady>> \/ \E p \in Places : Plug(p)
    PROVE  Remembered(d)'
<1>1. CASE UNCHANGED <<present, plugs, steady>>
  BY <1>1 DEF Remembered, StillThere, At, Sightings
<1>2. ASSUME NEW p \in Places, Plug(p) PROVE Remembered(d)'
  <2>1. /\ plugs' = plugs + 1 /\ plugs \in Nat /\ steady' = steady \ {p}
        /\ \A q \in Places \ {p} : At(q)' = At(q)
        /\ At(p)' = Absent \/ \E k \in Kinds : At(p)' = [kind |-> k, plug |-> plugs + 1]
    BY <1>2 DEF Plug, WorldTypeOK, At
  <2>2. /\ d.place \in Places /\ d.plug \in Nat /\ d.plug <= plugs
        /\ At(d.place) # Absent /\ At(d.place).plug = d.plug => At(d.place).kind = d.kind
        /\ d.place \in steady => At(d.place) = [kind |-> d.kind, plug |-> d.plug]
    BY SightingFacts DEF Remembered, StillThere
  <2>3. d \in Sightings'
    BY DEF Sightings
  <2>4. CASE d.place = p
    <3>1. At(d.place)' # Absent => At(d.place)'.plug # d.plug
      BY <2>1, <2>2, <2>4
    <3>. QED BY <2>1, <2>2, <2>3, <2>4, <3>1 DEF Remembered, StillThere
  <2>5. CASE d.place # p
    <3>1. At(d.place)' = At(d.place)
      BY <2>1, <2>2, <2>5
    <3>. QED BY <2>1, <2>2, <2>3, <2>5, <3>1 DEF Remembered, StillThere
  <2>. QED BY <2>4, <2>5
<1>. QED BY <1>1, <1>2

(***************************************************************************)
(* The list.                                                               *)
(***************************************************************************)
LEMMA RangeSeq ==
    ASSUME NEW S, NEW q, q \in Seq(S)
    PROVE  IsSeq(q)
<1>. DEFINE T == Range(q)
<1>1. q \in [1..Len(q) -> S] /\ Len(q) \in Nat
  OBVIOUS
<1>2. q \in [1..Len(q) -> T] /\ Len(q) \in Nat
  BY <1>1 DEF Range
<1>3. ASSUME NEW n \in Nat PROVE [1..n -> T] \subseteq Seq(T)
  OBVIOUS
<1>4. q \in Seq(T)
  BY <1>2, <1>3
<1>. QED BY <1>4 DEF IsSeq

LEMMA ConcatFacts ==
    ASSUME NEW s, NEW t, IsSeq(s), IsSeq(t)
    PROVE  /\ IsSeq(s \o t)
           /\ \A i \in DOMAIN (s \o t) :
                \/ \E j \in DOMAIN s : (s \o t)[i] = s[j]
                \/ \E j \in DOMAIN t : (s \o t)[i] = t[j]
<1>. DEFINE S == Range(s) \cup Range(t)
<1>1. s \in Seq(S) /\ t \in Seq(S)
  BY DEF IsSeq, Range
<1>2. /\ s \o t \in Seq(S) /\ DOMAIN s = 1..Len(s) /\ DOMAIN t = 1..Len(t)
      /\ DOMAIN (s \o t) = 1..Len(s) + Len(t) /\ Len(s) \in Nat /\ Len(t) \in Nat
      /\ \A i \in 1..Len(s) : (s \o t)[i] = s[i]
      /\ \A i \in 1..Len(t) : (s \o t)[Len(s) + i] = t[i]
  BY <1>1
<1>3. \A i \in DOMAIN (s \o t) :
        \/ \E j \in DOMAIN s : (s \o t)[i] = s[j]
        \/ \E j \in DOMAIN t : (s \o t)[i] = t[j]
  <2>. SUFFICES ASSUME NEW i \in DOMAIN (s \o t)
                PROVE  \/ \E j \in DOMAIN s : (s \o t)[i] = s[j]
                       \/ \E j \in DOMAIN t : (s \o t)[i] = t[j]
    OBVIOUS
  <2>1. CASE i <= Len(s)
    BY <1>2, <2>1
  <2>2. CASE i > Len(s)
    <3>1. i - Len(s) \in 1..Len(t) /\ i = Len(s) + (i - Len(s))
      BY <1>2, <2>2
    <3>. QED BY <1>2, <3>1
  <2>. QED BY <1>2, <2>1, <2>2
<1>4. s \o t \in Seq(S)
  BY <1>2
<1>. HIDE DEF S
<1>5. IsSeq(s \o t)
  BY <1>4, RangeSeq
<1>. QED BY <1>3, <1>5

LEMMA ListOKAppends ==
    ASSUME NEW s, NEW t, ListOK(s), ListOK(t)
    PROVE  ListOK(s \o t)
<1>1. IsSeq(s) /\ IsSeq(t)
  BY DEF ListOK
<1>2. ASSUME NEW i \in DOMAIN (s \o t)
      PROVE  \E d \in Sightings : Remembered(d) /\ EntryOf((s \o t)[i], d)
  <2>1. CASE \E j \in DOMAIN s : (s \o t)[i] = s[j]
    BY <2>1 DEF ListOK
  <2>2. CASE \E j \in DOMAIN t : (s \o t)[i] = t[j]
    BY <2>2 DEF ListOK
  <2>. QED BY <1>1, <2>1, <2>2, ConcatFacts
<1>. QED BY <1>1, <1>2, ConcatFacts DEF ListOK

LEMMA EmptyOK == ListOK(<<>>)
BY DEF ListOK, IsSeq

LEMMA SingleOK ==
    ASSUME NEW d \in Sightings, Remembered(d), NEW e, EntryOf(e, d)
    PROVE  ListOK(<<e>>)
<1>1. <<e>> \in Seq({e}) /\ DOMAIN <<e>> = {1} /\ <<e>>[1] = e
  OBVIOUS
<1>2. Range(<<e>>) = {e}
  BY <1>1 DEF Range
<1>. QED BY <1>1, <1>2 DEF ListOK, IsSeq

LEMMA EntryFacts ==
    ASSUME NEW d \in Sightings, NEW u
    PROVE  /\ EntryOf(Entry(d, u), d)
           /\ EntryOf([Entry(d, u) EXCEPT !.serial = Missing], d)
           /\ backend = "windows" =>
                EntryOf([Entry(d, u) EXCEPT !.vendor_id = 0, !.serial = Missing], d)
BY DEF EntryOf, Entry

LEMMA PerUsageOK ==
    ASSUME NEW d \in Sightings, Remembered(d), NEW n \in Nat
    PROVE  ListOK(EntryPerUsage(d, n))
<1>. DEFINE s == EntryPerUsage(d, n)
<1>1. DOMAIN s = 1..n /\ \A i \in 1..n : s[i] = Entry(d, i) /\ s[i] \in Range(s)
  BY DEF EntryPerUsage, Range
<1>2. IsSeq(s)
  <2>1. s = [i \in 1..n |-> s[i]]
    BY DEF EntryPerUsage
  <2>2. s \in [1..n -> Range(s)]
    BY <1>1, <2>1
  <2>. QED BY <2>2 DEF IsSeq
<1>. QED BY <1>1, <1>2, EntryFacts DEF ListOK

LEMMA UsagesFacts == \A k \in Kinds : k.usages \in Nat
BY DiscoveryAssumption

LEMMA ListKept ==
    ASSUME WorldTypeOK, PlugsInv, ListOK(list), list' = list, backend' = backend,
           UNCHANGED <<present, plugs, steady>> \/ \E p \in Places : Plug(p)
    PROVE  ListOK(list)'
<1>1. \A e, d : EntryOf(e, d)' <=> EntryOf(e, d)
  BY DEF EntryOf, PathOf
<1>2. \A d \in Sightings : Remembered(d) => Remembered(d)'
  BY RememberedStep
<1>3. Sightings' = Sightings /\ IsSeq(list')
  BY DEF Sightings, ListOK, IsSeq
<1>. QED BY <1>1, <1>2, <1>3 DEF ListOK, IsSeq

(* Describe appends entries of the device that was taken.                  *)
LEMMA DescribeFacts ==
    ASSUME TypeOK, PhaseInv, SeenInv, Describe
    PROVE  \E entries :
             /\ ListOK(entries) /\ list' = list \o entries
             /\ pc' = "look" /\ pc = "describe" /\ current' = None
             /\ UNCHANGED <<todo, length, path, device, worldVars, call, calls, answer>>
<1>. DEFINE d == current
<1>1. d \in Sightings /\ Remembered(d) /\ d.kind \in Kinds /\ d.kind.usages \in Nat
      /\ pc = "describe"
  BY SightingFacts, UsagesFacts DEF TypeOK, CurrentTypeOK, PhaseInv, SeenInv, Describe
<1>2. /\ ListOK(<<Entry(d, 0)>>) /\ ListOK(<<[Entry(d, 0) EXCEPT !.serial = Missing]>>)
      /\ ListOK(EntryPerUsage(d, d.kind.usages))
      /\ backend = "windows" =>
           ListOK(<<[Entry(d, 0) EXCEPT !.vendor_id = 0, !.serial = Missing]>>)
  BY <1>1, SingleOK, EntryFacts, PerUsageOK
<1>3. PICK entries : Lists(entries) /\ ListOK(entries)
  <2>1. CASE libusb_describe(d) \/ linux_describe(d) \/ mac_describe(d)
    <3>1. \/ Lists(<<Entry(d, 0)>>) \/ Lists(<<[Entry(d, 0) EXCEPT !.serial = Missing]>>)
          \/ Lists(EntryPerUsage(d, d.kind.usages)) \/ Lists(<<>>)
      BY <2>1 DEF libusb_describe, linux_describe, mac_describe, get_hid_report_descriptor
    <3>. QED BY <3>1, <1>2, EmptyOK
  <2>2. CASE windows_describe(d)
    <3>1. \/ Lists(<<Entry(d, 0)>>)
          \/ /\ backend = "windows"
             /\ Lists(<<[Entry(d, 0) EXCEPT !.vendor_id = 0, !.serial = Missing]>>)
      BY <2>2 DEF windows_describe
    <3>. QED BY <3>1, <1>2
  <2>3. CASE netbsd_describe(d)
    <3>1. \/ Lists(EntryPerUsage(d, At(d.place).kind.usages)) /\ At(d.place) # Absent
          \/ Lists(<<Entry(d, 0)>>) \/ Lists(<<>>)
      BY <2>3 DEF netbsd_describe, walk_device_tree
    <3>2. At(d.place) # Absent => At(d.place).kind.usages \in Nat
      BY <1>1, SightingFacts, FoundFacts, UsagesFacts DEF TypeOK
    <3>3. At(d.place) # Absent => ListOK(EntryPerUsage(d, At(d.place).kind.usages))
      BY <1>1, <3>2, PerUsageOK
    <3>. QED BY <3>1, <3>3, <1>2, EmptyOK
  <2>. QED BY <2>1, <2>2, <2>3 DEF Describe
<1>. QED BY <1>1, <1>3 DEF Lists, Goes, callVars

(***************************************************************************)
(* What the other steps change.                                            *)
(***************************************************************************)
LEMMA OpenFacts ==
    ASSUME PhaseInv, OpenPath
    PROVE  /\ pc \in Opening /\ pc' \in Opening \cup {"done"}
           /\ UNCHANGED <<todo, list, path, worldVars, call, calls>>
BY DEF PhaseInv, Opening, OpenPath, libusb_open_path, new_hid_device, linux_open, linux_ioctl,
    mac_entry, mac_create, mac_open, windows_open, windows_buffers, windows_caps, netbsd_drvctl,
    netbsd_walk, netbsd_child, netbsd_opened, listVars, callVars, Goes, Returns, Acquires, Fails, Opens

LEMMA FinishFacts ==
    ASSUME Finishes
    PROVE  pc = "done" /\ UNCHANGED <<pc, listVars, path, worldVars>>
BY DEF Finishes, hid_free_enumeration, hid_close, hid_exit, openVars

LEMMA ListensFacts ==
    ASSUME WorldTypeOK, PlugsInv, Listens
    PROVE  /\ pc \in {"snapshot", "interfaces"}
           /\ pc' \in {"done", "snapshot", "interfaces"} \/ (pc' = "look" /\ \A d \in todo' : Remembered(d))
           /\ UNCHANGED <<list, current, path, device, worldVars, call, calls>>
<1>1. /\ \A p \in Occupied : Remembered(Found(p))
      /\ \A d \in HubPorts(0) : Remembered(d)
  BY FoundRemembered DEF Occupied, HubPorts
<1>. QED BY <1>1 DEF Listens, libusb_get_device_list, udev_enumerate,
         IOHIDManagerCopyDevices, CM_Get_Device_Interface_List_Size, CM_Get_Device_Interface_List,
         netbsd_enumerate, SnapshotFails, Snapshots, listVars, openVars, callVars, Goes, Returns

LEMMA EndsFacts ==
    ASSUME WorldTypeOK, PlugsInv, EndsListing
    PROVE  /\ pc = "look" /\ todo = {}
           /\ UNCHANGED <<list, current, path, device, worldVars, call, calls>>
           /\ pc' \in {"done", "choose"} \/ (pc' = "look" /\ \A d \in todo' : Remembered(d))
<1>1. \A d \in HubPorts(1) : Remembered(d)
  BY FoundRemembered DEF Occupied, HubPorts
<1>. QED BY <1>1 DEF EndsListing, netbsd_walk_again, ListEmpty, ListAnswered, ListSearched,
         Enumerated, listVars, openVars, callVars, Goes, Returns

(* Min of the community modules picks a least element: < is well-founded. *)
LEMMA MinFacts ==
    ASSUME NEW S, S \subseteq Nat, S # {}
    PROVE  Min(S) \in S /\ \A y \in S : Min(S) <= y
<1>. DEFINE R == {pair \in Nat \X Nat : pair[1] < pair[2]}
<1>1. IsWellFoundedOn(R, Nat)
  BY NatLessThanWellFounded DEF OpToRel
<1>. HIDE DEF R
<1>2. PICK x \in S : \A y \in S : ~(<<y, x>> \in R)
  BY <1>1, WFMin
<1>3. \A y \in S : x <= y
  <2>. SUFFICES ASSUME NEW y \in S, ~(x <= y) PROVE FALSE
    OBVIOUS
  <2>1. <<y, x>> \in R
    BY DEF R
  <2>. QED BY <1>2, <2>1
<1>. QED BY <1>3, Zenon DEF Min

LEMMA ChooseFacts ==
    ASSUME Choose
    PROVE  /\ pc = "choose" /\ UNCHANGED <<listVars, device, worldVars, call, calls>>
           /\ \/ pc' = "done" /\ path' = path
              \/ \E i \in 1..Len(list) : pc' = "open" /\ path' = list[i].path /\ Matches(list[i])
<1>. DEFINE I == {j \in 1..Len(list) : Matches(list[j])}
            i == SelectInSeq(list, Matches)
<1>1. i = IF I # {} THEN Min(I) ELSE 0
  BY DEF SelectInSeq
<1>2. i # 0 => i \in I
  <2>1. I # {} => Min(I) \in I
    BY MinFacts
  <2>. QED BY <1>1, <2>1
<1>3. CASE i = 0
  BY <1>2, <1>3 DEF Choose, Returns, callVars
<1>4. CASE i # 0
  BY <1>2, <1>4 DEF Choose, Goes, callVars
<1>. QED BY <1>3, <1>4

LEMMA SeenStep == TypeOK /\ PhaseInv /\ SeenInv /\ [Next]_vars => SeenInv'
<1>. SUFFICES ASSUME TypeOK, PhaseInv, SeenInv, [Next]_vars PROVE SeenInv'
  OBVIOUS
<1>0. WorldTypeOK /\ PlugsInv /\ todo \subseteq Sightings
  BY DEF TypeOK, TodoTypeOK
<1>1. CASE UNCHANGED vars \/ \E p \in Places : Plug(p)
  <2>1. /\ UNCHANGED <<present, plugs, steady>> \/ \E p \in Places : Plug(p)
        /\ UNCHANGED <<backend, pc, todo, current, list>>
    BY <1>1 DEF vars, Plug, worldVars, listVars
  <2>2. \A d \in Sightings : Remembered(d) => Remembered(d)'
    BY <1>0, <2>1, RememberedStep
  <2>3. pc \in Listing => ListOK(list)'
    BY <1>0, <2>1, ListKept DEF SeenInv
  <2>4. pc = "describe" => current \in Sightings
    BY DEF TypeOK, CurrentTypeOK, PhaseInv
  <2>5. /\ pc \in {"look", "describe"} => \A d \in todo : Remembered(d)'
        /\ pc = "describe" => Remembered(current)'
    BY <1>0, <2>1, <2>2, <2>4 DEF SeenInv, Remembered, StillThere, At
  <2>. QED BY <2>1, <2>3, <2>5 DEF SeenInv
<1>2. CASE BeginsListing
  <2>1. pc' \in {"snapshot", "done"} /\ list' = <<>>
    BY <1>2 DEF BeginsListing, hid_enumerate, hid_open, hid_init
  <2>2. ListOK(list)'
    BY <2>1, EmptyOK DEF ListOK, IsSeq
  <2>. QED BY <2>1, <2>2 DEF SeenInv
<1>3. CASE \E p \in Paths : hid_open_path(p)
  <2>1. pc' \in {"open", "done"}
    BY <1>3 DEF hid_open_path, hid_init
  <2>. QED BY <2>1 DEF SeenInv, Listing
<1>4. CASE Finishes
  BY <1>4, FinishFacts DEF SeenInv, Listing
<1>a. ASSUME UNCHANGED worldVars
      PROVE  /\ \A d : Remembered(d)' <=> Remembered(d)
             /\ \A s : ListOK(s)' <=> ListOK(s)
  <2>1. /\ \A d : Remembered(d)' <=> Remembered(d)
        /\ Sightings' = Sightings
    BY <1>a DEF Remembered, StillThere, At, Sightings, worldVars
  <2>2. \A e, d : EntryOf(e, d)' <=> EntryOf(e, d)
    BY <1>a DEF EntryOf, PathOf, worldVars
  <2>. QED BY <2>1, <2>2 DEF ListOK, IsSeq
<1>5. CASE Listens
  BY <1>0, <1>5, <1>a, ListensFacts DEF SeenInv, Listing
<1>6. CASE Look
  <2>1. PICK d \in todo :
             /\ pc = "look" /\ todo' = todo \ {d} /\ UNCHANGED <<list, worldVars>>
             /\ \/ /\ pc' = "describe" /\ current' \in {d, Found(d.place)}
                   /\ current' = d \/ At(d.place) # Absent
                \/ pc' = "look"
    BY <1>6, LookFacts
  <2>2. Remembered(d) /\ d.place \in Places
    BY <1>0, <2>1, SightingFacts DEF SeenInv
  <2>3. pc' = "describe" => Remembered(current')
    BY <1>0, <2>1, <2>2, FoundRemembered
  <2>4. ListOK(list')
    BY <2>1 DEF SeenInv, Listing
  <2>5. \A e \in todo' : Remembered(e)
    BY <2>1 DEF SeenInv
  <2>6. /\ \A e \in todo' : Remembered(e)'
        /\ pc' = "describe" => Remembered(current)'
        /\ ListOK(list)'
    <3>1. /\ \A e \in todo' : Remembered(e)'
          /\ pc' = "describe" => Remembered(current')
      BY <1>a, <2>1, <2>3, <2>5
    <3>2. Remembered(current') => Remembered(current)'
      BY <2>1 DEF Remembered, StillThere, At, Sightings, worldVars
    <3>3. ListOK(list)'
      BY <1>a, <2>1, <2>4
    <3>. QED BY <3>1, <3>2, <3>3
  <2>. QED BY <2>6 DEF SeenInv
<1>7. CASE Describe
  <2>1. PICK entries :
             /\ ListOK(entries) /\ list' = list \o entries /\ pc' = "look" /\ pc = "describe"
             /\ UNCHANGED <<todo, worldVars>>
    BY <1>7, DescribeFacts
  <2>2. ListOK(list \o entries)
    BY <2>1, ListOKAppends DEF SeenInv, Listing
  <2>3. ListOK(list)'
    BY <1>a, <2>1, <2>2
  <2>4. \A d \in todo' : Remembered(d)'
    BY <1>a, <2>1 DEF SeenInv
  <2>. QED BY <2>1, <2>3, <2>4 DEF SeenInv
<1>8. CASE EndsListing
  BY <1>0, <1>8, <1>a, EndsFacts DEF SeenInv, Listing
<1>9. CASE Choose
  BY <1>9, ChooseFacts DEF SeenInv, Listing
<1>10. CASE OpenPath
  BY <1>10, OpenFacts DEF SeenInv, Listing, Opening
<1>. QED
  BY <1>1, <1>2, <1>3, <1>4, <1>5, <1>6, <1>7, <1>8, <1>9, <1>10, Steps

LEMMA PathPlace ==
    ASSUME NEW d \in Sightings
    PROVE  PathOf(d)[1] = d.place
BY DEF PathOf

LEMMA PathStep == TypeOK /\ PhaseInv /\ SeenInv /\ [Next]_vars => PathTypeOK'
<1>. SUFFICES ASSUME TypeOK, PhaseInv, SeenInv, [Next]_vars PROVE PathTypeOK'
  OBVIOUS
<1>1. CASE UNCHANGED path
  BY <1>1 DEF TypeOK, PathTypeOK, BadPath
<1>2. CASE \E p \in Paths : hid_open_path(p)
  <2>1. PICK p \in Paths : path' = p
    BY <1>2 DEF hid_open_path
  <2>2. ASSUME NEW q \in Places, NEW k \in Kinds, NEW n \in 0..plugs
        PROVE  PathOf([place |-> q, kind |-> k, plug |-> n])[1] \in Places
    BY DEF PathOf
  <2>3. CASE p = BadPath
    BY <2>1, <2>3 DEF PathTypeOK, BadPath
  <2>4. CASE p # BadPath
    <3>1. PICK q \in Places, k \in Kinds, n \in 0..plugs :
               p = PathOf([place |-> q, kind |-> k, plug |-> n])
      BY <2>4 DEF Paths
    <3>2. p[1] \in Places
      BY <2>2, <3>1
    <3>. QED BY <2>1, <3>2 DEF PathTypeOK
  <2>. QED BY <2>3, <2>4
<1>3. CASE Choose
  <2>1. ASSUME NEW i \in 1..Len(list) PROVE list[i].path[1] \in Places
    <3>1. pc = "choose"
      BY <1>3, ChooseFacts
    <3>2. DOMAIN list = 1..Len(list)
      BY <3>1 DEF SeenInv, Listing, ListOK, IsSeq
    <3>3. PICK d \in Sightings : EntryOf(list[i], d)
      BY <3>1, <3>2 DEF SeenInv, Listing, ListOK
    <3>. QED BY <3>3, PathPlace, SightingFacts DEF EntryOf
  <2>. QED BY <1>1, <1>3, <2>1, ChooseFacts DEF PathTypeOK
<1>4. CASE Look \/ Describe
  BY <1>1, <1>4, LookFacts, DescribeFacts
<1>5. CASE Listens \/ EndsListing \/ Finishes \/ OpenPath
  BY <1>1, <1>5, ListensFacts, EndsFacts, FinishFacts, OpenFacts DEF TypeOK
<1>6. CASE BeginsListing \/ UNCHANGED vars \/ \E p \in Places : Plug(p)
  BY <1>1, <1>6 DEF BeginsListing, hid_enumerate, hid_open, vars, Plug, openVars
<1>. QED BY <1>2, <1>3, <1>4, <1>5, <1>6, Steps

LEMMA NamesFacts ==
    ASSUME WorldTypeOK, NEW p \in Places, NEW q, Names(q, p)
    PROVE  /\ Found(p) \in Sightings /\ Found(p) # None /\ At(p) # Absent /\ PathOf(Found(p)) = q
           /\ At(p).kind \in Kinds /\ Found(p).kind = At(p).kind /\ Found(p).place = p /\ q[1] = p
BY FoundFacts, PathPlace DEF Names

LEMMA CurrentStep == TypeOK /\ PhaseInv /\ SeenInv /\ [Next]_vars => CurrentTypeOK'
<1>. SUFFICES ASSUME TypeOK, PhaseInv, SeenInv, [Next]_vars PROVE CurrentTypeOK'
  OBVIOUS
<1>1. CASE UNCHANGED current \/ current' = None \/ current' \in Sightings
  BY <1>1 DEF TypeOK, CurrentTypeOK, Sightings, None
<1>2. CASE Look \/ Describe
  BY <1>1, <1>2, LookFacts, DescribeFacts
<1>3. CASE Listens \/ EndsListing \/ Finishes \/ Choose
  BY <1>1, <1>3, ListensFacts, EndsFacts, FinishFacts, ChooseFacts DEF TypeOK, listVars
<1>4. CASE BeginsListing \/ \E p \in Paths : hid_open_path(p)
  BY <1>1, <1>4 DEF BeginsListing, hid_enumerate, hid_open, hid_open_path, listVars
<1>6. CASE linux_open \/ mac_entry \/ windows_open
  BY <1>1, <1>6, NamesFacts DEF linux_open, mac_entry, windows_open, TypeOK
<1>7. CASE netbsd_child
  <2>1. path[1] \in Places
    BY <1>7 DEF netbsd_child, PhaseInv, TypeOK, PathTypeOK
  <2>2. CASE Names(path, path[1]) /\ current' = Found(path[1])
    BY <1>1, <2>1, <2>2, NamesFacts DEF TypeOK
  <2>. QED BY <1>1, <1>7, <2>2 DEF netbsd_child
<1>8. CASE \/ libusb_open_path \/ new_hid_device \/ linux_ioctl \/ mac_create \/ mac_open
           \/ windows_buffers \/ windows_caps \/ netbsd_drvctl \/ netbsd_walk \/ netbsd_opened
  BY <1>1, <1>8 DEF libusb_open_path, new_hid_device, linux_ioctl, mac_create, mac_open,
    windows_buffers, windows_caps, netbsd_drvctl, netbsd_walk, netbsd_opened, listVars
<1>9. CASE UNCHANGED vars \/ \E p \in Places : Plug(p)
  BY <1>1, <1>9 DEF vars, Plug, listVars
<1>. QED BY <1>2, <1>3, <1>4, <1>6, <1>7, <1>8, <1>9, Steps DEF OpenPath

LEMMA TypeStep == TypeOK /\ PhaseInv /\ SeenInv /\ [Next]_vars => TypeOK'
BY WorldStep, PlugsStep, CurrentStep, TodoStep, PathStep DEF TypeOK

(***************************************************************************)
(* Where a call is.                                                        *)
(***************************************************************************)
(* A call begins when nothing is open and no list is to be freed.          *)
LEMMA NothingOwned ==
    ASSUME HeldInv, pc = "done", held \subseteq {"lost drvctl"}
    PROVE  answer # "list" /\ device = NoKind
BY DEF HeldInv, Keeps, Owned

LEMMA ChildPhase == PhaseInv /\ pc = "netbsd_child" => path # BadPath /\ length \in Nat
BY Zenon DEF PhaseInv

LEMMA PhaseStep == TypeOK /\ PhaseInv /\ SeenInv /\ HeldInv /\ [Next]_vars => PhaseInv'
<1>. SUFFICES ASSUME TypeOK, PhaseInv, SeenInv, HeldInv, [Next]_vars PROVE PhaseInv'
  OBVIOUS
<1>1. CASE UNCHANGED vars \/ \E p \in Places : Plug(p)
  <2>1. UNCHANGED <<backend, pc, call, current, path, device, answer, length>>
    BY <1>1 DEF vars, Plug, worldVars, callVars, listVars, openVars
  <2>. QED BY <2>1 DEF PhaseInv
<1>2. CASE BeginsListing
  <2>1. /\ pc = "done" /\ held \subseteq {"lost drvctl"} /\ pc' \in {"done", "snapshot"}
        /\ UNCHANGED <<backend, device>> /\ call'.function \in {"hid_enumerate", "hid_open"}
        /\ answer' \in {answer, "NULL"}
    <3>1. ASSUME NEW f, NEW v, NEW serial, Calls(f, v, serial), hid_init("snapshot")
          PROVE  /\ pc = "done" /\ held \subseteq {"lost drvctl"} /\ pc' \in {"done", "snapshot"}
                 /\ UNCHANGED <<backend, device>> /\ call'.function = f
                 /\ answer' \in {answer, "NULL"}
      BY <3>1 DEF hid_init, Calls
    <3>. QED BY <1>2, <3>1, Zenon DEF BeginsListing, hid_enumerate, hid_open
  <2>. QED BY <2>1, NothingOwned DEF PhaseInv, Listing, Opening
<1>3. CASE \E p \in Paths : hid_open_path(p)
  <2>1. /\ pc = "done" /\ held \subseteq {"lost drvctl"} /\ pc' \in {"done", "open"}
        /\ UNCHANGED <<backend, device>> /\ answer' \in {answer, "NULL"}
    BY <1>3 DEF hid_open_path, hid_init, Calls
  <2>. QED BY <2>1, NothingOwned DEF PhaseInv, Listing, Opening
<1>4. CASE Finishes
  <2>1. pc = "done" /\ pc' = "done" /\ answer' \in {"freed", "closed", "0"}
    BY <1>4 DEF Finishes, hid_free_enumeration, hid_close, hid_exit
  <2>. QED BY <2>1 DEF PhaseInv, Listing, Opening
<1>5. CASE Listens
  <2>1. /\ pc \in {"snapshot", "interfaces"} /\ pc' \in {"done", "snapshot", "interfaces", "look"}
        /\ UNCHANGED <<device, backend, call>>
        /\ pc' = "interfaces" => backend = "windows"
    BY <1>5, ListensFacts DEF TypeOK, Listens, libusb_get_device_list, udev_enumerate,
      IOHIDManagerCopyDevices, CM_Get_Device_Interface_List_Size, CM_Get_Device_Interface_List,
      netbsd_enumerate, SnapshotFails, Goes, Returns, worldVars
  <2>. QED BY <2>1 DEF PhaseInv, Listing, Opening
<1>6. CASE Look
  <2>1. /\ pc = "look" /\ pc' \in {"look", "describe"} /\ UNCHANGED <<device, backend, call>>
        /\ pc' = "describe" => current' \in Sightings
    BY <1>6, LookFacts DEF worldVars
  <2>. QED BY <2>1, SightingFacts DEF PhaseInv, Listing, Opening, None
<1>7. CASE Describe
  <2>1. pc = "describe" /\ pc' = "look" /\ UNCHANGED <<device, backend, call>>
    BY <1>7, DescribeFacts DEF worldVars
  <2>. QED BY <2>1 DEF PhaseInv, Listing, Opening
<1>8. CASE EndsListing
  <2>1. pc = "look" /\ pc' \in {"done", "choose", "look"} /\ UNCHANGED <<device, backend, call>>
    BY <1>8, EndsFacts DEF worldVars, TypeOK
  <2>. QED BY <2>1 DEF PhaseInv, Listing, Opening
<1>9. CASE Choose
  <2>1. /\ pc = "choose" /\ pc' \in {"done", "open"} /\ UNCHANGED <<device, backend, call>>
        /\ pc' = "done" => answer' = "NULL"
    BY <1>9, ChooseFacts DEF worldVars, Choose, Returns, Goes
  <2>. QED BY <2>1 DEF PhaseInv, Listing, Opening
<1>10. CASE OpenPath
  <2>1. /\ pc \in Opening /\ pc' \in Opening \cup {"done"} /\ device = NoKind
        /\ UNCHANGED <<path, backend, call>>
    BY <1>10, OpenFacts DEF worldVars, PhaseInv, Opening
  <2>2. /\ pc' = "done" => answer' # "list"
        /\ pc' # "done" => device' = device
        /\ pc' \in {"windows_buffers", "windows_caps"} => backend = "windows"
        /\ pc' \in {"linux_open", "linux_ioctl"} => backend = "linux"
        /\ pc' \in {"mac_entry", "mac_create", "mac_open"} => backend = "mac"
        /\ pc' \in {"netbsd_drvctl", "netbsd_walk", "netbsd_child"} => backend = "netbsd"
        /\ pc' = "netbsd_child" => path # BadPath /\ length' \in Nat
    <3>1. CASE libusb_open_path \/ new_hid_device \/ linux_open \/ linux_ioctl
      BY <3>1 DEF PhaseInv, libusb_open_path, new_hid_device, linux_open, linux_ioctl, Acquires,
        Goes, Opens, Fails, Returns
    <3>2. CASE mac_entry \/ mac_create \/ mac_open \/ windows_open \/ windows_buffers \/ windows_caps
      BY <3>2 DEF PhaseInv, mac_entry, mac_create, mac_open, windows_open, windows_buffers,
        windows_caps, Acquires, Goes, Opens, Fails, Returns
    <3>3. path # BadPath => walk_device_tree(path[1]) \in Nat
      BY NamesFacts, DiscoveryAssumption, FoundFacts DEF TypeOK, PathTypeOK, walk_device_tree
    <3>4. CASE netbsd_walk
      BY <3>3, <3>4 DEF PhaseInv, netbsd_walk, Acquires, Goes, Fails, Returns
    <3>5. CASE netbsd_drvctl \/ netbsd_opened
      BY <3>5 DEF PhaseInv, netbsd_drvctl, netbsd_opened, Acquires, Goes, Fails, Returns
    <3>6. CASE netbsd_child
      <4>1. pc = "netbsd_child" /\ length > 0 /\ (length' = length \/ length' = length - 1)
        BY <3>6 DEF netbsd_child
      <4>2. path # BadPath /\ length \in Nat
        BY <4>1, ChildPhase
      <4>3. length' \in Nat
        BY <4>1, <4>2
      <4>. QED BY <3>6, <4>1, <4>2, <4>3 DEF PhaseInv, netbsd_child, Acquires, Goes, Fails, Returns
    <3>. QED BY <1>10, <3>1, <3>2, <3>4, <3>5, <3>6 DEF OpenPath
  <2>3. pc' \in {"mac_create", "mac_open", "windows_buffers", "windows_caps"} => current' # None
    <3>1. CASE mac_entry \/ windows_open
      BY <3>1, NamesFacts DEF TypeOK, mac_entry, windows_open, Acquires, Goes, Fails, Returns
    <3>2. CASE mac_create \/ mac_open \/ windows_buffers \/ windows_caps
      BY <3>2 DEF PhaseInv, mac_create, mac_open, windows_buffers, windows_caps, listVars,
        Acquires, Goes, Opens, Fails, Returns
    <3>3. CASE libusb_open_path \/ new_hid_device \/ linux_open \/ linux_ioctl
      BY <3>3 DEF libusb_open_path, new_hid_device, linux_open, linux_ioctl, Acquires,
        Goes, Opens, Fails, Returns
    <3>4. CASE netbsd_drvctl \/ netbsd_walk \/ netbsd_child \/ netbsd_opened
      BY <3>4 DEF netbsd_drvctl, netbsd_walk, netbsd_child, netbsd_opened, Acquires,
        Goes, Fails, Returns
    <3>. QED BY <1>10, <3>1, <3>2, <3>3, <3>4 DEF OpenPath
  <2>. QED
    <3>1. None' = None
      BY DEF None
    <3>. QED BY <2>1, <2>2, <2>3, <3>1 DEF PhaseInv, Listing, Opening
<1>. QED
  BY <1>1, <1>2, <1>3, <1>4, <1>5, <1>6, <1>7, <1>8, <1>9, <1>10, Steps

(***************************************************************************)
(* What a call holds.                                                      *)
(***************************************************************************)
Own == {"list", "drvctl", "lost drvctl", "dev", "device_handle", "entry", "IOHIDDevice", "pp_data"}

LEMMA ChildFacts == Range(Children) \cap Own = {}
BY ChildrenAssumption DEF Own

(* A child opened on NetBSD is one of those that have names.               *)
LEMMA WalkedFacts ==
    ASSUME TypeOK, NEW n, n > 0, n <= At(path[1]).kind.ids, Names(path, path[1]), n \in Int,
           path # BadPath
    PROVE  Children[n] \in Range(Children)
<1>1. path[1] \in Places
  BY DEF TypeOK, PathTypeOK
<1>2. At(path[1]).kind.ids \in 1..Len(Children)
  BY <1>1, NamesFacts, DiscoveryAssumption DEF TypeOK
<1>3. Len(Children) \in Nat /\ DOMAIN Children = 1..Len(Children)
  <2>1. ASSUME NEW S, NEW q \in Seq(S) PROVE Len(q) \in Nat /\ DOMAIN q = 1..Len(q)
    OBVIOUS
  <2>. QED BY <2>1, ChildrenAssumption
<1>4. n \in DOMAIN Children
  BY <1>2, <1>3
<1>. QED BY <1>4 DEF Range

LEMMA HeldStep == TypeOK /\ PhaseInv /\ SeenInv /\ HeldInv /\ [Next]_vars => HeldInv'
<1>. SUFFICES ASSUME TypeOK, PhaseInv, SeenInv, HeldInv, [Next]_vars PROVE HeldInv'
  OBVIOUS
<1>1. CASE UNCHANGED vars \/ \E p \in Places : Plug(p)
  <2>1. UNCHANGED <<backend, pc, held, device, answer>>
    BY <1>1 DEF vars, Plug, worldVars, callVars, listVars, openVars
  <2>2. Keeps' = Keeps /\ Owned' = Owned /\ Walking' = Walking /\ Handles' = Handles
    BY <2>1 DEF Keeps, Owned, Walking, Handles, NoKind, Missing
  <2>. QED BY <2>1, <2>2 DEF HeldInv, Opening
<1>2. CASE BeginsListing \/ \E p \in Paths : hid_open_path(p)
  <2>1. /\ pc = "done" /\ held \subseteq {"lost drvctl"} /\ pc' \in {"done", "snapshot", "open"}
        /\ UNCHANGED <<backend, device, held>> /\ answer' \in {answer, "NULL"}
    <3>1. ASSUME NEW f, NEW v, NEW serial, NEW ready \in {"snapshot", "open"},
                 Calls(f, v, serial), hid_init(ready)
          PROVE  /\ pc = "done" /\ held \subseteq {"lost drvctl"} /\ pc' \in {"done", "snapshot", "open"}
                 /\ UNCHANGED <<backend, device, held>> /\ answer' \in {answer, "NULL"}
      BY <3>1 DEF hid_init, Calls
    <3>. QED BY <1>2, <3>1, Zenon DEF BeginsListing, hid_enumerate, hid_open, hid_open_path
  <2>. QED BY <2>1, NothingOwned DEF HeldInv, Keeps, Owned, Opening
<1>3. CASE hid_free_enumeration
  <2>1. answer = "list" /\ device = NoKind
    BY <1>3, ChildFacts DEF hid_free_enumeration, HeldInv, Keeps, Owned, Handles, Own, PhaseInv
  <2>. QED BY <1>3, <2>1 DEF hid_free_enumeration, HeldInv, Keeps, Owned, Opening
<1>4. CASE hid_exit
  BY <1>4, NothingOwned DEF hid_exit, HeldInv, Keeps, Owned, Opening, worldVars, openVars
<1>5. CASE hid_close
  <2>1. answer # "list" /\ pc = "done"
    BY <1>5 DEF hid_close, PhaseInv
  <2>. QED BY <1>5, <2>1 DEF hid_close, HeldInv, Keeps, Owned, Opening, Handles
<1>6. CASE Listens
  <2>1. /\ Keeps = {} /\ device' = NoKind /\ backend' = backend
        /\ pc' \in {"done", "snapshot", "interfaces", "look"} /\ (pc' = "done" => answer' = "NULL")
        /\ held' = IF pc' = "look" /\ backend = "netbsd" THEN held \cup {"drvctl"} ELSE held
    <3>1. Keeps = {} /\ device' = NoKind /\ backend' = backend
      BY <1>6, ListensFacts DEF TypeOK, HeldInv, PhaseInv, worldVars
    <3>2. CASE libusb_get_device_list \/ udev_enumerate \/ IOHIDManagerCopyDevices
      BY <3>1, <3>2 DEF libusb_get_device_list, udev_enumerate, IOHIDManagerCopyDevices,
        SnapshotFails, Snapshots, Goes, Returns, openVars
    <3>3. CASE CM_Get_Device_Interface_List_Size \/ CM_Get_Device_Interface_List
      BY <3>1, <3>3 DEF CM_Get_Device_Interface_List_Size, CM_Get_Device_Interface_List,
        SnapshotFails, Snapshots, Goes, Returns, openVars, PhaseInv
    <3>4. CASE netbsd_enumerate
      BY <3>1, <3>4 DEF netbsd_enumerate, SnapshotFails, Goes, Returns, openVars
    <3>. QED BY <1>6, <3>1, <3>2, <3>3, <3>4 DEF Listens
  <2>. QED BY <2>1 DEF HeldInv, Keeps, Owned, Opening, Walking
<1>7. CASE Look
  <2>1. /\ pc = "look" /\ backend' = backend
        /\ \/ /\ pc' = "describe"
              /\ held' = IF backend = "windows" THEN held \cup {"device_handle"} ELSE held
           \/ pc' = "look" /\ held' = held
    BY <1>7, LookFacts DEF worldVars
  <2>. QED BY <2>1 DEF HeldInv, Keeps, Opening, Walking
<1>8. CASE Describe
  <2>1. /\ pc = "describe" /\ pc' = "look" /\ backend' = backend
        /\ held' = IF backend = "windows" THEN held \ {"device_handle"} ELSE held
    BY <1>8, DescribeFacts DEF worldVars, Describe, libusb_describe, linux_describe, mac_describe,
      windows_describe, netbsd_describe
  <2>. QED BY <2>1 DEF HeldInv, Keeps, Opening, Walking
<1>9. CASE EndsListing
  <2>1. pc = "look" /\ device' = NoKind /\ backend' = backend
    BY <1>9, EndsFacts DEF TypeOK, PhaseInv, worldVars
  <2>2. \/ pc' = "look" /\ held' = held
        \/ pc' = "done" /\ answer' = "NULL" /\ held' = held \ {"drvctl"}
        \/ pc' = "done" /\ answer' = "list" /\ held' = (held \ {"drvctl"}) \cup {"list"}
        \/ pc' = "choose" /\ held' = (held \ {"drvctl"}) \cup {"list"}
    BY <1>9 DEF EndsListing, netbsd_walk_again, ListEmpty, ListAnswered, ListSearched, Goes,
      Returns, openVars
  <2>. QED BY <2>1, <2>2 DEF HeldInv, Keeps, Owned, Opening, Walking
<1>10. CASE Choose
  <2>1. /\ pc = "choose" /\ device' = NoKind /\ backend' = backend
        /\ \/ pc' = "done" /\ answer' = "NULL" /\ held' = held \ {"list"}
           \/ pc' = "open" /\ held' = IF backend = "netbsd" THEN held \ {"list"} ELSE held
    BY <1>10 DEF Choose, PhaseInv, Goes, Returns, worldVars
  <2>. QED BY <2>1 DEF HeldInv, Keeps, Owned, Opening
<1>11. CASE OpenPath
  <2>0. /\ device = NoKind /\ backend' = backend /\ pc \in Opening
        /\ backend = "netbsd" => "list" \notin held
    BY <1>11, OpenFacts DEF PhaseInv, HeldInv, Opening, worldVars
  <2>1. ASSUME NEW left, pc' = "done", answer' = "NULL", device' = device, held' = left \ {"list"},
               left \ {"list", "lost drvctl"} = {}
        PROVE  HeldInv'
    BY <2>0, <2>1 DEF HeldInv, Keeps, Owned, Opening
  <2>2. ASSUME NEW owned, pc' = "done", answer' = "device", device' # NoKind, backend # "netbsd",
               held' = owned \ {"list"},
               owned \ {"list", "lost drvctl"} =
                 {"dev", "device_handle"} \cup (IF backend = "mac" THEN {"IOHIDDevice"} ELSE {})
        PROVE  HeldInv'
    <3>1. held' \ {"lost drvctl"} =
            {"dev", "device_handle"} \cup (IF backend = "mac" THEN {"IOHIDDevice"} ELSE {})
      BY <2>2
    <3>2. NoKind' = NoKind
      BY DEF NoKind, Missing
    <3>. QED BY <2>0, <2>2, <3>1, <3>2 DEF HeldInv, Keeps, Owned, Opening
  <2>a. ASSUME NEW from, NEW what, NEW left, Fails(from, what, left),
               left \ {"list", "lost drvctl"} = {}
        PROVE  HeldInv'
    BY <2>1, <2>a DEF Fails, Returns
  <2>b. ASSUME NEW from, NEW to, NEW what, Acquires(from, to, what)
        PROVE  /\ pc' = to /\ Keeps' \ {"list"} = (Keeps \ {"list"}) \cup (what \ {"list", "lost drvctl"})
               /\ "list" \notin held /\ "list" \notin what => "list" \notin held'
    BY <2>b DEF Acquires, Goes, Keeps
  <2>3. CASE libusb_open_path
    <3>1. Keeps \ {"list"} = {} /\ backend = "libusb"
      BY <2>3 DEF libusb_open_path, HeldInv
    <3>2. CASE Fails("open", "hid_open_path", held)
      <4>1. (held) \ {"list", "lost drvctl"} = {}
        BY <3>1 DEF Keeps
      <4>. QED BY <2>a, <3>2, <4>1
    <3>3. ASSUME NEW p \in Places, Names(path, p),
                 Opens("open", At(p).kind, held \cup {"dev", "device_handle"})
          PROVE  HeldInv'
      <4>1. At(p).kind # NoKind
        BY <3>3, NamesFacts, NoKindFacts DEF TypeOK
      <4>2. /\ pc' = "done" /\ answer' = "device" /\ device' # NoKind
            /\ held' = (held \cup {"dev", "device_handle"}) \ {"list"}
        BY <3>3, <4>1 DEF Opens, Returns
      <4>3. (held \cup {"dev", "device_handle"}) \ {"list", "lost drvctl"} = {"dev", "device_handle"}
        BY <3>1 DEF Keeps
      <4>. QED BY <2>2, <3>1, <4>2, <4>3
    <3>. QED BY <2>3, <3>2, <3>3 DEF libusb_open_path
  <2>4. CASE new_hid_device
    <3>1. Keeps \ {"list"} = {} /\ pc = "open"
      BY <2>4 DEF new_hid_device, HeldInv, Acquires, Fails, Goes, Returns
    <3>2. CASE Fails("open", "malloc", held)
      <4>1. (held) \ {"list", "lost drvctl"} = {}
        BY <3>1 DEF Keeps
      <4>. QED BY <2>a, <3>2, <4>1
    <3>3. CASE ~Fails("open", "malloc", held)
      <4>1. pc' \in {"linux_open", "mac_entry", "netbsd_drvctl"} /\ held' = held \cup {"dev"}
        BY <2>4, <3>3 DEF new_hid_device, Acquires, Goes
      <4>. QED BY <2>0, <3>1, <4>1 DEF HeldInv, Keeps, Opening
    <3>. QED BY <3>2, <3>3
  <2>5. CASE linux_open
    <3>1. Keeps \ {"list"} = {"dev"} /\ backend = "linux"
      BY <2>5 DEF linux_open, HeldInv, PhaseInv
    <3>2. CASE Fails("linux_open", "open", held \ {"dev"})
      <4>1. (held \ {"dev"}) \ {"list", "lost drvctl"} = {}
        BY <3>1 DEF Keeps
      <4>. QED BY <2>a, <3>2, <4>1
    <3>3. CASE Acquires("linux_open", "linux_ioctl", {"device_handle"})
      <4>1. pc' = "linux_ioctl" /\ Keeps' \ {"list"} = (Keeps \ {"list"}) \cup {"device_handle"}
        BY <2>b, <3>3
      <4>. QED BY <2>0, <2>b, <3>1, <3>3, <4>1 DEF HeldInv, Opening
    <3>. QED BY <2>5, <3>2, <3>3 DEF linux_open
  <2>6. CASE linux_ioctl
    <3>1. Keeps \ {"list"} = {"dev", "device_handle"} /\ backend = "linux"
      BY <2>6 DEF linux_ioctl, HeldInv, PhaseInv
    <3>2. CASE Fails("linux_ioctl", "ioctl(GRDESCSIZE)", held \ {"dev", "device_handle"})
      <4>1. (held \ {"dev", "device_handle"}) \ {"list", "lost drvctl"} = {}
        BY <3>1 DEF Keeps
      <4>. QED BY <2>a, <3>2, <4>1
    <3>3. CASE current # None /\ Opens("linux_ioctl", current.kind, held)
      <4>1. current.kind # NoKind
        BY <3>3, SightingFacts, NoKindFacts DEF TypeOK, CurrentTypeOK
      <4>. QED BY <2>2, <3>1, <3>3, <4>1 DEF Opens, Returns, Keeps
    <3>. QED BY <2>6, <3>2, <3>3 DEF linux_ioctl
  <2>7. CASE mac_entry
    <3>1. Keeps \ {"list"} = {"dev"} /\ backend = "mac"
      BY <2>7 DEF mac_entry, HeldInv, PhaseInv
    <3>2. CASE Fails("mac_entry", "mach entry not found", return_error(held))
      <4>1. (return_error(held)) \ {"list", "lost drvctl"} = {}
        BY <3>1 DEF Keeps, return_error
      <4>. QED BY <2>a, <3>2, <4>1
    <3>3. CASE Acquires("mac_entry", "mac_create", {"entry"})
      <4>1. pc' = "mac_create" /\ Keeps' \ {"list"} = (Keeps \ {"list"}) \cup {"entry"}
        BY <2>b, <3>3
      <4>. QED BY <2>0, <2>b, <3>1, <3>3, <4>1 DEF HeldInv, Opening
    <3>. QED BY <2>7, <3>2, <3>3 DEF mac_entry
  <2>8. CASE mac_create
    <3>1. Keeps \ {"list"} = {"dev", "entry"} /\ backend = "mac"
      BY <2>8 DEF mac_create, HeldInv, PhaseInv
    <3>2. CASE Fails("mac_create", "failed to create IOHIDDevice", return_error(held))
      <4>1. (return_error(held)) \ {"list", "lost drvctl"} = {}
        BY <3>1 DEF Keeps, return_error
      <4>. QED BY <2>a, <3>2, <4>1
    <3>3. CASE Acquires("mac_create", "mac_open", {"IOHIDDevice"})
      <4>1. pc' = "mac_open" /\ Keeps' \ {"list"} = (Keeps \ {"list"}) \cup {"IOHIDDevice"}
        BY <2>b, <3>3
      <4>. QED BY <2>0, <2>b, <3>1, <3>3, <4>1 DEF HeldInv, Opening
    <3>. QED BY <2>8, <3>2, <3>3 DEF mac_create
  <2>9. CASE mac_open
    <3>1. Keeps \ {"list"} = {"dev", "entry", "IOHIDDevice"} /\ backend = "mac" /\ current # None
      BY <2>9 DEF mac_open, HeldInv, PhaseInv
    <3>2. CASE Fails("mac_open", "failed to open IOHIDDevice", return_error(held))
      <4>1. (return_error(held)) \ {"list", "lost drvctl"} = {}
        BY <3>1 DEF Keeps, return_error
      <4>. QED BY <2>a, <3>2, <4>1
    <3>3. CASE Opens("mac_open", current.kind, (held \ {"entry"}) \cup {"device_handle"})
      <4>1. current.kind # NoKind
        BY <3>1, SightingFacts, NoKindFacts DEF TypeOK, CurrentTypeOK
      <4>2. /\ pc' = "done" /\ answer' = "device" /\ device' # NoKind
            /\ held' = ((held \ {"entry"}) \cup {"device_handle"}) \ {"list"}
        BY <3>3, <4>1 DEF Opens, Returns
      <4>3. ((held \ {"entry"}) \cup {"device_handle"}) \ {"list", "lost drvctl"}
              = {"dev", "device_handle"} \cup {"IOHIDDevice"}
        BY <3>1 DEF Keeps
      <4>. QED BY <2>2, <3>1, <4>2, <4>3
    <3>. QED BY <2>9, <3>2, <3>3 DEF mac_open
  <2>10. CASE windows_open
    <3>1. Keeps \ {"list"} = {} /\ backend = "windows"
      BY <2>10 DEF windows_open, HeldInv
    <3>2. CASE Fails("open", "open_device", held)
      <4>1. (held) \ {"list", "lost drvctl"} = {}
        BY <3>1 DEF Keeps
      <4>. QED BY <2>a, <3>2, <4>1
    <3>3. CASE Acquires("open", "windows_buffers", {"device_handle"})
      <4>1. pc' = "windows_buffers" /\ Keeps' \ {"list"} = (Keeps \ {"list"}) \cup {"device_handle"}
        BY <2>b, <3>3
      <4>. QED BY <2>0, <2>b, <3>1, <3>3, <4>1 DEF HeldInv, Opening
    <3>. QED BY <2>10, <3>2, <3>3 DEF windows_open
  <2>11. CASE windows_buffers
    <3>1. Keeps \ {"list"} = {"device_handle"} /\ backend = "windows"
      BY <2>11 DEF windows_buffers, HeldInv, PhaseInv
    <3>2. CASE Fails("windows_buffers", "get preparsed data", held \ {"device_handle"})
      <4>1. (held \ {"device_handle"}) \ {"list", "lost drvctl"} = {}
        BY <3>1 DEF Keeps
      <4>. QED BY <2>a, <3>2, <4>1
    <3>3. CASE Acquires("windows_buffers", "windows_caps", {"pp_data"})
      <4>1. pc' = "windows_caps" /\ Keeps' \ {"list"} = (Keeps \ {"list"}) \cup {"pp_data"}
        BY <2>b, <3>3
      <4>. QED BY <2>0, <2>b, <3>1, <3>3, <4>1 DEF HeldInv, Opening
    <3>. QED BY <2>11, <3>2, <3>3 DEF windows_buffers
  <2>12. CASE windows_caps
    <3>1. Keeps \ {"list"} = {"device_handle", "pp_data"} /\ backend = "windows" /\ current # None
      BY <2>12 DEF windows_caps, HeldInv, PhaseInv
    <3>2. CASE Fails("windows_caps", "HidP_GetCaps", held \ {"pp_data", "device_handle"})
      <4>1. (held \ {"pp_data", "device_handle"}) \ {"list", "lost drvctl"} = {}
        BY <3>1 DEF Keeps
      <4>. QED BY <2>a, <3>2, <4>1
    <3>3. CASE Opens("windows_caps", current.kind, (held \ {"pp_data"}) \cup {"dev"})
      <4>1. current.kind # NoKind
        BY <3>1, SightingFacts, NoKindFacts DEF TypeOK, CurrentTypeOK
      <4>2. /\ pc' = "done" /\ answer' = "device" /\ device' # NoKind
            /\ held' = ((held \ {"pp_data"}) \cup {"dev"}) \ {"list"}
        BY <3>3, <4>1 DEF Opens, Returns
      <4>3. ((held \ {"pp_data"}) \cup {"dev"}) \ {"list", "lost drvctl"} = {"dev", "device_handle"}
        BY <3>1 DEF Keeps
      <4>. QED BY <2>2, <3>1, <4>2, <4>3
    <3>. QED BY <2>12, <3>2, <3>3 DEF windows_caps
  <2>13. CASE netbsd_drvctl
    <3>1. Keeps \ {"list"} = {"dev"} /\ backend = "netbsd"
      BY <2>13 DEF netbsd_drvctl, HeldInv, PhaseInv
    <3>2. CASE Fails("netbsd_drvctl", "failed to open drvctl", held \ {"dev"})
      <4>1. (held \ {"dev"}) \ {"list", "lost drvctl"} = {}
        BY <3>1 DEF Keeps
      <4>. QED BY <2>a, <3>2, <4>1
    <3>3. CASE Acquires("netbsd_drvctl", "netbsd_walk", {"drvctl"})
      <4>1. pc' = "netbsd_walk" /\ Keeps' \ {"list"} = (Keeps \ {"list"}) \cup {"drvctl"}
        BY <2>b, <3>3
      <4>. QED BY <2>0, <2>b, <3>1, <3>3, <4>1 DEF HeldInv, Opening
    <3>. QED BY <2>13, <3>2, <3>3 DEF netbsd_drvctl
  <2>14. CASE netbsd_walk
    <3>1. Keeps \ {"list"} = {"dev", "drvctl"} /\ backend = "netbsd"
      BY <2>14 DEF netbsd_walk, HeldInv, PhaseInv
    <3>2. CASE Fails("netbsd_walk", "not a uhidev device", held \ {"dev", "drvctl"})
      <4>1. (held \ {"dev", "drvctl"}) \ {"list", "lost drvctl"} = {}
        BY <3>1 DEF Keeps
      <4>. QED BY <2>a, <3>2, <4>1
    <3>3. CASE Acquires("netbsd_walk", "netbsd_child", {})
      <4>1. Handles' = {}
        BY <2>0, <3>1, <3>3, ChildFacts DEF Acquires, Handles, Keeps, Own
      <4>. QED BY <2>0, <3>1, <3>3, <4>1 DEF Acquires, Goes, HeldInv, Keeps, Opening
    <3>. QED BY <2>14, <3>2, <3>3 DEF netbsd_walk
  <2>15. CASE netbsd_child
    <3>1. Keeps \ {"list"} = {"dev", "drvctl"} \cup Handles /\ backend = "netbsd"
      BY <2>15 DEF netbsd_child, HeldInv, PhaseInv
    <3>2. CASE Fails("netbsd_child", "failed to open", held \ (Handles \cup {"dev", "drvctl"}))
      <4>1. (held \ (Handles \cup {"dev", "drvctl"})) \ {"list", "lost drvctl"} = {}
        BY <3>1 DEF Keeps
      <4>. QED BY <2>a, <3>2, <4>1
    <3>3. CASE ~Fails("netbsd_child", "failed to open", held \ (Handles \cup {"dev", "drvctl"}))
      <4>1. /\ length <= At(path[1]).kind.ids /\ length > 0 /\ Names(path, path[1])
            /\ Acquires("netbsd_child", "netbsd_child", {Children[length]})
        BY <2>15, <3>3 DEF netbsd_child
      <4>2. Children[length] \in Range(Children)
        <5>1. pc = "netbsd_child"
          BY <2>15 DEF netbsd_child
        <5>2. length \in Int /\ path # BadPath
          BY <5>1, ChildPhase
        <5>. QED BY <4>1, <5>2, WalkedFacts
      <4>3. Handles' = Handles \cup {Children[length]}
        BY <4>1, <4>2 DEF Handles, Acquires
      <4>4. Children[length] \notin Own
        BY <4>2, ChildFacts
      <4>5. pc' = "netbsd_child" /\ held' = held \cup {Children[length]}
        BY <4>1 DEF Acquires, Goes
      <4>6. Keeps' \ {"list"} = {"dev", "drvctl"} \cup Handles'
        BY <3>1, <4>3, <4>4, <4>5 DEF Keeps, Own
      <4>7. "list" \notin held'
        BY <2>0, <3>1, <4>4, <4>5 DEF Own
      <4>. QED BY <2>0, <4>5, <4>6, <4>7 DEF HeldInv, Opening
    <3>. QED BY <3>2, <3>3
  <2>16. CASE netbsd_opened
    <3>1. Keeps \ {"list"} = {"dev", "drvctl"} \cup Handles /\ backend = "netbsd" /\ "list" \notin held
      BY <2>0, <2>16 DEF netbsd_opened, HeldInv, PhaseInv, Returns
    <3>2. device' # NoKind
      BY <2>16, SightingFacts, NoKindFacts DEF netbsd_opened, TypeOK, CurrentTypeOK
    <3>3. /\ pc' = "done" /\ answer' = "device"
          /\ held' = (held \ {"drvctl"}) \cup {"lost drvctl"}
      BY <2>16 DEF netbsd_opened, Returns
    <3>4. Handles' = Handles
      BY <3>3, ChildFacts DEF Handles, Own
    <3>5. Keeps' = {"dev"} \cup Handles'
      BY <3>1, <3>3, <3>4, ChildFacts DEF Keeps, Own, Handles
    <3>6. NoKind' = NoKind
      BY DEF NoKind, Missing
    <3>. QED BY <2>0, <3>1, <3>2, <3>3, <3>5, <3>6 DEF HeldInv, Owned, Opening
  <2>. QED
    BY <1>11, <2>3, <2>4, <2>5, <2>6, <2>7, <2>8, <2>9, <2>10, <2>11, <2>12, <2>13, <2>14,
       <2>15, <2>16 DEF OpenPath
<1>. QED
  BY <1>1, <1>2, <1>3, <1>4, <1>5, <1>6, <1>7, <1>8, <1>9, <1>10, <1>11, Steps DEF Finishes

(***************************************************************************)
(* NULL has a reason.                                                      *)
(***************************************************************************)
LEMMA NullStep == TypeOK /\ PhaseInv /\ SeenInv /\ NullExplained /\ [Next]_vars => NullExplained'
<1>. SUFFICES ASSUME TypeOK, PhaseInv, SeenInv, NullExplained, [Next]_vars, pc' = "done", answer' = "NULL"
              PROVE  \/ error' # NoError
                     \/ backend' = "netbsd" /\ call'.function # "hid_open_path" /\ list' = <<>>
  BY DEF NullExplained, NoError
<1>1. CASE UNCHANGED vars \/ \E p \in Places : Plug(p)
  <2>1. UNCHANGED <<backend, pc, error, call, list, answer>>
    BY <1>1 DEF vars, Plug, callVars, listVars, worldVars
  <2>. QED BY <2>1 DEF NullExplained
<1>2. CASE BeginsListing \/ \E p \in Paths : hid_open_path(p)
  <2>1. ASSUME NEW ready \in {"snapshot", "open"}, hid_init(ready) PROVE error' = "hid_init"
    BY <2>1 DEF hid_init
  <2>2. error' = "hid_init"
    BY <1>2, <2>1 DEF BeginsListing, hid_enumerate, hid_open, hid_open_path
  <2>. QED BY <2>2 DEF NoError
<1>3. CASE Finishes
  BY <1>3 DEF Finishes, hid_free_enumeration, hid_close, hid_exit
<1>4. CASE Listens
  BY <1>4 DEF Listens, libusb_get_device_list, udev_enumerate, IOHIDManagerCopyDevices,
    CM_Get_Device_Interface_List_Size, CM_Get_Device_Interface_List, netbsd_enumerate,
    SnapshotFails, Goes, NoError
<1>5. CASE Look
  BY <1>5, LookFacts
<1>6. CASE Describe
  BY <1>6, DescribeFacts
<1>7. CASE EndsListing
  <2>1. ListEmpty
    BY <1>7 DEF EndsListing, netbsd_walk_again, ListAnswered, ListSearched, Goes, Returns
  <2>2. /\ list' = list /\ list = <<>> /\ call' = call /\ backend' = backend /\ pc = "look"
        /\ error' = EmptyListError
    BY <2>1 DEF ListEmpty, Enumerated, Returns, listVars, worldVars
  <2>3. call.function \in {"hid_enumerate", "hid_open"}
    BY <2>2 DEF PhaseInv, Listing
  <2>. QED BY <2>2, <2>3 DEF EmptyListError, NoError
<1>8. CASE Choose
  BY <1>8 DEF Choose, Goes, NoError
<1>9. CASE OpenPath
  BY <1>9 DEF OpenPath, libusb_open_path, new_hid_device, linux_open, linux_ioctl, mac_entry,
    mac_create, mac_open, windows_open, windows_buffers, windows_caps, netbsd_drvctl, netbsd_walk,
    netbsd_child, netbsd_opened, Goes, Returns, Acquires, Fails, Opens, NoError
<1>. QED BY <1>1, <1>2, <1>3, <1>4, <1>5, <1>6, <1>7, <1>8, <1>9, Steps

(***************************************************************************)
(* What hid_open opens.                                                    *)
(***************************************************************************)
Asked(k) == k.vendor_id = call.vendor_id /\ call.serial \in {AnySerial, k.serial}
Right(k) == Asked(k) \/ (backend \in {"libusb", "linux", "netbsd"} /\ path[1] \notin steady)

(* The path was found with a device of the kind that is asked for.         *)
PathMeant == \E d \in Sightings : Remembered(d) /\ PathOf(d) = path /\ Asked(d.kind)
CallInv ==
    /\ call = [function |-> call.function, vendor_id |-> call.vendor_id, serial |-> call.serial]
    /\ call.function = "hid_open" => call.vendor_id # 0 /\ call.serial # Missing
WishInv ==
    call.function = "hid_open" =>
        /\ pc \in Opening => PathMeant
        /\ pc \in {"linux_ioctl", "mac_create", "mac_open", "windows_buffers", "windows_caps",
                   "netbsd_child"} => current = None \/ Right(current.kind)
        /\ pc = "netbsd_child" /\ current = None => length > 0 \/ path[1] \notin steady
        /\ pc = "done" /\ device # NoKind => Right(device)

(* What is found at the path in the end is what was meant, or something    *)
(* changed there.                                                          *)
LEMMA MeantFacts ==
    ASSUME WorldTypeOK, PathMeant, NEW p \in Places, Names(path, p)
    PROVE  Right(At(p).kind) /\ Right(Found(p).kind)
<1>1. PICK d \in Sightings : Remembered(d) /\ PathOf(d) = path /\ Asked(d.kind)
  BY DEF PathMeant
<1>2. PathOf(Found(p)) = path /\ At(p) # Absent
  BY DEF Names
<1>3. Found(p).place = p /\ Found(p).kind = At(p).kind /\ Found(p).plug = At(p).plug
  BY <1>2, FoundFacts
<1>4. d.place = p /\ path[1] = p
  BY <1>1, <1>2, <1>3, PathPlace, FoundFacts
<1>5. CASE backend = "mac"
  <2>1. PathOf(d)[2] = d.plug /\ PathOf(Found(p))[2] = At(p).plug
    BY <1>3, <1>5 DEF PathOf
  <2>2. At(p).kind = d.kind
    BY <1>1, <1>2, <1>4, <2>1 DEF Remembered
  <2>. QED BY <1>1, <1>3, <2>2 DEF Right
<1>6. CASE backend = "windows"
  <2>1. PathOf(d)[2] = d.kind /\ PathOf(Found(p))[2] = At(p).kind
    BY <1>3, <1>6 DEF PathOf
  <2>. QED BY <1>1, <1>2, <1>3, <2>1 DEF Right
<1>7. CASE backend \in {"libusb", "linux", "netbsd"}
  <2>1. p \in steady => At(p) = [kind |-> d.kind, plug |-> d.plug]
    BY <1>1, <1>4 DEF Remembered, StillThere
  <2>2. p \in steady => At(p).kind = d.kind
    BY <2>1
  <2>. QED BY <1>1, <1>3, <1>4, <1>7, <2>2 DEF Right
<1>. QED BY <1>5, <1>6, <1>7 DEF WorldTypeOK, Systems

LEMMA CallStep == CallInv /\ PhaseInv /\ [Next]_vars => CallInv'
<1>. SUFFICES ASSUME CallInv, PhaseInv, [Next]_vars PROVE CallInv'
  OBVIOUS
<1>1. CASE call' = call
  BY <1>1 DEF CallInv
<1>2. ASSUME NEW f, NEW v, NEW serial, Calls(f, v, serial),
             f = "hid_open" => v # 0 /\ serial # Missing
      PROVE  CallInv'
  <2>1. call' = [function |-> f, vendor_id |-> v, serial |-> serial]
    BY <1>2 DEF Calls
  <2>. QED BY <1>2, <2>1 DEF CallInv, Missing
<1>3. CASE \E v \in Vendors \cup {0} : hid_enumerate(v)
  BY <1>2, <1>3 DEF hid_enumerate
<1>4. CASE \E v \in Vendors, serial \in Serials : hid_open(v, serial)
  <2>1. \A v \in Vendors : v # 0
    BY DiscoveryAssumption DEF Vendors
  <2>2. \A serial \in Serials : serial # Missing
    BY DEF Serials, AnySerial, Missing
  <2>. QED BY <1>2, <1>4, <2>1, <2>2 DEF hid_open
<1>5. CASE \E p \in Paths : hid_open_path(p)
  BY <1>2, <1>5 DEF hid_open_path
<1>6. CASE Finishes
  <2>1. CASE hid_exit
    <3>1. /\ call' = [call EXCEPT !.function = "hid_exit"]
          /\ call = [function |-> call.function, vendor_id |-> call.vendor_id, serial |-> call.serial]
      BY <2>1 DEF hid_exit, CallInv
    <3>2. call' = [function |-> "hid_exit", vendor_id |-> call.vendor_id, serial |-> call.serial]
      BY <3>1
    <3>. QED BY <3>2 DEF CallInv
  <2>. QED BY <1>1, <1>6, <2>1 DEF Finishes, hid_free_enumeration, hid_close
<1>7. CASE UNCHANGED vars \/ \E p \in Places : Plug(p)
  BY <1>1, <1>7 DEF vars, Plug, callVars
<1>8. CASE Listens
  BY <1>1, <1>8 DEF Listens, libusb_get_device_list, udev_enumerate, IOHIDManagerCopyDevices,
    CM_Get_Device_Interface_List_Size, CM_Get_Device_Interface_List, netbsd_enumerate,
    SnapshotFails, Goes, Returns, callVars
<1>9. CASE Look
  BY <1>1, <1>9 DEF Look, libusb_look, linux_look, mac_look, windows_look, netbsd_look, Takes,
    Skips, Goes, callVars
<1>10. CASE Describe
  BY <1>1, <1>10 DEF Describe, libusb_describe, linux_describe, mac_describe, windows_describe,
    netbsd_describe, get_hid_report_descriptor, Lists, Goes, callVars
<1>11. CASE EndsListing
  BY <1>1, <1>11 DEF EndsListing, netbsd_walk_again, ListEmpty, ListAnswered, ListSearched,
    Goes, Returns, callVars
<1>12. CASE Choose \/ OpenPath
  BY <1>1, <1>12, ChooseFacts, OpenFacts
<1>. QED
  BY <1>3, <1>4, <1>5, <1>6, <1>7, <1>8, <1>9, <1>10, <1>11, <1>12, Steps DEF BeginsListing

LEMMA MeantStep ==
    ASSUME WorldTypeOK, PlugsInv, PathMeant, UNCHANGED <<backend, path, call>>,
           UNCHANGED <<present, plugs, steady>> \/ \E p \in Places : Plug(p)
    PROVE  PathMeant'
<1>1. PICK d \in Sightings : Remembered(d) /\ PathOf(d) = path /\ Asked(d.kind)
  BY DEF PathMeant
<1>2. Remembered(d)'
  BY <1>1, RememberedStep
<1>3. d \in Sightings' /\ PathOf(d)' = path' /\ Asked(d.kind)'
  BY <1>1 DEF Sightings, PathOf, Asked
<1>. QED BY <1>2, <1>3 DEF PathMeant

LEMMA RightStep ==
    ASSUME UNCHANGED <<backend, path, call>>, steady' \subseteq steady
    PROVE  \A k : Right(k) => Right(k)'
BY DEF Right, Asked

(* An entry that matches leads to a device that was asked for.             *)
LEMMA MatchMeant ==
    ASSUME CallInv, call.function = "hid_open", ListOK(list), NEW i \in DOMAIN list, Matches(list[i])
    PROVE  \E d \in Sightings : Remembered(d) /\ PathOf(d) = list[i].path /\ Asked(d.kind)
<1>1. PICK d \in Sightings : Remembered(d) /\ EntryOf(list[i], d)
  BY DEF ListOK
<1>2. list[i].path = PathOf(d)
  BY <1>1 DEF EntryOf
<1>3. d.kind.vendor_id = call.vendor_id
  BY <1>1 DEF EntryOf, Matches, CallInv
<1>4. call.serial \in {AnySerial, d.kind.serial}
  BY <1>1 DEF EntryOf, Matches, CallInv
<1>. QED BY <1>1, <1>2, <1>3, <1>4 DEF Asked

LEMMA WishStep ==
    TypeOK /\ SeenInv /\ PhaseInv /\ HeldInv /\ CallInv /\ WishInv /\ [Next]_vars => WishInv'
<1>. SUFFICES ASSUME TypeOK, SeenInv, PhaseInv, HeldInv, CallInv, WishInv, [Next]_vars,
                     call'.function = "hid_open"
              PROVE  WishInv'
  BY DEF WishInv
<1>0. WorldTypeOK /\ PlugsInv
  BY DEF TypeOK
<1>n. None' = None /\ NoKind' = NoKind
  BY DEF None, NoKind, Missing
<1>1. CASE UNCHANGED vars \/ \E p \in Places : Plug(p)
  <2>1. /\ UNCHANGED <<backend, pc, call, current, length, path, device>>
        /\ UNCHANGED <<present, plugs, steady>> \/ \E p \in Places : Plug(p)
        /\ steady' \subseteq steady
    BY <1>1 DEF vars, Plug, worldVars, callVars, listVars, openVars
  <2>2. PathMeant => PathMeant'
    BY <1>0, <2>1, MeantStep
  <2>3. \A k : Right(k) => Right(k)'
    BY <2>1, RightStep
  <2>4. \A p : p \notin steady => p \notin steady'
    BY <2>1
  <2>. QED BY <1>n, <2>1, <2>2, <2>3, <2>4 DEF WishInv, Opening
<1>2. CASE BeginsListing
  <2>1. ASSUME NEW f, NEW v, NEW serial, Calls(f, v, serial), hid_init("snapshot")
        PROVE  pc' \in {"done", "snapshot"} /\ device' = NoKind
    BY <2>1, NothingOwned DEF Calls, hid_init
  <2>2. pc' \in {"done", "snapshot"} /\ device' = NoKind
    BY <1>2, <2>1, Zenon DEF BeginsListing, hid_enumerate, hid_open
  <2>. QED BY <1>n, <2>2 DEF WishInv, Opening
<1>3. ASSUME NEW p \in Paths, hid_open_path(p) PROVE FALSE
  BY <1>3 DEF hid_open_path, Calls
<1>4. CASE Finishes
  <2>1. pc = "done" /\ pc' = "done"
    BY <1>4, FinishFacts
  <2>2. CASE hid_free_enumeration \/ hid_close
    <3>1. UNCHANGED <<backend, path, call, steady>> /\ device' \in {device, NoKind}
      BY <2>2 DEF hid_free_enumeration, hid_close, worldVars
    <3>. QED BY <1>n, <2>1, <3>1, RightStep DEF WishInv, Opening
  <2>3. CASE hid_exit
    <3>1. device' = NoKind
      BY <2>3, NothingOwned DEF hid_exit, openVars
    <3>. QED BY <1>n, <2>1, <3>1 DEF WishInv, Opening
  <2>. QED BY <1>4, <2>2, <2>3 DEF Finishes
<1>5. ASSUME pc' \in Listing \cup {"done"}, device' = NoKind PROVE WishInv'
  BY <1>n, <1>5 DEF WishInv, Opening, Listing
<1>6. CASE Listens \/ Look \/ Describe \/ EndsListing
  <2>1. pc' \in Listing \cup {"done"} /\ pc \in Listing /\ device' = device
    BY <1>0, <1>6, ListensFacts, LookFacts, DescribeFacts, EndsFacts DEF Listing
  <2>. QED BY <1>5, <2>1 DEF PhaseInv, Listing
<1>7. CASE Choose
  <2>1. /\ pc = "choose" /\ UNCHANGED <<listVars, device, worldVars, call, calls>>
        /\ \/ pc' = "done" /\ path' = path
           \/ \E i \in 1..Len(list) : pc' = "open" /\ path' = list[i].path /\ Matches(list[i])
    BY <1>7, ChooseFacts
  <2>2. CASE pc' = "done"
    BY <1>5, <2>1, <2>2 DEF PhaseInv
  <2>3. ASSUME NEW i \in 1..Len(list), pc' = "open", path' = list[i].path, Matches(list[i])
        PROVE  WishInv'
    <3>1. ListOK(list) /\ i \in DOMAIN list
      <4>1. ListOK(list)
        BY <2>1 DEF SeenInv, Listing
      <4>2. ASSUME NEW S, NEW q \in Seq(S) PROVE DOMAIN q = 1..Len(q)
        OBVIOUS
      <4>. QED BY <4>1, <4>2 DEF ListOK, IsSeq
    <3>2. PICK d \in Sightings : Remembered(d) /\ PathOf(d) = list[i].path /\ Asked(d.kind)
      BY <2>1, <2>3, <3>1, MatchMeant
    <3>3. Remembered(d)' /\ d \in Sightings' /\ PathOf(d)' = path' /\ Asked(d.kind)'
      BY <2>1, <2>3, <3>2 DEF Remembered, StillThere, At, Sightings, PathOf, Asked, worldVars
    <3>4. PathMeant'
      BY <3>3 DEF PathMeant
    <3>. QED BY <2>3, <3>4 DEF WishInv
  <2>. QED BY <2>1, <2>2, <2>3
<1>8. CASE OpenPath
  <2>1. /\ pc \in Opening /\ PathMeant /\ call.function = "hid_open" /\ device = NoKind
        /\ UNCHANGED <<list, path, call, backend, present, plugs, steady>>
    BY <1>8, OpenFacts DEF WishInv, worldVars, PhaseInv, Opening
  <2>2. PathMeant' /\ \A k : Right(k)' <=> Right(k)
    <3>1. PathMeant'
      BY <1>0, <2>1, MeantStep
    <3>. QED BY <2>1, <3>1 DEF Right, Asked
  <2>3. ASSUME pc' \in Opening \cup {"done"},
               pc' \in {"linux_ioctl", "mac_create", "mac_open", "windows_buffers", "windows_caps",
                        "netbsd_child"} => current' = None \/ Right(current'.kind),
               pc' = "netbsd_child" /\ current' = None => length' > 0 \/ path[1] \notin steady,
               pc' = "done" /\ device' # NoKind => Right(device')
        PROVE  WishInv'
    BY <1>n, <2>1, <2>2, <2>3 DEF WishInv
  <2>4. \A p \in Places : Names(path, p) => Right(At(p).kind) /\ Right(Found(p).kind)
    BY <1>0, <2>1, MeantFacts
  <2>5. CASE libusb_open_path \/ new_hid_device
    BY <1>8, <2>1, <2>3, <2>4, <2>5, OpenFacts DEF libusb_open_path, new_hid_device, Acquires, Goes,
      Fails, Opens, Returns
  <2>6. CASE linux_open \/ mac_entry \/ windows_open
    BY <1>8, <2>1, <2>3, <2>4, <2>6, OpenFacts DEF linux_open, mac_entry, windows_open, Acquires,
      Goes, Fails, Returns
  <2>7. CASE linux_ioctl \/ mac_create \/ mac_open \/ windows_buffers \/ windows_caps
    <3>1. current = None \/ Right(current.kind)
      BY <2>1, <2>7 DEF WishInv, linux_ioctl, mac_create, mac_open, windows_buffers, windows_caps,
        Acquires, Goes, Fails, Returns
    <3>2. current # None \/ pc = "linux_ioctl"
      BY <2>7 DEF PhaseInv, linux_ioctl, mac_create, mac_open, windows_buffers, windows_caps,
        Acquires, Goes, Fails, Returns
    <3>. QED BY <1>8, <2>1, <2>3, <2>7, <3>1, <3>2, OpenFacts DEF linux_ioctl, mac_create, mac_open,
           windows_buffers, windows_caps, listVars, Acquires, Goes, Fails, Opens, Returns
  <2>8. CASE netbsd_drvctl
    BY <1>8, <2>1, <2>3, <2>8, OpenFacts DEF netbsd_drvctl, Acquires, Goes, Fails, Returns
  <2>9. CASE netbsd_walk
    <3>1. path # BadPath => length' > 0 \/ path[1] \notin steady \/ pc' = "done"
      <4>1. PICK d \in Sightings : Remembered(d) /\ PathOf(d) = path
        BY <2>1 DEF PathMeant
      <4>2. path[1] = d.place /\ d.place \in Places
        BY <4>1, PathPlace, SightingFacts
      <4>3. d.place \in steady => At(d.place) = [kind |-> d.kind, plug |-> d.plug]
        BY <4>1 DEF Remembered, StillThere
      <4>4. d.kind \in Kinds /\ d.kind # NoKind /\ d.kind.ids > 0
        BY NoKindFacts, SightingFacts, DiscoveryAssumption
      <4>5. d.place \in steady => At(d.place) # Absent /\ At(d.place).kind.ids > 0
        BY <4>3, <4>4 DEF Absent
      <4>. QED BY <2>9, <4>2, <4>5 DEF netbsd_walk, walk_device_tree, Fails, Returns
    <3>2. \/ path # BadPath /\ pc' = "netbsd_child" /\ current' = None
          \/ pc' = "done" /\ device' = device
      BY <2>9 DEF netbsd_walk, Acquires, Goes, Fails, Returns
    <3>. QED BY <2>1, <2>3, <3>1, <3>2 DEF Opening
  <2>10. CASE netbsd_child
    <3>1. path[1] \in Places
      BY <2>10, ChildPhase DEF netbsd_child, TypeOK, PathTypeOK
    <3>2. CASE Fails("netbsd_child", "failed to open", held \ (Handles \cup {"dev", "drvctl"}))
      BY <2>1, <2>3, <3>2 DEF Fails, Returns
    <3>3. CASE Names(path, path[1]) /\ current' = Found(path[1])
               /\ Acquires("netbsd_child", "netbsd_child", {Children[length]})
      <4>1. Right(current'.kind) /\ current' # None /\ pc' = "netbsd_child"
        BY <1>0, <2>4, <3>1, <3>3, NamesFacts DEF Acquires, Goes
      <4>. QED BY <2>3, <4>1 DEF Opening
    <3>. QED BY <2>10, <3>2, <3>3 DEF netbsd_child
  <2>11. CASE netbsd_opened
    <3>1. pc = "netbsd_child" /\ pc' = "done" /\ length = 0 /\ backend = "netbsd"
      BY <2>11 DEF netbsd_opened, Returns, PhaseInv
    <3>2. device' = IF current = None THEN Unknown ELSE current.kind
      BY <2>11 DEF netbsd_opened
    <3>3. current = None => path[1] \notin steady
      BY <2>1, <3>1 DEF WishInv
    <3>4. Right(device')
      BY <2>1, <3>1, <3>2, <3>3 DEF WishInv, Right
    <3>. QED BY <2>3, <3>1, <3>4
  <2>. QED BY <1>8, <2>5, <2>6, <2>7, <2>8, <2>9, <2>10, <2>11 DEF OpenPath
<1>. QED BY <1>1, <1>2, <1>3, <1>4, <1>6, <1>7, <1>8, Steps

(***************************************************************************)
(* The theorems.                                                           *)
(***************************************************************************)
IInv == TypeOK /\ SeenInv /\ PhaseInv /\ HeldInv /\ NullExplained /\ CallInv /\ WishInv

LEMMA InitInvariant == Init => IInv
<1>. SUFFICES ASSUME Init PROVE IInv
  OBVIOUS
<1>1. present \in [Places -> Residents]
  <2>1. {Absent} \cup {[kind |-> k, plug |-> 0] : k \in Kinds} \subseteq Residents
    BY DEF Residents
  <2>. QED BY <2>1 DEF Init
<1>2. WorldTypeOK
  BY <1>1, DiscoveryAssumption DEF Init, WorldTypeOK, Systems
<1>3. PlugsInv
  <2>1. ASSUME NEW p \in Places, At(p) # Absent PROVE At(p).plug <= plugs
    <3>1. PICK k \in Kinds : At(p) = [kind |-> k, plug |-> 0]
      BY <2>1 DEF Init, At
    <3>2. At(p).plug = 0
      BY <3>1
    <3>. QED BY <3>2 DEF Init
  <2>. QED BY <2>1 DEF PlugsInv
<1>4. CurrentTypeOK /\ TodoTypeOK /\ PathTypeOK
  BY DEF Init, CurrentTypeOK, TodoTypeOK, PathTypeOK
<1>5. SeenInv /\ NullExplained
  BY DEF Init, SeenInv, NullExplained, Listing
<1>6. PhaseInv
  BY DEF Init, PhaseInv, Listing, Opening
<1>7. HeldInv
  BY DEF Init, HeldInv, Keeps, Owned, Opening
<1>8. CallInv /\ WishInv
  BY DEF Init, CallInv, WishInv
<1>. QED BY <1>2, <1>3, <1>4, <1>5, <1>6, <1>7, <1>8 DEF TypeOK, IInv

(* In every backend, whatever is plugged in or out between the requests of *)
(* a call and whichever of them fails, the call is at a known step and     *)
(* holds what that step says.                                              *)
THEOREM Invariance == Spec => []IInv
<1>1. Init => IInv
  BY InitInvariant
<1>2. IInv /\ [Next]_vars => IInv'
  BY TypeStep, SeenStep, PhaseStep, HeldStep, NullStep, CallStep, WishStep, Zenon DEF IInv
<1>. QED BY <1>1, <1>2, PTL DEF Spec

(* The variables of hid_enumerate and hid_open keep their types.           *)
THEOREM TypeCorrect == Spec => []TypeOK
<1>1. IInv => TypeOK
  BY Zenon DEF IInv
<1>. QED BY <1>1, Invariance, PTL

(* The error paths of hid_enumerate, hid_open and hid_open_path release    *)
(* all that was acquired before them: between calls there is nothing but   *)
(* the list or the device with its handles.                                *)
THEOREM NothingIsLeaked == Spec => []NothingLeaked
<1>1. IInv => NothingLeaked
  BY Zenon DEF IInv, HeldInv, Keeps, NothingLeaked
<1>. QED BY <1>1, Invariance, PTL

(* When hid_enumerate, hid_open or hid_open_path returns NULL the global   *)
(* error says why, but for NetBSD's empty list.                            *)
THEOREM NullIsExplained == Spec => []NullExplained
<1>1. IInv => NullExplained
  BY Zenon DEF IInv
<1>. QED BY <1>1, Invariance, PTL

(* hid_open opens by a path it found earlier; the device it then finds     *)
(* there is one with the vendor and the serial number asked for, or the    *)
(* path names a place where something changed since.                       *)
THEOREM OpensWhatWasAsked == Spec => []OpenedIsRequested
<1>1. IInv => OpenedIsRequested
  BY Zenon DEF IInv, WishInv, Right, Asked, OpenedIsRequested
<1>. QED BY <1>1, Invariance, PTL

(***************************************************************************)
(* The list is complete, and says nothing twice.                           *)
(***************************************************************************)
Sought(p) == p \in steady \cap Occupied /\ Wanted(At(p).kind.vendor_id)
WellListed(p) == UsagesIn(list, p) \in {UsagesOf(At(p).kind), {0}} /\ NoneTwice(list, p)
Unlisted(p) == \A i \in DOMAIN list : list[i].place # p

(* Still to be looked at, or to be described.                              *)
Coming(p) == (\E d \in todo : d.place = p) \/ (pc = "describe" /\ current.place = p)

(* NetBSD, before the walk of address 1, where the hub with that address   *)
(* is the root.                                                            *)
NotWalkedYet == backend = "netbsd" /\ root_hub = 1 /\ length = 0

(* While the list is built every device that is there all the time is      *)
(* either to come, and not listed yet, or listed as it should be.          *)
SnapshotInv ==
    /\ \A d, e \in todo : d.place = e.place => d = e
    /\ pc = "describe" => \A d \in todo : d.place # current.place
    /\ pc = "describe" /\ current.place \in steady => Wanted(current.kind.vendor_id)
    /\ backend = "mac" => \A d \in todo : Wanted(d.kind.vendor_id)
    /\ NotWalkedYet => todo = {} /\ list = <<>> /\ pc = "look"
ListingInv ==
    /\ \A p \in steady : Coming(p) => Unlisted(p)
    /\ \A p \in Places : Sought(p) => Coming(p) \/ WellListed(p) \/ NotWalkedYet
    /\ \A i \in DOMAIN list : Wanted(list[i].vendor_id) \/ list[i].place \notin steady
OnceInv ==
    /\ root_hub \in {0, 1}
    /\ pc \in {"snapshot", "interfaces"} => list = <<>>
    /\ pc \in {"look", "describe"} => SnapshotInv /\ ListingInv
    /\ ListedOnce

(* What is appended for one place says nothing of the others.              *)
LEMMA ConcatIndices ==
    ASSUME NEW s, NEW t, IsSeq(s), IsSeq(t)
    PROVE  /\ DOMAIN s = 1..Len(s) /\ DOMAIN t = 1..Len(t) /\ Len(s) \in Nat /\ Len(t) \in Nat
           /\ DOMAIN (s \o t) = 1..Len(s) + Len(t)
           /\ \A i \in 1..Len(s) : (s \o t)[i] = s[i]
           /\ \A i \in 1..Len(t) : (s \o t)[Len(s) + i] = t[i]
           /\ \A i \in DOMAIN (s \o t) :
                i \in 1..Len(s) \/ \E j \in 1..Len(t) : i = Len(s) + j
<1>. DEFINE S == Range(s) \cup Range(t)
<1>1. s \in Seq(S) /\ t \in Seq(S)
  BY DEF IsSeq, Range
<1>2. /\ DOMAIN s = 1..Len(s) /\ DOMAIN t = 1..Len(t)
      /\ DOMAIN (s \o t) = 1..Len(s) + Len(t) /\ Len(s) \in Nat /\ Len(t) \in Nat
      /\ \A i \in 1..Len(s) : (s \o t)[i] = s[i]
      /\ \A i \in 1..Len(t) : (s \o t)[Len(s) + i] = t[i]
  BY <1>1
<1>3. ASSUME NEW i \in 1..Len(s) + Len(t), i \notin 1..Len(s)
      PROVE  \E j \in 1..Len(t) : i = Len(s) + j
  <2>1. i - Len(s) \in 1..Len(t) /\ i = Len(s) + (i - Len(s))
    BY <1>2, <1>3
  <2>. QED BY <2>1
<1>. QED BY <1>2, <1>3

LEMMA OthersKept ==
    ASSUME NEW s, NEW t, IsSeq(s), IsSeq(t), NEW q, NEW p, p # q,
           \A i \in DOMAIN t : t[i].place = q
    PROVE  /\ UsagesIn(s \o t, p) = UsagesIn(s, p)
           /\ NoneTwice(s, p) => NoneTwice(s \o t, p)
           /\ (\A i \in DOMAIN s : s[i].place # p) =>
                \A i \in DOMAIN (s \o t) : (s \o t)[i].place # p
<1>. DEFINE l == s \o t
<1>1. \A i \in DOMAIN l : l[i].place = p => i \in DOMAIN s /\ l[i] = s[i]
  BY ConcatIndices
<1>2. \A i \in DOMAIN s : i \in DOMAIN l /\ l[i] = s[i]
  BY ConcatIndices
<1>. HIDE DEF l
<1>3. UsagesIn(l, p) = UsagesIn(s, p)
  BY <1>1, <1>2 DEF UsagesIn
<1>4. NoneTwice(s, p) => NoneTwice(l, p)
  BY <1>1 DEF NoneTwice
<1>. QED BY <1>1, <1>3, <1>4 DEF l

LEMMA NewListed ==
    ASSUME NEW s, NEW t, IsSeq(s), IsSeq(t), NEW q, \A i \in DOMAIN s : s[i].place # q,
           \A i \in DOMAIN t : t[i].place = q
    PROVE  /\ UsagesIn(s \o t, q) = {t[i].usage : i \in DOMAIN t}
           /\ (\A i, j \in DOMAIN t : t[i].usage = t[j].usage => i = j) => NoneTwice(s \o t, q)
<1>. DEFINE l == s \o t
            n == Len(s)
<1>1. /\ DOMAIN t = 1..Len(t) /\ n \in Nat /\ Len(t) \in Nat
      /\ \A i \in DOMAIN l : l[i].place = q => \E j \in DOMAIN t : i = n + j
      /\ \A j \in DOMAIN t : n + j \in DOMAIN l /\ l[n + j] = t[j]
  BY ConcatIndices
<1>. HIDE DEF l, n
<1>2. UsagesIn(l, q) = {t[i].usage : i \in DOMAIN t}
  <2>1. ASSUME NEW i \in DOMAIN l, l[i].place = q PROVE \E j \in DOMAIN t : l[i].usage = t[j].usage
    BY <1>1, <2>1
  <2>2. ASSUME NEW j \in DOMAIN t PROVE \E i \in DOMAIN l : l[i].place = q /\ l[i].usage = t[j].usage
    BY <1>1
  <2>. QED BY <2>1, <2>2 DEF UsagesIn
<1>3. ASSUME \A i, j \in DOMAIN t : t[i].usage = t[j].usage => i = j PROVE NoneTwice(l, q)
  <2>. SUFFICES ASSUME NEW i \in DOMAIN l, NEW j \in DOMAIN l, l[i].place = q, l[j].place = q,
                       l[i].usage = l[j].usage
                PROVE  i = j
    BY DEF NoneTwice
  <2>1. PICK a \in DOMAIN t : i = n + a
    BY <1>1
  <2>2. PICK b \in DOMAIN t : j = n + b
    BY <1>1
  <2>3. t[a].usage = t[b].usage
    BY <1>1, <2>1, <2>2
  <2>. QED BY <1>3, <2>1, <2>2, <2>3
<1>. QED BY <1>2, <1>3 DEF l

(* The entries that describe device d. *)
Describes(t, d) ==
    /\ IsSeq(t) /\ \A i \in DOMAIN t : t[i].place = d.place
    /\ d.place \in steady =>
         /\ {t[i].usage : i \in DOMAIN t} \in {UsagesOf(d.kind), {0}}
         /\ \A i, j \in DOMAIN t : t[i].usage = t[j].usage => i = j
         /\ \A i \in DOMAIN t : t[i].vendor_id = d.kind.vendor_id

LEMMA OneSeq ==
    ASSUME NEW e
    PROVE  IsSeq(<<e>>) /\ DOMAIN <<e>> = {1} /\ <<e>>[1] = e
<1>1. <<e>> \in Seq({e}) /\ DOMAIN <<e>> = {1} /\ <<e>>[1] = e
  OBVIOUS
<1>2. Range(<<e>>) = {e}
  BY <1>1 DEF Range
<1>. QED BY <1>1, <1>2 DEF IsSeq

LEMMA OneDescribes ==
    ASSUME NEW d \in Sightings, NEW e, e.place = d.place, e.usage = 0,
           d.place \in steady => e.vendor_id = d.kind.vendor_id
    PROVE  Describes(<<e>>, d)
<1>. DEFINE t == <<e>>
<1>1. IsSeq(t) /\ DOMAIN t = {1} /\ t[1] = e
  BY OneSeq
<1>. HIDE DEF t
<1>2. {t[i].usage : i \in DOMAIN t} = {0}
  BY <1>1
<1>. QED BY <1>1, <1>2 DEF Describes, t

LEMMA UsagesDescribe ==
    ASSUME NEW d \in Sightings, NEW n \in Nat,
           d.place \in steady => n = d.kind.usages /\ backend \in {"linux", "mac", "netbsd"}
    PROVE  Describes(EntryPerUsage(d, n), d)
<1>. DEFINE t == EntryPerUsage(d, n)
<1>1. DOMAIN t = 1..n /\ \A i \in 1..n : t[i] = Entry(d, i) /\ t[i] \in Range(t)
  BY DEF EntryPerUsage, Range
<1>2. IsSeq(t)
  <2>1. t = [i \in 1..n |-> t[i]]
    BY DEF EntryPerUsage
  <2>2. t \in [1..n -> Range(t)]
    BY <1>1, <2>1
  <2>. QED BY <2>2 DEF IsSeq
<1>. HIDE DEF t
<1>3. \A i \in 1..n : t[i].place = d.place /\ t[i].usage = i /\ t[i].vendor_id = d.kind.vendor_id
  BY <1>1 DEF Entry
<1>4. {t[i].usage : i \in DOMAIN t} = 1..n
  BY <1>1, <1>3
<1>5. d.place \in steady => 1..n = UsagesOf(d.kind)
  BY DEF UsagesOf
<1>6. Describes(t, d)
  <2>1. \A i, j \in DOMAIN t : t[i].usage = t[j].usage => i = j
    BY <1>1, <1>3
  <2>2. \A i \in DOMAIN t : t[i].place = d.place /\ t[i].vendor_id = d.kind.vendor_id
    BY <1>1, <1>3
  <2>. QED BY <1>2, <1>4, <1>5, <2>1, <2>2, Zenon DEF Describes
<1>. QED BY <1>6 DEF t

(* A device where nothing changed is found again as it was. *)
LEMMA SteadyFacts ==
    ASSUME WorldTypeOK, NEW d \in Sightings, Remembered(d), d.place \in steady
    PROVE  /\ At(d.place) # Absent /\ At(d.place).kind = d.kind /\ StillThere(d)
           /\ Found(d.place) = d /\ Names(PathOf(d), d.place)
<1>1. /\ d.place \in Places /\ d.kind \in Kinds
      /\ d = [place |-> d.place, kind |-> d.kind, plug |-> d.plug]
  BY SightingFacts
<1>2. StillThere(d) /\ At(d.place) = [kind |-> d.kind, plug |-> d.plug]
  BY DEF Remembered, StillThere
<1>3. At(d.place).kind = d.kind /\ At(d.place).plug = d.plug
  BY <1>2
<1>4. At(d.place) # Absent
  BY <1>1, <1>3, NoKindFacts DEF Absent
<1>5. Found(d.place) = d
  BY <1>1, <1>3 DEF Found
<1>. QED BY <1>2, <1>3, <1>4, <1>5 DEF Names

(* The filter: of the devices that are still there, those asked for are    *)
(* taken and the others are not.                                           *)
LEMMA FilterFacts ==
    ASSUME TypeOK, SeenInv, Look, backend = "mac" => \A e \in todo : Wanted(e.kind.vendor_id)
    PROVE  \E d \in todo :
             /\ d \in Sightings /\ Remembered(d) /\ todo' = todo \ {d} /\ pc = "look"
             /\ UNCHANGED <<list, length, worldVars, call>>
             /\ \/ /\ pc' = "describe" /\ current'.place = d.place
                   /\ d.place \in steady => current' = d /\ Wanted(d.kind.vendor_id)
                \/ pc' = "look" /\ (d.place \in steady => ~Wanted(d.kind.vendor_id))
<1>1. PICK d \in todo :
        /\ todo' = todo \ {d}
        /\ libusb_look(d) \/ linux_look(d) \/ mac_look(d) \/ windows_look(d) \/ netbsd_look(d)
  BY DEF Look
<1>2. pc = "look" /\ d \in Sightings /\ d.place \in Places /\ Remembered(d)
  BY <1>1, SightingFacts DEF Look, TypeOK, TodoTypeOK, SeenInv
<1>3. d.place \in steady =>
        /\ At(d.place) # Absent /\ At(d.place).kind = d.kind /\ StillThere(d)
        /\ Found(d.place) = d /\ Names(PathOf(d), d.place)
  BY <1>2, SteadyFacts DEF TypeOK
<1>4. At(d.place) # Absent => Found(d.place).place = d.place
  BY <1>2, FoundFacts DEF TypeOK
<1>5. /\ Skips => pc' = "look"
      /\ \A e : Takes(e) => pc' = "describe" /\ current' = e
      /\ Skips \/ (\E e : Takes(e)) => UNCHANGED <<list, length, worldVars, call>>
  BY DEF Skips, Takes, Goes, callVars
<1>. DEFINE Kept == UNCHANGED <<list, length, worldVars, call>>
            Taken == /\ pc' = "describe" /\ current'.place = d.place
                     /\ d.place \in steady => current' = d /\ Wanted(d.kind.vendor_id)
            Passed == pc' = "look" /\ (d.place \in steady => ~Wanted(d.kind.vendor_id))
<1>6. Kept /\ (Taken \/ Passed)
  <2>1. CASE libusb_look(d)
    BY <2>1, <1>3, <1>5 DEF libusb_look
  <2>2. CASE linux_look(d)
    BY <2>2, <1>3, <1>5 DEF linux_look, Wanted
  <2>3. CASE mac_look(d)
    BY <2>3, <1>1, <1>3, <1>5 DEF mac_look
  <2>4. CASE windows_look(d)
    BY <2>4, <1>3, <1>4, <1>5 DEF windows_look, Names
  <2>5. CASE netbsd_look(d)
    BY <2>5, <1>3, <1>4, <1>5 DEF netbsd_look
  <2>. QED BY <1>1, <2>1, <2>2, <2>3, <2>4, <2>5
<1>. QED BY <1>1, <1>2, <1>6

(* The description of a device that is still there has each usage once.    *)
LEMMA DescriptionFacts ==
    ASSUME TypeOK, PhaseInv, SeenInv, Describe
    PROVE  \E entries :
             /\ Describes(entries, current) /\ list' = list \o entries
             /\ pc' = "look" /\ UNCHANGED <<todo, length, worldVars, call>>
<1>. DEFINE d == current
<1>1. d \in Sightings /\ Remembered(d) /\ d.kind \in Kinds /\ d.kind.usages \in Nat
      /\ d.place \in Places
  BY SightingFacts, UsagesFacts DEF TypeOK, CurrentTypeOK, PhaseInv, SeenInv, Describe
<1>2. d.place \in steady =>
        At(d.place) # Absent /\ At(d.place).kind = d.kind /\ StillThere(d)
  BY <1>1, SteadyFacts DEF TypeOK
<1>. HIDE DEF d
<1>3. /\ Describes(<<Entry(d, 0)>>, d) /\ Describes(<<[Entry(d, 0) EXCEPT !.serial = Missing]>>, d)
      /\ d.place \notin steady =>
           Describes(<<[Entry(d, 0) EXCEPT !.vendor_id = 0, !.serial = Missing]>>, d)
  BY <1>1, OneDescribes DEF Entry
<1>4. backend \in {"linux", "mac", "netbsd"} => Describes(EntryPerUsage(d, d.kind.usages), d)
  BY <1>1, UsagesDescribe
<1>5. d.place \notin steady => Describes(<<>>, d)
  BY EmptyOK DEF Describes, ListOK
<1>6. PICK entries : Lists(entries) /\ Describes(entries, d)
  <2>1. CASE libusb_describe(d) \/ linux_describe(d) \/ mac_describe(d)
    <3>1. \/ Lists(<<Entry(d, 0)>>) \/ Lists(<<[Entry(d, 0) EXCEPT !.serial = Missing]>>)
          \/ backend \in {"linux", "mac", "netbsd"} /\ Lists(EntryPerUsage(d, d.kind.usages))
          \/ ~StillThere(d) /\ Lists(<<>>)
      BY <2>1 DEF libusb_describe, linux_describe, mac_describe, get_hid_report_descriptor
    <3>. QED BY <3>1, <1>2, <1>3, <1>4, <1>5
  <2>2. CASE windows_describe(d)
    <3>1. \/ Lists(<<Entry(d, 0)>>)
          \/ /\ ~StillThere(d)
             /\ Lists(<<[Entry(d, 0) EXCEPT !.vendor_id = 0, !.serial = Missing]>>)
      BY <2>2 DEF windows_describe
    <3>. QED BY <3>1, <1>2, <1>3
  <2>3. CASE netbsd_describe(d)
    <3>1. /\ backend = "netbsd"
          /\ \/ Lists(EntryPerUsage(d, At(d.place).kind.usages)) /\ At(d.place) # Absent
             \/ Lists(<<Entry(d, 0)>>)
             \/ walk_device_tree(d.place) = 0 /\ Lists(<<>>)
      BY <2>3 DEF netbsd_describe, walk_device_tree
    <3>2. At(d.place) # Absent => Describes(EntryPerUsage(d, At(d.place).kind.usages), d)
      <4>1. At(d.place) # Absent => At(d.place).kind.usages \in Nat
        BY <1>1, FoundFacts, UsagesFacts DEF TypeOK
      <4>. QED BY <4>1, <3>1, <1>1, <1>2, UsagesDescribe
    <3>3. d.place \in steady => walk_device_tree(d.place) # 0
      BY <1>1, <1>2, DiscoveryAssumption DEF walk_device_tree
    <3>. QED BY <3>1, <3>2, <3>3, <1>3, <1>5
  <2>. QED BY <2>1, <2>2, <2>3 DEF Describe, d
<1>. QED BY <1>6 DEF Lists, Goes, callVars, d

AllListed == \A p \in Places : Sought(p) => WellListed(p)
OnlyWanted == \A i \in DOMAIN list : Wanted(list[i].vendor_id) \/ list[i].place \notin steady

LEMMA ListedOnceMeans == ListedOnce <=> (Listed => AllListed /\ OnlyWanted)
<1>1. \A p : p \in steady \cap Occupied => p \in Places
  BY DEF Occupied
<1>. QED BY <1>1 DEF ListedOnce, AllListed, OnlyWanted, Sought, WellListed

(* Nothing of this changes but by plugging, while the list is at rest.     *)
LEMMA ListAtRest ==
    ASSUME UNCHANGED <<list, call, backend, present, steady>>
    PROVE  /\ \A p : Sought(p)' <=> Sought(p)
           /\ \A p : WellListed(p)' <=> WellListed(p)
           /\ \A p : Unlisted(p)' <=> Unlisted(p)
           /\ OnlyWanted' <=> OnlyWanted
           /\ AllListed' <=> AllListed
<1>1. Occupied' = Occupied /\ \A p : At(p)' = At(p)
  BY DEF Occupied, At
<1>2. /\ \A p : Sought(p)' <=> Sought(p)
      /\ \A p : WellListed(p)' <=> WellListed(p)
  BY <1>1 DEF Sought, WellListed, Wanted, UsagesOf
<1>. QED BY <1>2 DEF Unlisted, OnlyWanted, AllListed, Wanted

LEMMA OncePlug ==
    ASSUME TypeOK, OnceInv, NEW p \in Places, Plug(p)
    PROVE  OnceInv'
<1>1. /\ steady' = steady \ {p} /\ \A q \in Places \ {p} : At(q)' = At(q)
      /\ UNCHANGED <<backend, root_hub, error, pc, call, answer, todo, current, length, list>>
  BY DEF Plug, TypeOK, WorldTypeOK, At, callVars, listVars
<1>2. \A q \in Places : Sought(q)' => Sought(q) /\ At(q)' = At(q)
  <2>1. ASSUME NEW q \in Places, Sought(q)' PROVE Sought(q) /\ At(q)' = At(q)
    <3>1. q # p /\ q \in steady
      BY <1>1, <2>1 DEF Sought
    <3>2. At(q)' = At(q)
      BY <1>1, <3>1
    <3>. QED BY <1>1, <2>1, <3>1, <3>2 DEF Sought, Occupied, Wanted
  <2>. QED BY <2>1
<1>3. \A q \in Places : Sought(q)' => (WellListed(q)' <=> WellListed(q))
  BY <1>1, <1>2 DEF WellListed, UsagesOf
<1>4. /\ AllListed => AllListed'
      /\ OnlyWanted => OnlyWanted'
      /\ Listed' <=> Listed
  BY <1>1, <1>2, <1>3 DEF AllListed, OnlyWanted, Wanted, Listed
<1>5. ListedOnce'
  <2>1. ListedOnce' <=> (Listed' => AllListed' /\ OnlyWanted')
    BY ListedOnceMeans, PTL
  <2>. QED BY <1>4, <2>1, ListedOnceMeans DEF OnceInv
<1>6. ASSUME SnapshotInv, ListingInv PROVE SnapshotInv' /\ ListingInv'
  <2>1. /\ \A q : Coming(q)' <=> Coming(q)
        /\ \A q : Unlisted(q)' <=> Unlisted(q)
        /\ NotWalkedYet' <=> NotWalkedYet
    BY <1>1 DEF Coming, Unlisted, NotWalkedYet
  <2>2. SnapshotInv'
    BY <1>1, <1>6, <2>1 DEF SnapshotInv, Wanted
  <2>3. OnlyWanted'
    BY <1>4, <1>6 DEF ListingInv, OnlyWanted
  <2>. QED BY <1>1, <1>2, <1>3, <1>6, <2>1, <2>2, <2>3 DEF ListingInv, OnlyWanted
<1>. QED BY <1>1, <1>5, <1>6 DEF OnceInv

(* Steps that end the listing, or have nothing to do with it.              *)
LEMMA OnceElsewhere ==
    ASSUME OnceInv, root_hub' = root_hub, pc' \notin {"look", "describe"},
           pc' \in {"snapshot", "interfaces"} => list' = <<>>,
           Listed' => AllListed' /\ OnlyWanted'
    PROVE  OnceInv'
<1>1. ListedOnce' <=> (Listed' => AllListed' /\ OnlyWanted')
  BY ListedOnceMeans, PTL
<1>. QED BY <1>1 DEF OnceInv

LEMMA OnceBegins ==
    ASSUME OnceInv, BeginsListing \/ \E p \in Paths : hid_open_path(p)
    PROVE  OnceInv'
<1>1. CASE BeginsListing
  <2>1. /\ root_hub' = root_hub /\ list' = <<>>
        /\ pc' = "snapshot" \/ (pc' = "done" /\ error' = "hid_init" /\ answer' = "NULL")
    <3>1. ASSUME NEW f, NEW v, NEW serial, Calls(f, v, serial), hid_init("snapshot")
          PROVE  /\ root_hub' = root_hub
                 /\ pc' = "snapshot" \/ (pc' = "done" /\ error' = "hid_init" /\ answer' = "NULL")
      BY <3>1 DEF hid_init, Calls
    <3>. QED BY <1>1, <3>1, Zenon DEF BeginsListing, hid_enumerate, hid_open
  <2>2. ~Listed'
    BY <2>1 DEF Listed, NoError
  <2>. QED BY <2>1, <2>2, OnceElsewhere
<1>2. CASE \E p \in Paths : hid_open_path(p)
  <2>1. /\ root_hub' = root_hub /\ pc' \in {"open", "done"}
        /\ call'.function = "hid_open_path"
    <3>1. PICK p \in Paths : Calls("hid_open_path", 0, AnySerial) /\ hid_init("open")
      BY <1>2, Zenon DEF hid_open_path
    <3>2. root_hub' = root_hub /\ call'.function = "hid_open_path"
      BY <3>1 DEF Calls
    <3>3. pc' \in {"open", "done"}
      BY <3>1 DEF hid_init
    <3>. QED BY <3>2, <3>3
  <2>2. ~Listed'
    BY <2>1 DEF Listed
  <2>. QED BY <2>1, <2>2, OnceElsewhere
<1>. QED BY <1>1, <1>2

LEMMA OnceOpens ==
    ASSUME OnceInv, PhaseInv, Finishes \/ Choose \/ OpenPath
    PROVE  OnceInv'
<1>1. CASE Finishes
  <2>1. /\ root_hub' = root_hub /\ pc = "done" /\ pc' = "done"
        /\ answer' \in {"freed", "closed", "0"}
    BY <1>1 DEF Finishes, hid_free_enumeration, hid_close, hid_exit, worldVars
  <2>2. ~Listed'
    BY <2>1 DEF Listed
  <2>. QED BY <2>1, <2>2, OnceElsewhere
<1>2. CASE Choose
  <2>1. /\ root_hub' = root_hub
        /\ pc' = "open" \/ (pc' = "done" /\ answer' = "NULL" /\ error' = "Device not found")
    BY <1>2 DEF Choose, Goes, Returns, worldVars
  <2>2. ~Listed'
    BY <2>1 DEF Listed, NoError
  <2>. QED BY <2>1, <2>2, OnceElsewhere
<1>3. CASE OpenPath
  <2>1. root_hub' = root_hub /\ pc' \in Opening \cup {"done"}
    BY <1>3, OpenFacts DEF worldVars
  <2>2. \/ pc' # "done" \/ answer' = "device"
        \/ answer' = "NULL" /\ error' \notin {"No HID devices", NoError}
    <3>. USE DEF Goes, Returns, Acquires, Fails, Opens, NoError
    <3>1. CASE libusb_open_path \/ new_hid_device
      BY <3>1 DEF libusb_open_path, new_hid_device
    <3>2. CASE linux_open \/ linux_ioctl
      BY <3>2 DEF linux_open, linux_ioctl
    <3>3. CASE mac_entry \/ mac_create \/ mac_open
      BY <3>3 DEF mac_entry, mac_create, mac_open
    <3>4. CASE windows_open \/ windows_buffers \/ windows_caps
      BY <3>4 DEF windows_open, windows_buffers, windows_caps
    <3>5. CASE netbsd_drvctl \/ netbsd_walk \/ netbsd_child \/ netbsd_opened
      BY <3>5 DEF netbsd_drvctl, netbsd_walk, netbsd_child, netbsd_opened
    <3>. QED BY <1>3, <3>1, <3>2, <3>3, <3>4, <3>5 DEF OpenPath
  <2>3. ~Listed'
    BY <2>1, <2>2 DEF Listed, Opening, NoError
  <2>. QED BY <2>1, <2>3, OnceElsewhere DEF Opening
<1>. QED BY <1>1, <1>2, <1>3

(***************************************************************************)
(* The steps of the listing.                                               *)
(***************************************************************************)
LEMMA OnceListens ==
    ASSUME TypeOK, PhaseInv, OnceInv, Listens
    PROVE  OnceInv'
<1>1. /\ pc \in {"snapshot", "interfaces"} /\ list = <<>>
      /\ pc' \in {"done", "snapshot", "interfaces", "look"}
      /\ UNCHANGED <<list, current, call, backend, root_hub, present, steady>>
  BY ListensFacts DEF TypeOK, OnceInv, worldVars
<1>2. CASE pc' = "done"
  <2>1. answer' = "NULL" /\ error' \notin {"No HID devices", NoError}
    BY <1>1, <1>2 DEF Listens, libusb_get_device_list, udev_enumerate, IOHIDManagerCopyDevices,
      CM_Get_Device_Interface_List_Size, CM_Get_Device_Interface_List, netbsd_enumerate,
      SnapshotFails, Goes, Returns, NoError
  <2>2. ~Listed'
    BY <1>2, <2>1 DEF Listed
  <2>. QED BY <1>1, <1>2, <2>2, OnceElsewhere
<1>3. CASE pc' \in {"snapshot", "interfaces"}
  BY <1>1, <1>3, OnceElsewhere DEF Listed
<1>4. CASE pc' = "look"
  <2>. DEFINE All == {Found(p) : p \in Occupied}
              Matching == {Found(p) : p \in {q \in Occupied : Wanted(At(q).kind.vendor_id)}}
  <2>1. \/ todo' = All /\ backend \in {"libusb", "linux", "windows"}
        \/ todo' = Matching /\ backend = "mac"
        \/ todo' = HubPorts(0) /\ backend = "netbsd" /\ length' = 0
    BY <1>4 DEF Listens, libusb_get_device_list, udev_enumerate,
      IOHIDManagerCopyDevices, CM_Get_Device_Interface_List_Size, CM_Get_Device_Interface_List,
      netbsd_enumerate, SnapshotFails, Snapshots, Goes, Returns, PhaseInv
  <2>2. HubPorts(0) = IF root_hub = 0 THEN All ELSE {}
    BY <1>1 DEF HubPorts, OnceInv
  <2>3. \A p \in Occupied : Found(p).place = p /\ Found(p).kind = At(p).kind
    BY FoundFacts DEF Occupied, TypeOK
  <2>4. /\ \A d, e \in todo' : d.place = e.place => d = e
        /\ backend = "mac" => \A d \in todo' : Wanted(d.kind.vendor_id)
    BY <2>1, <2>2, <2>3
  <2>5. NotWalkedYet' => todo' = {}
    BY <1>1, <2>1, <2>2 DEF NotWalkedYet
  <2>6. SnapshotInv'
    BY <1>1, <1>4, <2>4, <2>5 DEF SnapshotInv, Wanted
  <2>7. \A p \in Places : Sought(p) => (\E d \in todo' : d.place = p) \/ NotWalkedYet'
    BY <1>1, <2>1, <2>2, <2>3 DEF Sought, NotWalkedYet, OnceInv
  <2>8. ListingInv'
    BY <1>1, <2>7, ListAtRest DEF ListingInv, Coming, Unlisted
  <2>. QED BY <1>1, <1>4, <2>6, <2>8 DEF OnceInv, ListedOnce, Listed
<1>. QED BY <1>1, <1>2, <1>3, <1>4

LEMMA OnceLook ==
    ASSUME TypeOK, SeenInv, OnceInv, Look
    PROVE  OnceInv'
<1>0. pc = "look" /\ SnapshotInv /\ ListingInv
  BY DEF Look, OnceInv
<1>1. PICK d \in todo :
        /\ d \in Sightings /\ Remembered(d) /\ todo' = todo \ {d} /\ pc = "look"
        /\ UNCHANGED <<list, length, worldVars, call>>
        /\ \/ /\ pc' = "describe" /\ current'.place = d.place
              /\ d.place \in steady => current' = d /\ Wanted(d.kind.vendor_id)
           \/ pc' = "look" /\ (d.place \in steady => ~Wanted(d.kind.vendor_id))
  BY <1>0, FilterFacts DEF SnapshotInv
<1>2. UNCHANGED <<list, call, backend, root_hub, length, present, steady>>
  BY <1>1 DEF worldVars
<1>3. ~NotWalkedYet /\ ~NotWalkedYet'
  BY <1>0, <1>1, <1>2 DEF SnapshotInv, NotWalkedYet
<1>4. d.place \in steady => At(d.place).kind = d.kind
  BY <1>1, SteadyFacts DEF TypeOK
<1>5. SnapshotInv'
  BY <1>0, <1>1, <1>2, <1>3 DEF SnapshotInv, Wanted
<1>6. \A p : Coming(p)' => Coming(p)
  BY <1>0, <1>1 DEF Coming
<1>7. \A p \in Places : Sought(p) /\ Coming(p) => Coming(p)'
  BY <1>0, <1>1, <1>4 DEF Coming, Sought
<1>8. ListingInv'
  <2>1. \A p \in steady' : Coming(p)' => Unlisted(p)'
    BY <1>0, <1>2, <1>6, ListAtRest DEF ListingInv
  <2>2. \A p \in Places : Sought(p)' => Coming(p)' \/ WellListed(p)'
    BY <1>0, <1>2, <1>3, <1>7, ListAtRest DEF ListingInv
  <2>3. OnlyWanted'
    BY <1>0, <1>2, ListAtRest DEF ListingInv, OnlyWanted
  <2>. QED BY <2>1, <2>2, <2>3 DEF ListingInv, OnlyWanted
<1>9. pc' \in {"look", "describe"} /\ ~Listed'
  BY <1>1 DEF Listed
<1>. QED BY <1>2, <1>5, <1>8, <1>9 DEF OnceInv, ListedOnce

LEMMA OnceDescribes ==
    ASSUME TypeOK, PhaseInv, SeenInv, OnceInv, Describe
    PROVE  OnceInv'
<1>0. /\ pc = "describe" /\ SnapshotInv /\ ListingInv
      /\ IsSeq(list) /\ current \in Sightings /\ Remembered(current)
  BY DEF Describe, OnceInv, SeenInv, Listing, ListOK, TypeOK, CurrentTypeOK, PhaseInv
<1>1. PICK entries :
        /\ Describes(entries, current) /\ list' = list \o entries
        /\ pc' = "look" /\ UNCHANGED <<todo, length, worldVars, call>>
  BY DescriptionFacts
<1>2. UNCHANGED <<call, backend, root_hub, length, present, steady, todo>>
  BY <1>1 DEF worldVars
<1>3. ~NotWalkedYet /\ ~NotWalkedYet'
  BY <1>0, <1>2 DEF SnapshotInv, NotWalkedYet
<1>. DEFINE q == current.place
<1>4. /\ IsSeq(entries) /\ \A i \in DOMAIN entries : entries[i].place = q
      /\ q \in steady =>
           /\ {entries[i].usage : i \in DOMAIN entries} \in {UsagesOf(current.kind), {0}}
           /\ \A i, j \in DOMAIN entries : entries[i].usage = entries[j].usage => i = j
           /\ \A i \in DOMAIN entries : entries[i].vendor_id = current.kind.vendor_id
  BY <1>1 DEF Describes
<1>5. q \in steady => At(q).kind = current.kind
  BY <1>0, SteadyFacts DEF TypeOK
<1>6. SnapshotInv'
  BY <1>0, <1>1, <1>2, <1>3 DEF SnapshotInv, Wanted
<1>7. /\ \A p : Coming(p)' <=> Coming(p) /\ p # q
      /\ Coming(q)
  BY <1>0, <1>1 DEF Coming, SnapshotInv
<1>8. \A p \in steady' : Coming(p)' => Unlisted(p)'
  BY <1>0, <1>1, <1>2, <1>4, <1>7, OthersKept DEF ListingInv, Unlisted
<1>9. \A p \in Places : Sought(p)' => Coming(p)' \/ WellListed(p)'
  <2>. SUFFICES ASSUME NEW p \in Places, Sought(p)', ~Coming(p)' PROVE WellListed(p)'
    OBVIOUS
  <2>1. Sought(p) /\ p \in steady /\ At(p)' = At(p)
    BY <1>2 DEF Sought, Occupied, At, Wanted
  <2>2. CASE p = q
    <3>1. \A i \in DOMAIN list : list[i].place # q
      BY <1>0, <1>7, <2>1, <2>2 DEF ListingInv, Unlisted
    <3>2. /\ UsagesIn(list', q) = {entries[i].usage : i \in DOMAIN entries}
          /\ NoneTwice(list', q)
      BY <1>0, <1>1, <1>4, <2>1, <2>2, <3>1, NewListed
    <3>3. UsagesIn(list', q) \in {UsagesOf(At(q).kind), {0}}
      BY <1>4, <1>5, <2>1, <2>2, <3>2
    <3>. QED BY <1>2, <2>1, <2>2, <3>2, <3>3 DEF WellListed, UsagesOf
  <2>3. CASE p # q
    <3>1. ~Coming(p) /\ WellListed(p)
      BY <1>0, <1>3, <1>7, <2>1, <2>3 DEF ListingInv
    <3>2. UsagesIn(list', p) = UsagesIn(list, p) /\ (NoneTwice(list, p) => NoneTwice(list', p))
      <4>1. IsSeq(list) /\ IsSeq(entries) /\ \A i \in DOMAIN entries : entries[i].place = q
        BY <1>0, <1>4
      <4>. HIDE DEF q
      <4>2. /\ UsagesIn(list \o entries, p) = UsagesIn(list, p)
            /\ NoneTwice(list, p) => NoneTwice(list \o entries, p)
        BY <4>1, <2>3, OthersKept
      <4>. QED BY <1>1, <4>2
    <3>. QED BY <1>2, <2>1, <3>1, <3>2 DEF WellListed, UsagesOf
  <2>. QED BY <2>2, <2>3
<1>10. ASSUME NEW i \in DOMAIN (list \o entries)
       PROVE  Wanted((list \o entries)[i].vendor_id) \/ (list \o entries)[i].place \notin steady
  <2>1. CASE \E j \in DOMAIN list : (list \o entries)[i] = list[j]
    BY <1>0, <2>1 DEF ListingInv
  <2>2. CASE \E j \in DOMAIN entries : (list \o entries)[i] = entries[j]
    BY <1>0, <1>4, <2>2 DEF SnapshotInv
  <2>3. IsSeq(list) /\ IsSeq(entries)
    BY <1>0, <1>4
  <2>4. \/ \E j \in DOMAIN list : (list \o entries)[i] = list[j]
        \/ \E j \in DOMAIN entries : (list \o entries)[i] = entries[j]
    BY <2>3, <1>10, ConcatFacts, SMTT(30)
  <2>. QED BY <2>1, <2>2, <2>4
<1>11. OnlyWanted'
  BY <1>1, <1>2, <1>10 DEF OnlyWanted, Wanted
<1>12. ListingInv'
  BY <1>8, <1>9, <1>11 DEF ListingInv, OnlyWanted
<1>. QED BY <1>1, <1>2, <1>0, <1>6, <1>12 DEF OnceInv, ListedOnce, Listed

(* At the end nothing is to come, so everything is listed; and when NetBSD *)
(* walks the bus again because nothing was, there was nothing to list.     *)
LEMMA OnceEnds ==
    ASSUME TypeOK, OnceInv, EndsListing
    PROVE  OnceInv'
<1>0. /\ pc = "look" /\ todo = {} /\ SnapshotInv /\ ListingInv
      /\ UNCHANGED <<list, call, backend, root_hub, present, steady, current>>
  BY EndsFacts DEF OnceInv, TypeOK, worldVars
<1>1. \A p : ~Coming(p)
  BY <1>0 DEF Coming
<1>2. CASE netbsd_walk_again
  <2>. DEFINE All == {Found(p) : p \in Occupied}
  <2>1. /\ backend = "netbsd" /\ length = 0 /\ list = <<>> /\ length' = 1
        /\ pc' = "look" /\ todo' = HubPorts(1)
    BY <1>2 DEF netbsd_walk_again, WalksAgain, Goes
  <2>2. \A p \in Occupied : Found(p).place = p
    BY FoundFacts DEF Occupied, TypeOK
  <2>3. /\ todo' \subseteq All
        /\ root_hub = 1 => todo' = All
    BY <2>1 DEF HubPorts
  <2>4. \A d, e \in todo' : d.place = e.place => d = e
    BY <2>2, <2>3
  <2>5. ~NotWalkedYet'
    BY <2>1 DEF NotWalkedYet
  <2>6. SnapshotInv'
    BY <1>0, <2>1, <2>4, <2>5 DEF SnapshotInv
  <2>7. \A p \in Places : Sought(p) => \E d \in todo' : d.place = p
    <3>. SUFFICES ASSUME NEW p \in Places, Sought(p) PROVE \E d \in todo' : d.place = p
      OBVIOUS
    <3>1. p \in Occupied /\ At(p).kind.usages \in Nat \ {0}
      BY FoundFacts, DiscoveryAssumption DEF Sought, Occupied, TypeOK
    <3>2. CASE root_hub = 1
      BY <2>2, <2>3, <3>1, <3>2
    <3>3. CASE root_hub # 1
      <4>1. WellListed(p)
        BY <1>0, <1>1, <3>3 DEF ListingInv, NotWalkedYet
      <4>2. UsagesIn(list, p) = {}
        BY <2>1 DEF UsagesIn
      <4>3. 1 \in UsagesOf(At(p).kind)
        BY <2>1, <3>1 DEF UsagesOf
      <4>. QED BY <4>1, <4>2, <4>3 DEF WellListed
    <3>. QED BY <3>2, <3>3
  <2>8. ListingInv'
    <3>1. \A p \in steady' : Unlisted(p)'
      BY <1>0, <2>1 DEF Unlisted
    <3>2. \A p \in Places : Sought(p)' => Coming(p)'
      BY <1>0, <2>7, ListAtRest DEF Coming
    <3>. QED BY <1>0, <2>1, <3>1, <3>2 DEF ListingInv
  <2>. QED BY <1>0, <2>1, <2>6, <2>8 DEF OnceInv, ListedOnce, Listed
<1>3. CASE ListEmpty \/ ListAnswered \/ ListSearched
  <2>1. ~WalksAgain /\ pc' \in {"done", "choose"}
    BY <1>3 DEF ListEmpty, ListAnswered, ListSearched, Enumerated, Returns, Goes
  <2>2. ~NotWalkedYet
    BY <1>0, <2>1 DEF SnapshotInv, NotWalkedYet, WalksAgain
  <2>3. AllListed /\ OnlyWanted
    BY <1>0, <1>1, <2>2 DEF ListingInv, AllListed, OnlyWanted
  <2>4. AllListed' /\ OnlyWanted'
    BY <1>0, <2>3, ListAtRest
  <2>. QED BY <1>0, <2>1, <2>4, OnceElsewhere
<1>. QED BY <1>2, <1>3 DEF EndsListing

LEMMA OnceStep == TypeOK /\ PhaseInv /\ SeenInv /\ OnceInv /\ [Next]_vars => OnceInv'
<1>. SUFFICES ASSUME TypeOK, PhaseInv, SeenInv, OnceInv, [Next]_vars PROVE OnceInv'
  OBVIOUS
<1>1. CASE UNCHANGED vars
  <2>1. /\ UNCHANGED <<list, call, backend, present, steady>>
        /\ UNCHANGED <<root_hub, pc, todo, current, length, answer, error>>
    BY <1>1 DEF vars, worldVars, callVars, listVars
  <2>2. /\ ListedOnce' <=> (Listed' => AllListed' /\ OnlyWanted')
        /\ Listed' <=> Listed
    <3>1. ListedOnce' <=> (Listed' => AllListed' /\ OnlyWanted')
      BY ListedOnceMeans, PTL
    <3>2. Listed' <=> Listed
      BY <2>1 DEF Listed
    <3>. QED BY <3>1, <3>2
  <2>3. ListedOnce'
    <3>1. (AllListed' <=> AllListed) /\ (OnlyWanted' <=> OnlyWanted)
      BY <2>1, ListAtRest
    <3>. QED BY <2>2, <3>1, ListedOnceMeans, Zenon DEF OnceInv
  <2>4. ListingInv <=> ListingInv'
    BY <2>1, ListAtRest DEF ListingInv, Coming, NotWalkedYet, OnlyWanted
  <2>5. SnapshotInv <=> SnapshotInv'
    BY <2>1 DEF SnapshotInv, Wanted, NotWalkedYet
  <2>. QED BY <2>1, <2>3, <2>4, <2>5 DEF OnceInv
<1>. QED
  BY <1>1, OncePlug, OnceBegins, OnceListens, OnceLook, OnceDescribes, OnceEnds, OnceOpens, Steps

(* hid_enumerate lists every matching device that is there all the time,   *)
(* with each of its usages once, and nothing of another vendor that is     *)
(* still there: in every backend, for any devices, whatever is plugged in  *)
(* or out meanwhile, and however often Windows or NetBSD look again.       *)
THEOREM ListsOnce == Spec => []ListedOnce
<1>1. Init => OnceInv
  BY DEF Init, OnceInv, ListedOnce, Listed
<1>2. IInv /\ OnceInv /\ [Next]_vars => OnceInv'
  BY OnceStep, Zenon DEF IInv
<1>3. OnceInv => ListedOnce
  BY Zenon DEF OnceInv
<1>. QED BY <1>1, <1>2, <1>3, Invariance, PTL DEF Spec
=============================================================================
