------------------------------ MODULE Discovery ------------------------------
(***************************************************************************)
(* hid_init, hid_enumerate, hid_open, hid_open_path and hid_close in all   *)
(* five backends, while devices are plugged and unplugged.                 *)
(*                                                                         *)
(* A step is what happens between two requests to the system, so a device  *)
(* may go, and another one come in its place, between its appearance in a  *)
(* list and its description, and between that and its opening.  What the   *)
(* path names differs: on Windows and macOS this device, elsewhere a       *)
(* place.  libusb's hid_open_path is the subject of LibusbOpen and is one  *)
(* step here.  Threads of an open device are left to the read modules.     *)
(***************************************************************************)
EXTENDS Integers, Sequences, FiniteSets, SequencesExt

CONSTANTS
    Backends,     \* the backends to look at
    Places,       \* where a device can be plugged in
    FirstPlace,   \* NetBSD: the place with address 1 below a root hub at address 0
    Kinds,        \* devices: vendor, serial number, number of usages and of report IDs
    Children,     \* NetBSD: the names of a device's children, one for each report ID
    MaxPlugs,     \* bound: devices plugged in or out
    MaxCalls      \* bound: calls made

ASSUME DiscoveryAssumption ==
    /\ Backends \subseteq {"libusb", "linux", "netbsd", "mac", "windows"}
    /\ FirstPlace \in Places
    /\ \A k \in Kinds : k.vendor_id \in Nat \ {0} /\ k.usages \in Nat \ {0} /\ k.ids \in 1..Len(Children)
    /\ MaxPlugs \in Nat /\ MaxCalls \in Nat

(* The names of children are no names of the other things a call owns.     *)
ASSUME ChildrenAssumption ==
    /\ Children \in Seq(Range(Children))
    /\ Range(Children) \cap {"list", "drvctl", "lost drvctl", "dev", "device_handle", "entry",
                             "IOHIDDevice", "pp_data"} = {}

VARIABLES
    backend,      \* the backend in use
    root_hub,     \* NetBSD: the address of the root hub, 0 (xhci) or 1
    present,      \* what is plugged in, by place
    plugs,        \* the number of times something was plugged in or out
    steady,       \* the places where nothing changed since the call began
    initialised,  \* libusb: usb_context, Windows: hidapi_initialized, macOS: hid_mgr
    error,        \* the last global error, or NoError
    pc,           \* where the call is, "done" if there is none
    call,         \* what is being called: the function, and what it is to find
    calls,        \* the number of calls made
    todo,         \* devices of the snapshot not looked at yet
    current,      \* the device that passed the filter
    length,       \* Windows: the size of the interface list; NetBSD: the address walked,
                  \* and the children still to open
    list,         \* the list built so far
    path,         \* the path being opened
    held,         \* what the call, the list it answered or the open device owns
    device,       \* the kind of device that is open, or NoKind
    answer        \* what the last call returned

worldVars == <<backend, root_hub, present, plugs, steady>>
callVars == <<call, calls, answer>>
listVars == <<todo, current, length, list>>
openVars == <<path, held, device>>
vars == <<worldVars, initialised, error, pc, callVars, listVars, openVars>>

NoError == "Success"
AnySerial == "any"
Missing == ""            \* the serial number of a device that could not be asked
NoKind == [vendor_id |-> 0, serial |-> Missing, usages |-> 0, ids |-> 0]
Absent == [kind |-> NoKind, plug |-> 0]
None == [place |-> FirstPlace, kind |-> NoKind, plug |-> 0]

At(p) == present[p]
Occupied == {p \in Places : At(p) # Absent}

(* A device as a snapshot has it: what it is, and which plugging it was.   *)
Found(p) == [place |-> p, kind |-> At(p).kind, plug |-> At(p).plug]
StillThere(d) == At(d.place) = [kind |-> d.kind, plug |-> d.plug]

(* What the path in a hid_device_info names. *)
PathOf(d) ==
    CASE backend = "mac" -> <<d.place, d.plug>>       \* the registry entry's ID
      [] backend = "windows" -> <<d.place, d.kind>>   \* the device instance
      [] OTHER -> <<d.place>>                         \* bus and port, /dev/hidrawN, uhidevN

Names(p, place) == At(place) # Absent /\ PathOf(Found(place)) = p

BadPath == <<>>
Paths == {BadPath} \cup {PathOf([place |-> p, kind |-> k, plug |-> n]) : p \in Places, k \in Kinds, n \in 0..plugs}

Init ==
    /\ backend \in Backends
    /\ root_hub \in (IF backend = "netbsd" THEN {0, 1} ELSE {0})
    /\ present \in [Places -> {Absent} \cup {[kind |-> k, plug |-> 0] : k \in Kinds}]
    /\ plugs = 0 /\ steady = Places /\ initialised = FALSE /\ error = NoError
    /\ pc = "done" /\ calls = 0 /\ answer = "0"
    /\ call = [function |-> "none", vendor_id |-> 0, serial |-> AnySerial]
    /\ todo = {} /\ current = None /\ length = 0 /\ list = <<>>
    /\ path = BadPath /\ held = {} /\ device = NoKind

(* A device goes, or comes. *)
Plug(p) ==
    /\ plugs < MaxPlugs /\ plugs' = plugs + 1
    /\ \/ At(p) # Absent /\ present' = [present EXCEPT ![p] = Absent]
       \/ At(p) = Absent /\ \E k \in Kinds : present' = [present EXCEPT ![p] = [kind |-> k, plug |-> plugs + 1]]
    /\ steady' = steady \ {p}
    /\ UNCHANGED <<backend, root_hub, initialised, error, pc, callVars, listVars, openVars>>

(***************************************************************************)
(* The beginning and the end of a call.                                    *)
(***************************************************************************)
Goes(from, to) == pc = from /\ pc' = to /\ UNCHANGED <<worldVars, callVars, initialised>>

Returns(from, res) ==
    /\ pc = from /\ pc' = "done" /\ answer' = res
    /\ UNCHANGED <<worldVars, call, calls, initialised>>

(* On libusb, macOS and Windows hid_init has something to initialise.      *)
hid_init(ready) ==
    \/ initialised' = TRUE /\ error' = NoError /\ pc' = ready /\ UNCHANGED answer
    \/ /\ ~initialised /\ backend \in {"libusb", "mac", "windows"}
       /\ error' = "hid_init" /\ pc' = "done" /\ answer' = "NULL" /\ UNCHANGED initialised

Calls(function, vendor_id, serial) ==
    /\ pc = "done" /\ held \subseteq {"lost drvctl"} /\ calls < MaxCalls
    /\ calls' = calls + 1 /\ steady' = Places
    /\ call' = [function |-> function, vendor_id |-> vendor_id, serial |-> serial]
    /\ UNCHANGED <<backend, root_hub, present, plugs, held, device>>

hid_enumerate(vendor_id) ==
    /\ Calls("hid_enumerate", vendor_id, AnySerial) /\ hid_init("snapshot")
    /\ list' = <<>> /\ UNCHANGED <<todo, current, length, path>>

hid_open(vendor_id, serial) ==
    /\ Calls("hid_open", vendor_id, serial) /\ hid_init("snapshot")
    /\ list' = <<>> /\ UNCHANGED <<todo, current, length, path>>

hid_open_path(p) ==
    /\ Calls("hid_open_path", 0, AnySerial) /\ hid_init("open")
    /\ path' = p /\ UNCHANGED listVars

hid_exit ==
    /\ pc = "done" /\ held \subseteq {"lost drvctl"}
    /\ initialised' = FALSE /\ error' = NoError /\ answer' = "0"
    /\ call' = [call EXCEPT !.function = "hid_exit"]
    /\ UNCHANGED <<worldVars, pc, calls, listVars, openVars>>

hid_free_enumeration ==
    /\ pc = "done" /\ "list" \in held /\ held' = held \ {"list"} /\ answer' = "freed"
    /\ UNCHANGED <<worldVars, initialised, error, pc, call, calls, listVars, path, device>>

(***************************************************************************)
(* The snapshot.                                                           *)
(***************************************************************************)
Snapshots(devices) == todo' = devices /\ UNCHANGED <<current, length, list, openVars, error>>

SnapshotFails(what) ==
    Returns("snapshot", "NULL") /\ error' = what /\ UNCHANGED <<listVars, openVars>>

libusb_get_device_list ==
    /\ backend = "libusb"
    /\ \/ Goes("snapshot", "look") /\ Snapshots({Found(p) : p \in Occupied})
       \/ SnapshotFails("libusb_get_device_list")

udev_enumerate ==
    /\ backend = "linux"
    /\ \/ Goes("snapshot", "look") /\ Snapshots({Found(p) : p \in Occupied})
       \/ SnapshotFails("udev_new")

Wanted(vendor_id) == call.vendor_id = 0 \/ call.vendor_id = vendor_id

(* The manager is given its events first, and matches by itself. *)
IOHIDManagerCopyDevices ==
    /\ backend = "mac"
    /\ Goes("snapshot", "look")
    /\ Snapshots({Found(p) : p \in {q \in Occupied : Wanted(At(q).kind.vendor_id)}})

(* The size of the list is asked first, and again if it has grown.  A      *)
(* failure leaves without the error that an empty list gets.               *)
CM_Get_Device_Interface_List_Size ==
    /\ backend = "windows"
    /\ \/ /\ Goes("snapshot", "interfaces")
          /\ length' = Cardinality(Occupied) /\ UNCHANGED <<todo, current, list, openVars, error>>
       \/ SnapshotFails("CM_Get_Device_Interface_List_Size")

CM_Get_Device_Interface_List ==
    \/ /\ Cardinality(Occupied) <= length
       /\ Goes("interfaces", "look") /\ Snapshots({Found(p) : p \in Occupied})
    \/ /\ Cardinality(Occupied) > length
       /\ Goes("interfaces", "snapshot") /\ UNCHANGED <<error, listVars, openVars>>
    \/ Returns("interfaces", "NULL") /\ error' = "CM_Get_Device_Interface_List" /\ UNCHANGED <<listVars, openVars>>

(* NetBSD: how many uhid children the device has that a uhidev names.      *)
walk_device_tree(p) == IF At(p) = Absent THEN 0 ELSE At(p).kind.ids

(* NetBSD walks the bus, from address 0 on. *)
HubPorts(addr) ==
    IF addr = root_hub THEN {Found(p) : p \in Occupied}
    ELSE IF addr = 1 THEN {Found(p) : p \in Occupied \cap {FirstPlace}} ELSE {}

netbsd_enumerate ==
    /\ backend = "netbsd"
    /\ \/ /\ Goes("snapshot", "look") /\ todo' = HubPorts(0) /\ held' = held \cup {"drvctl"}
          /\ length' = 0 /\ UNCHANGED <<current, list, path, device, error>>
       \/ SnapshotFails("drvctl")

(***************************************************************************)
(* The filter: is this device of the vendor that is asked for?             *)
(***************************************************************************)
Takes(d) == Goes("look", "describe") /\ current' = d /\ UNCHANGED <<length, list, path, device>>
Skips == Goes("look", "look") /\ UNCHANGED <<current, length, list, path, device>>

(* libusb keeps the descriptors of the snapshot; only the configuration    *)
(* may have to be fetched.                                                 *)
libusb_look(d) ==
    /\ backend = "libusb" /\ UNCHANGED <<error, held>>
    /\ \/ Wanted(d.kind.vendor_id) /\ Takes(d)
       \/ (~Wanted(d.kind.vendor_id) \/ ~StillThere(d)) /\ Skips

(* The uevent file of a device is gone with the device. *)
parse_hid_vid_pid_from_sysfs(d) ==
    error' = IF StillThere(d) THEN error ELSE "parse_hid_vid_pid_from_uevent_path"

(* Linux reads that file only if there is something to filter.             *)
linux_look(d) ==
    /\ backend = "linux" /\ UNCHANGED held
    /\ \/ call.vendor_id = 0 /\ Takes(d) /\ UNCHANGED error
       \/ /\ call.vendor_id # 0 /\ parse_hid_vid_pid_from_sysfs(d)
          /\ IF StillThere(d) /\ Wanted(d.kind.vendor_id) THEN Takes(d) ELSE Skips

mac_look(d) == backend = "mac" /\ Takes(d) /\ UNCHANGED <<error, held>>

(* Windows opens the device without access rights, to ask it. *)
windows_look(d) ==
    /\ backend = "windows" /\ UNCHANGED error
    /\ \/ Names(PathOf(d), d.place) /\ Wanted(d.kind.vendor_id) /\ Takes(Found(d.place)) /\ held' = held \cup {"device_handle"}
       \/ (~Names(PathOf(d), d.place) \/ ~Wanted(d.kind.vendor_id)) /\ Skips /\ UNCHANGED held

(* NetBSD asks the address, whatever is there by now. *)
netbsd_look(d) ==
    /\ backend = "netbsd" /\ UNCHANGED <<error, held>>
    /\ \/ At(d.place) # Absent /\ Wanted(At(d.place).kind.vendor_id) /\ Takes(Found(d.place))
       \/ (At(d.place) = Absent \/ ~Wanted(At(d.place).kind.vendor_id)) /\ Skips

Look ==
    pc = "look" /\ \E d \in todo :
        /\ todo' = todo \ {d}
        /\ libusb_look(d) \/ linux_look(d) \/ mac_look(d) \/ windows_look(d) \/ netbsd_look(d)

(***************************************************************************)
(* The description: one entry per usage, or one in all.                    *)
(***************************************************************************)
Entry(d, usage) == [path |-> PathOf(d), place |-> d.place, usage |-> usage,
                    vendor_id |-> d.kind.vendor_id, serial |-> d.kind.serial]
EntryPerUsage(d, usages) == [u \in 1..usages |-> Entry(d, u)]

Lists(entries) ==
    /\ Goes("describe", "look") /\ list' = list \o entries /\ current' = None
    /\ UNCHANGED <<todo, length, path, device>>

(* The handle is for the strings; without it the serial number is missing. *)
libusb_describe(d) ==
    /\ backend = "libusb" /\ UNCHANGED <<error, held>>
    /\ \/ StillThere(d) /\ Lists(<<Entry(d, 0)>>)
       \/ Lists(<<[Entry(d, 0) EXCEPT !.serial = Missing]>>)

(* The entries if the descriptor is read, and if not. *)
get_hid_report_descriptor(d) ==
    \/ StillThere(d) /\ Lists(EntryPerUsage(d, d.kind.usages)) /\ UNCHANGED error
    \/ Lists(<<Entry(d, 0)>>) /\ error' = "get_hid_report_descriptor"

(* A device that has gone altogether is left out.                          *)
linux_describe(d) ==
    /\ backend = "linux" /\ UNCHANGED held
    /\ \/ get_hid_report_descriptor(d)
       \/ ~StillThere(d) /\ Lists(<<>>) /\ UNCHANGED error

(* The primary usage comes first, and not again among the pairs. *)
mac_describe(d) ==
    backend = "mac" /\ Lists(EntryPerUsage(d, d.kind.usages)) /\ UNCHANGED <<error, held>>

(* The attributes are asked again: a device that has gone has none. *)
windows_describe(d) ==
    /\ backend = "windows" /\ held' = held \ {"device_handle"} /\ UNCHANGED error
    /\ IF StillThere(d) THEN Lists(<<Entry(d, 0)>>)
       ELSE Lists(<<[Entry(d, 0) EXCEPT !.vendor_id = 0, !.serial = Missing]>>)

(* The name that the address gave leads to a child, which has the usages.  *)
netbsd_describe(d) ==
    /\ backend = "netbsd" /\ UNCHANGED <<error, held>>
    /\ \/ walk_device_tree(d.place) > 0 /\ Lists(EntryPerUsage(d, At(d.place).kind.usages))
       \/ walk_device_tree(d.place) > 0 /\ Lists(<<Entry(d, 0)>>)
       \/ walk_device_tree(d.place) = 0 /\ Lists(<<>>)

Describe ==
    /\ pc = "describe"
    /\ \/ libusb_describe(current) \/ linux_describe(current) \/ mac_describe(current)
       \/ windows_describe(current) \/ netbsd_describe(current)

(***************************************************************************)
(* The end of the list.                                                    *)
(***************************************************************************)
(* Mutant: address 1 is walked as well. *)
WalksAgain_Always == backend = "netbsd" /\ length = 0

(* NetBSD: when address 0 gave nothing the root hub may have address 1.    *)
WalksAgain == backend = "netbsd" /\ length = 0 /\ list = <<>>

netbsd_walk_again ==
    /\ todo = {} /\ WalksAgain /\ Goes("look", "look")
    /\ todo' = HubPorts(1) /\ length' = 1 /\ UNCHANGED <<current, list, error, openVars>>

(* Mutant: an empty list explains itself when everything was asked for. *)
EmptyListError_OfAny == IF backend # "netbsd" /\ call.vendor_id # 0 THEN "No HID devices" ELSE error

EmptyListError == IF backend # "netbsd" THEN "No HID devices" ELSE error

Enumerated == pc = "look" /\ todo = {} /\ ~WalksAgain /\ UNCHANGED <<listVars, path, device>>

ListEmpty ==
    /\ Enumerated /\ list = <<>>
    /\ Returns("look", "NULL") /\ error' = EmptyListError /\ held' = held \ {"drvctl"}

ListAnswered ==
    /\ Enumerated /\ list # <<>> /\ call.function = "hid_enumerate"
    /\ Returns("look", "list") /\ held' = (held \ {"drvctl"}) \cup {"list"} /\ UNCHANGED error

ListSearched ==
    /\ Enumerated /\ list # <<>> /\ call.function = "hid_open"
    /\ Goes("look", "choose") /\ held' = (held \ {"drvctl"}) \cup {"list"} /\ UNCHANGED error

(* Mutant: the serial number of the call is not looked at. *)
Matches_AnySerial(e) == e.vendor_id = call.vendor_id

Matches(e) == e.vendor_id = call.vendor_id /\ (call.serial = AnySerial \/ e.serial = call.serial)

(* The list is freed in the end; NetBSD frees it before it opens.          *)
Choose ==
    pc = "choose" /\
    LET i == SelectInSeq(list, Matches)
    IN \/ /\ i = 0 /\ Returns("choose", "NULL") /\ error' = "Device not found"
          /\ held' = held \ {"list"} /\ UNCHANGED <<listVars, path, device>>
       \/ /\ i # 0 /\ Goes("choose", "open") /\ path' = list[i].path /\ error' = NoError
          /\ held' = (IF backend = "netbsd" THEN held \ {"list"} ELSE held)
          /\ UNCHANGED <<listVars, device>>

(***************************************************************************)
(* hid_open_path.                                                          *)
(***************************************************************************)
Acquires(from, to, what) == Goes(from, to) /\ held' = held \cup what /\ UNCHANGED <<error, path, device>>

Fails(from, what, left) ==
    /\ Returns(from, "NULL") /\ error' = what /\ held' = left \ {"list"}
    /\ UNCHANGED <<path, device>>

Opens(from, kind, owned) ==
    /\ Returns(from, "device") /\ held' = owned \ {"list"} /\ device' = kind
    /\ UNCHANGED <<error, path>>

(* See LibusbOpen. *)
libusb_open_path ==
    /\ backend = "libusb" /\ pc = "open" /\ UNCHANGED listVars
    /\ \/ \E p \in Places : Names(path, p) /\ Opens("open", At(p).kind, held \cup {"dev", "device_handle"})
       \/ Fails("open", "hid_open_path", held)

new_hid_device ==
    /\ UNCHANGED listVars
    /\ \/ backend = "linux" /\ Acquires("open", "linux_open", {"dev"})
       \/ backend = "mac" /\ Acquires("open", "mac_entry", {"dev"})
       \/ backend = "netbsd" /\ Acquires("open", "netbsd_drvctl", {"dev"})
       \/ backend \in {"linux", "mac", "netbsd"} /\ Fails("open", "malloc", held)

(* A path that is no hidraw device may be opened, but not asked.           *)
linux_open ==
    /\ pc = "linux_open" /\ UNCHANGED <<todo, length, list>>
    /\ \/ \E p \in Places : Names(path, p) /\ current' = Found(p) /\ Acquires("linux_open", "linux_ioctl", {"device_handle"})
       \/ path = BadPath /\ current' = None /\ Acquires("linux_open", "linux_ioctl", {"device_handle"})
       \/ UNCHANGED current /\ Fails("linux_open", "open", held \ {"dev"})

linux_ioctl ==
    /\ pc = "linux_ioctl" /\ UNCHANGED listVars
    /\ \/ current # None /\ StillThere(current) /\ Opens("linux_ioctl", current.kind, held)
       \/ Fails("linux_ioctl", "ioctl(GRDESCSIZE)", held \ {"dev", "device_handle"})

(* Mutant: the registry entry is not released. *)
return_error_KeepsEntry(owned) == owned \ {"IOHIDDevice", "dev"}

return_error(owned) == owned \ {"IOHIDDevice", "entry", "dev"}

mac_entry ==
    /\ pc = "mac_entry" /\ UNCHANGED <<todo, length, list>>
    /\ \/ \E p \in Places : Names(path, p) /\ current' = Found(p) /\ Acquires("mac_entry", "mac_create", {"entry"})
       \/ UNCHANGED current /\ Fails("mac_entry", "mach entry not found", return_error(held))

mac_create ==
    /\ pc = "mac_create" /\ UNCHANGED listVars
    /\ \/ Acquires("mac_create", "mac_open", {"IOHIDDevice"})
       \/ Fails("mac_create", "failed to create IOHIDDevice", return_error(held))

mac_open ==
    /\ pc = "mac_open" /\ UNCHANGED listVars
    /\ \/ StillThere(current) /\ Opens("mac_open", current.kind, (held \ {"entry"}) \cup {"device_handle"})
       \/ Fails("mac_open", "failed to open IOHIDDevice", return_error(held))

(* With access, or without: either may fail. *)
windows_open ==
    /\ backend = "windows" /\ pc = "open" /\ UNCHANGED <<todo, length, list>>
    /\ \/ \E p \in Places : Names(path, p) /\ current' = Found(p) /\ Acquires("open", "windows_buffers", {"device_handle"})
       \/ UNCHANGED current /\ Fails("open", "open_device", held)

windows_buffers ==
    /\ pc = "windows_buffers" /\ UNCHANGED listVars
    /\ \/ StillThere(current) /\ Acquires("windows_buffers", "windows_caps", {"pp_data"})
       \/ Fails("windows_buffers", "get preparsed data", held \ {"device_handle"})

(* The device takes the handle over, and with it the duty to close it.     *)
windows_caps ==
    /\ pc = "windows_caps" /\ UNCHANGED listVars
    /\ \/ Opens("windows_caps", current.kind, (held \ {"pp_data"}) \cup {"dev"})
       \/ Fails("windows_caps", "HidP_GetCaps", held \ {"pp_data", "device_handle"})

Handles == Range(Children) \cap held

netbsd_drvctl ==
    /\ pc = "netbsd_drvctl" /\ UNCHANGED listVars
    /\ \/ Acquires("netbsd_drvctl", "netbsd_walk", {"drvctl"})
       \/ Fails("netbsd_drvctl", "failed to open drvctl", held \ {"dev"})

(* The children of a name that nobody has are none, which is no error.     *)
netbsd_walk ==
    /\ pc = "netbsd_walk"
    /\ \/ path = BadPath /\ UNCHANGED listVars /\ Fails("netbsd_walk", "not a uhidev device", held \ {"dev", "drvctl"})
       \/ /\ path # BadPath /\ Acquires("netbsd_walk", "netbsd_child", {})
          /\ current' = None /\ UNCHANGED <<todo, list>>
          /\ length' = walk_device_tree(path[1])

netbsd_child ==
    /\ pc = "netbsd_child" /\ length > 0 /\ UNCHANGED <<todo, list>>
    /\ \/ /\ Names(path, path[1]) /\ length <= At(path[1]).kind.ids
          /\ current' = Found(path[1]) /\ length' = length - 1
          /\ Acquires("netbsd_child", "netbsd_child", {Children[length]})
       \/ /\ UNCHANGED <<current, length>>
          /\ Fails("netbsd_child", "failed to open", held \ (Handles \cup {"dev", "drvctl"}))

Unknown == [NoKind EXCEPT !.ids = 1]

(* Nobody closes drvctl any more. *)
netbsd_opened ==
    /\ length = 0 /\ UNCHANGED <<listVars, path>>
    /\ Returns("netbsd_child", "device") /\ error' = NoError
    /\ device' = (IF current = None THEN Unknown ELSE current.kind)
    /\ held' = (held \ {"drvctl"}) \cup {"lost drvctl"}

OpenPath ==
    \/ libusb_open_path \/ new_hid_device \/ linux_open \/ linux_ioctl
    \/ mac_entry \/ mac_create \/ mac_open \/ windows_open \/ windows_buffers \/ windows_caps
    \/ netbsd_drvctl \/ netbsd_walk \/ netbsd_child \/ netbsd_opened

hid_close ==
    /\ pc = "done" /\ device # NoKind /\ device' = NoKind /\ answer' = "closed"
    /\ held' = held \ (Handles \cup {"dev", "device_handle", "IOHIDDevice"})
    /\ UNCHANGED <<worldVars, initialised, error, pc, call, calls, listVars, path>>
-----------------------------------------------------------------------------
Vendors == {k.vendor_id : k \in Kinds}

(* Nobody asks for the serial number of a device that has none. *)
Serials == ({k.serial : k \in Kinds} \ {Missing}) \cup {AnySerial}

Next ==
    \/ \E p \in Places : Plug(p)
    \/ \E v \in Vendors \cup {0} : hid_enumerate(v)
    \/ \E v \in Vendors, serial \in Serials : hid_open(v, serial)
    \/ \E p \in Paths : hid_open_path(p)
    \/ hid_free_enumeration \/ hid_close \/ hid_exit
    \/ libusb_get_device_list \/ udev_enumerate \/ IOHIDManagerCopyDevices
    \/ CM_Get_Device_Interface_List_Size \/ CM_Get_Device_Interface_List \/ netbsd_enumerate
    \/ Look \/ Describe \/ netbsd_walk_again
    \/ ListEmpty \/ ListAnswered \/ ListSearched \/ Choose
    \/ OpenPath

Spec == Init /\ [][Next]_vars

(***************************************************************************)
(* Properties.                                                             *)
(***************************************************************************)
(* The list is complete. *)
Listed ==
    \/ pc = "choose"
    \/ /\ pc = "done" /\ call.function = "hid_enumerate"
       /\ answer = "list" \/ (answer = "NULL" /\ error \in {"No HID devices", NoError})

UsagesOf(k) == IF backend \in {"linux", "mac", "netbsd"} THEN 1..k.usages ELSE {0}

(* What a list says of a place: its usages, and that it says none twice.   *)
UsagesIn(entries, p) == {entries[i].usage : i \in {j \in DOMAIN entries : entries[j].place = p}}
NoneTwice(entries, p) ==
    \A i, j \in DOMAIN entries :
        entries[i].place = p /\ entries[j].place = p /\ entries[i].usage = entries[j].usage => i = j

(* hid_enumerate: a device that is there all the time is listed, with each *)
(* of its usages once (or once without any, if its descriptor was          *)
(* unreadable), whatever comes and goes beside it and however often the    *)
(* system's list is asked for; and what is listed is of the vendor asked   *)
(* for, unless it has gone since.                                          *)
ListedOnce ==
    Listed =>
        /\ \A p \in steady \cap Occupied :
               Wanted(At(p).kind.vendor_id) =>
                   /\ UsagesIn(list, p) \in {UsagesOf(At(p).kind), {0}}
                   /\ NoneTwice(list, p)
        /\ \A i \in DOMAIN list : Wanted(list[i].vendor_id) \/ list[i].place \notin steady

(* hid_open: the device opened is one that was asked for, by vendor and    *)
(* serial number, although it is opened by a path found earlier.  Where a  *)
(* path names a place this holds as long as nothing changed there.         *)
OpenedIsRequested ==
    pc = "done" /\ device # NoKind /\ call.function = "hid_open" =>
        \/ /\ device.vendor_id = call.vendor_id
           /\ call.serial \in {AnySerial, device.serial}
        \/ backend \in {"libusb", "linux", "netbsd"} /\ path[1] \notin steady

Owned ==
    IF answer = "list" THEN {"list"}
    ELSE IF device = NoKind THEN {}
    ELSE CASE backend = "mac" -> {"dev", "IOHIDDevice", "device_handle"}
           [] backend = "netbsd" -> {"dev"} \cup Handles
           [] OTHER -> {"dev", "device_handle"}

(* Whatever fails and whenever the device goes, a call leaves nothing      *)
(* behind but its answer: the list, or a device with its handle, which     *)
(* hid_free_enumeration and hid_close give back.  On NetBSD each success   *)
(* loses drvctl, and a device that vanished while it was opened is         *)
(* answered without any handle.                                            *)
NothingLeaked == pc = "done" => held \ {"lost drvctl"} = Owned

(* "NULL on failure.  Call hid_error(NULL) to get the failure reason":     *)
(* there is one, but for the empty list of NetBSD.                         *)
NullExplained ==
    pc = "done" /\ answer = "NULL" =>
        \/ error # NoError
        \/ backend = "netbsd" /\ call.function # "hid_open_path" /\ list = <<>>
=============================================================================
