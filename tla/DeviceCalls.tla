----------------------------- MODULE DeviceCalls -----------------------------
(***************************************************************************)
(* The calls on an open device other than hid_read, in all five backends:  *)
(* output and feature reports sent, feature and input reports fetched,     *)
(* strings, device info and report descriptor, and hid_error after each.   *)
(* One thread makes the calls; the device may go between and during them.  *)
(*                                                                         *)
(* A buffer is a sequence of bytes whose first one is the report ID, 0 for *)
(* a device without report IDs.  What the backends do with that byte, with *)
(* a buffer shorter than the report, and with the error of an earlier call *)
(* differs, and is kept; texts are abstracted to the call that left them.  *)
(* A hid_write that times out on Windows is left to WinIO.                 *)
(***************************************************************************)
EXTENDS Integers, Sequences, SequencesExt, FiniteSetsExt

CONSTANTS
    Backends,        \* the backends to look at
    Devices,         \* devices: the sizes of their reports without the ID, and their text
    DescriptorSize,  \* the size of its report descriptor
    MaxLength,       \* the longest buffer an application passes
    MaxCalls         \* bound: calls made

MaxReport == 65535   \* wLength has 16 bits

ASSUME DevicesAssumption ==
    /\ Backends \subseteq {"libusb", "linux", "netbsd", "mac", "windows"}
    /\ \A d \in Devices :
         /\ \A r \in DOMAIN d.size : r \in Nat /\ d.size[r] \in 0..MaxReport
         /\ DOMAIN d.size # {}
         /\ 0 \in DOMAIN d.size => DOMAIN d.size = {0}   \* all reports have IDs, or there is one without
         /\ d.text \in Seq(Nat \ {0})
    /\ DescriptorSize \in Nat /\ MaxLength \in Nat /\ MaxCalls \in Nat

VARIABLES
    backend,         \* the backend in use
    size,            \* the device's report IDs and the sizes of the reports
    out_endpoint,    \* libusb: dev->output_endpoint > 0
    text,            \* the text of its strings, <<>> if it has none
    plugged,         \* the device is there
    reports,         \* the contents of its reports, by type and ID
    sent,            \* what the application sent that they may come from
    write_buf,       \* Windows: dev->write_buf
    feature_buf,     \* Windows: dev->feature_buf
    device_info,     \* dev->device_info: "NULL", or the call that made it
    disconnected,    \* macOS: dev->disconnected
    error,           \* the call that left dev's last error, or NoError
    last,            \* the last call and its answer
    calls,           \* the number of calls made
    crashed          \* a NULL pointer was followed

openVars == <<backend, size, out_endpoint, text>>
deviceVars == <<plugged, reports, sent>>
bufferVars == <<write_buf, feature_buf>>
vars == <<openVars, deviceVars, bufferVars, device_info, disconnected, error, last, calls, crashed>>

NoError == "Success"
Terminator == 0
Garbage == -1        \* a byte nobody has written
Unsupported == 3     \* a report ID the device does not have

numbered == 0 \notin DOMAIN size
Types == {"input", "output", "feature"}
Repeat(byte, n) == [i \in 1..n |-> byte]
Upto(s, n) == SubSeq(s, 1, IF n < Len(s) THEN n ELSE Len(s))

(* caps.OutputReportByteLength, caps.FeatureReportByteLength *)
ReportByteLength == 1 + Max({size[r] : r \in DOMAIN size})

(* What an application passes: nothing, or an ID and data. *)
IDs == DOMAIN size \cup {Unsupported}
Filled(r, n) == <<r>> \o Repeat(1, n)
Buffers == {<<>>} \cup {Filled(r, n) : r \in IDs, n \in 0..(MaxLength - 1)}

Init ==
    /\ backend \in Backends /\ \E d \in Devices : size = d.size /\ text = d.text
    /\ out_endpoint \in BOOLEAN /\ (backend # "libusb" => out_endpoint)
    /\ plugged = TRUE /\ disconnected = FALSE
    /\ reports = [t \in Types |-> [r \in DOMAIN size |-> Repeat(2, size[r])]]
    /\ sent = [t \in Types |-> [r \in DOMAIN size |-> {reports[t][r]}]]
    /\ write_buf = <<>> /\ feature_buf = <<>>
    /\ device_info \in (IF backend = "windows" THEN {"NULL", "hid_open_path"} ELSE {"NULL"})
    /\ error = NoError /\ calls = 0 /\ crashed = FALSE
    /\ last = [call |-> "hid_open_path", asked |-> <<>>, res |-> 0, data |-> <<>>]

(***************************************************************************)
(* The device and the system under the library.                            *)
(***************************************************************************)
Unplug ==
    /\ plugged /\ plugged' = FALSE
    /\ UNCHANGED <<openVars, reports, sent, bufferVars, device_info, disconnected, error, last, calls, crashed>>

(* macOS: hid_device_removal_callback runs some time after. *)
hid_device_removal_callback ==
    /\ backend = "mac" /\ ~plugged /\ ~disconnected
    /\ disconnected' = TRUE
    /\ UNCHANGED <<openVars, deviceVars, bufferVars, device_info, error, last, calls, crashed>>

Takes(r, data) == plugged /\ r \in DOMAIN size /\ Len(data) <= size[r]

(* A report arrives: what the application gave is in the device as data.   *)
Arrives(t, r, given, data) ==
    /\ Takes(r, data)
    /\ reports' = [reports EXCEPT ![t][r] = data]
    /\ sent' = [sent EXCEPT ![t][r] = {given}]
    /\ UNCHANGED plugged

(* A transfer fails: it did not arrive, or arrived and nobody heard of it. *)
FailsToArrive(t, r, given, data) ==
    /\ \/ UNCHANGED <<reports, sent>>
       \/ /\ Takes(r, data)
          /\ reports' = [reports EXCEPT ![t][r] = data]
          /\ sent' = [sent EXCEPT ![t][r] = @ \cup {given}]
    /\ UNCHANGED plugged

(* A report on the interrupt endpoint that the device does not know. *)
Ignored(r, data) == plugged /\ ~Takes(r, data) /\ UNCHANGED deviceVars

(* What travels on the bus for a report: its ID only if there are several. *)
OnTheBus(t, r) == (IF numbered THEN <<r>> ELSE <<>>) \o reports[t][r]

(* What the device makes of it. *)
Received(bytes) == IF numbered /\ bytes # <<>> THEN Tail(bytes) ELSE bytes

(***************************************************************************)
(* The end of a call.                                                      *)
(***************************************************************************)
Answers(call, asked, res, data) ==
    /\ calls < MaxCalls /\ calls' = calls + 1
    /\ last' = [call |-> call, asked |-> asked, res |-> res, data |-> data]
    /\ UNCHANGED <<openVars, disconnected, crashed>>

(* register_device_error, register_string_error, register_winapi_error *)
Refuses(call, asked) == Answers(call, asked, -1, <<>>) /\ error' = call

(* Mutant: nothing is cleared, as on NetBSD. *)
Succeeds_Stale(call, asked, res, data) == Answers(call, asked, res, data) /\ UNCHANGED error

Succeeds(call, asked, res, data) == Answers(call, asked, res, data) /\ error' = NoError

(* "Zero buffer/length": all that most calls check of their arguments. *)
ZeroBuffer(call, asked) ==
    asked = <<>> /\ Refuses(call, asked) /\ UNCHANGED <<deviceVars, bufferVars, device_info>>

(***************************************************************************)
(* Sending.                                                                *)
(***************************************************************************)
TypeOf(call) == IF call \in {"hid_send_feature_report", "hid_get_feature_report"} THEN "feature"
                ELSE IF call = "hid_get_input_report" THEN "input" ELSE "output"

SendCalls == {"hid_write", "hid_send_output_report", "hid_send_feature_report"}

(* The transfer that all sends come to: bytes go out for the buffer asked. *)
Transfer(call, asked, bytes, res, dropped) ==
    LET t == TypeOf(call)
        r == asked[1]
    IN /\ \/ Arrives(t, r, Tail(asked), Received(bytes)) /\ Succeeds(call, asked, res, <<>>)
          \/ FailsToArrive(t, r, Tail(asked), Received(bytes)) /\ Refuses(call, asked)
          \/ dropped /\ Ignored(r, Received(bytes)) /\ Succeeds(call, asked, res, <<>>)
       /\ UNCHANGED device_info

(* A report number of 0 is not sent. *)
WithoutZero(asked) == IF asked[1] = 0 THEN Tail(asked) ELSE asked

(* A control transfer reaches the device or fails; to the interrupt        *)
(* endpoint a report that the device does not know may go as well.         *)
Sends(call, asked) ==
    /\ asked # <<>> /\ UNCHANGED bufferVars
    /\ Transfer(call, asked, WithoutZero(asked), Len(asked), call = "hid_write")

libusb_send(call, asked) == ZeroBuffer(call, asked) \/ Sends(call, asked)

(* Without an OUT endpoint it is hid_send_output_report, name included. *)
libusb_write(asked) ==
    libusb_send(IF out_endpoint THEN "hid_write" ELSE "hid_send_output_report", asked)

(* write and the HIDIOCS ioctls: the kernel drops a report number of 0. *)
linux_write(asked) == ZeroBuffer("hid_write", asked) \/ Sends("hid_write", asked)
linux_send(call, asked) == ZeroBuffer(call, asked) \/ Sends(call, asked)

mac_set_report(call, asked) ==
    \/ ZeroBuffer(call, asked)
    \/ /\ asked # <<>> /\ disconnected
       /\ Refuses(call, asked) /\ UNCHANGED <<deviceVars, bufferVars, device_info>>
    \/ /\ asked # <<>> /\ ~disconnected /\ UNCHANGED bufferVars
       /\ Transfer(call, asked, WithoutZero(asked), Len(asked), FALSE)

(* NetBSD: the ID only picks the handle, whose report the kernel fills     *)
(* from ucr_data, of which as much is set as the caller gave.  An error is *)
(* registered, and never cleared.                                          *)
netbsd_set_report(call, asked) ==
    LET t == TypeOf(call)
        r == asked[1]
        given == Tail(asked)
        ucr_data == given \o Repeat(Garbage, size[r] - Len(given))
    IN /\ UNCHANGED <<bufferVars, device_info>>
       /\ \/ asked = <<>> /\ Refuses(call, asked) /\ UNCHANGED deviceVars
          \/ asked # <<>> /\ r \notin DOMAIN size /\ Refuses(call, asked) /\ UNCHANGED deviceVars
          \/ /\ asked # <<>> /\ r \in DOMAIN size
             /\ \/ /\ Arrives(t, r, given, Upto(ucr_data, size[r]))
                   /\ Answers(call, asked, Len(asked), <<>>) /\ UNCHANGED error
                \/ /\ FailsToArrive(t, r, given, Upto(ucr_data, size[r]))
                   /\ Refuses(call, asked)

(* Mutant: the end of the cached buffer is left as it was. *)
Padded_Stale(asked, cached) ==
    asked \o SubSeq(cached \o Repeat(Garbage, ReportByteLength - Len(cached)), Len(asked) + 1, ReportByteLength)

(* The cached buffer, with the report copied and the rest set to 0. *)
Padded(asked, cached) == asked \o Repeat(0, ReportByteLength - Len(asked))

(* The driver wants at least the longest report, and sends of it what the  *)
(* report with that ID takes.                                              *)
ByDriver(bytes) == IF bytes[1] \in DOMAIN size THEN Upto(bytes, 1 + size[bytes[1]]) ELSE bytes

Short(asked) == Len(asked) < ReportByteLength

windows_send(call, asked, cached, res) ==
    \/ ZeroBuffer(call, asked)
    \/ /\ asked # <<>>
       /\ LET buf == IF Short(asked) THEN Padded(asked, cached) ELSE asked
          IN Transfer(call, asked, WithoutZero(ByDriver(buf)), res, FALSE)

(* The buffer after the call: written only when it was needed. *)
Cached(asked, cached) == IF asked # <<>> /\ Short(asked) THEN Padded(asked, cached) ELSE cached

(* The answer is what WriteFile wrote, the padding included. *)
windows_write(asked) ==
    /\ windows_send("hid_write", asked, write_buf, IF Short(asked) THEN ReportByteLength ELSE Len(asked))
    /\ write_buf' = Cached(asked, write_buf) /\ UNCHANGED feature_buf

windows_send_feature_report(asked) ==
    /\ windows_send("hid_send_feature_report", asked, feature_buf, Len(asked))
    /\ feature_buf' = Cached(asked, feature_buf) /\ UNCHANGED write_buf

windows_send_output_report(asked) ==
    /\ windows_send("hid_send_output_report", asked, write_buf, Len(asked))
    /\ write_buf' = Cached(asked, write_buf) /\ UNCHANGED feature_buf

Send(call, asked) ==
    \/ backend = "libusb" /\ call = "hid_write" /\ libusb_write(asked)
    \/ backend = "libusb" /\ call # "hid_write" /\ libusb_send(call, asked)
    \/ backend = "linux" /\ call = "hid_write" /\ linux_write(asked)
    \/ backend = "linux" /\ call # "hid_write" /\ linux_send(call, asked)
    \/ backend = "mac" /\ mac_set_report(call, asked)
    \/ backend = "netbsd" /\ netbsd_set_report(call, asked)
    \/ backend = "windows" /\ call = "hid_write" /\ windows_write(asked)
    \/ backend = "windows" /\ call = "hid_send_feature_report" /\ windows_send_feature_report(asked)
    \/ backend = "windows" /\ call = "hid_send_output_report" /\ windows_send_output_report(asked)

(***************************************************************************)
(* Fetching.                                                               *)
(***************************************************************************)
GetCalls == {"hid_get_feature_report", "hid_get_input_report"}

(* The application's buffer with bytes laid over it behind the first n.    *)
Over(buffer, n, bytes) ==
    [i \in DOMAIN buffer |-> IF i - n \in DOMAIN bytes THEN bytes[i - n] ELSE buffer[i]]

(* Mutant: the byte that was skipped is not counted. *)
FetchedLength_Bare(asked, bytes) == Len(bytes)

FetchedLength(asked, bytes) == IF asked[1] = 0 THEN Len(bytes) + 1 ELSE Len(bytes)

(* With a report number of 0 the report lands behind it. *)
Fetch(call, asked) ==
    LET r == asked[1]
        skipped == IF r = 0 THEN 1 ELSE 0
        bytes == Upto(OnTheBus(TypeOf(call), r), Len(asked) - skipped)
    IN \/ /\ plugged /\ r \in DOMAIN size
          /\ Succeeds(call, asked, FetchedLength(asked, bytes), Over(asked, skipped, bytes))
       \/ Refuses(call, asked)

libusb_get(call, asked) == ZeroBuffer(call, asked) \/ (asked # <<>> /\ Fetch(call, asked))

linux_get(call, asked) == ZeroBuffer(call, asked) \/ (asked # <<>> /\ Fetch(call, asked))

mac_get_report(call, asked) ==
    \/ ZeroBuffer(call, asked)
    \/ asked # <<>> /\ disconnected /\ Refuses(call, asked)
    \/ asked # <<>> /\ ~disconnected /\ Fetch(call, asked)

(* Everything behind the ID is copied, however long the report was. *)
netbsd_get_report(call, asked) ==
    \/ asked = <<>> /\ Refuses(call, asked)
    \/ /\ asked # <<>> /\ asked[1] \in DOMAIN size /\ plugged
       /\ LET room == Len(asked) - 1
              ucr_data == reports[TypeOf(call)][asked[1]] \o Repeat(Garbage, room)
          IN Answers(call, asked, Len(asked), Over(asked, 1, Upto(ucr_data, room)))
       /\ UNCHANGED error
    \/ asked # <<>> /\ Refuses(call, asked)

windows_get_report(call, asked) == ZeroBuffer(call, asked) \/ (asked # <<>> /\ Fetch(call, asked))

Get(call, asked) ==
    /\ \/ backend = "libusb" /\ libusb_get(call, asked)
       \/ backend = "linux" /\ linux_get(call, asked)
       \/ backend = "mac" /\ mac_get_report(call, asked)
       \/ backend = "netbsd" /\ netbsd_get_report(call, asked)
       \/ backend = "windows" /\ windows_get_report(call, asked)
    /\ UNCHANGED <<deviceVars, bufferVars, device_info>>

(***************************************************************************)
(* Device info: made at the first call that wants it and kept until        *)
(* hid_close; Windows makes it when the device is opened, or goes without. *)
(***************************************************************************)
InfoCalls == {"hid_get_device_info"}
StringCalls == {"hid_get_string"}   \* of the manufacturer, the product or the serial number, alike

(* NetBSD clears nothing, macOS not in the call that makes the info. *)
ClearsError == backend # "netbsd" /\ (backend = "mac" => device_info # "NULL")

(* Its address is the answer. *)
Info(call, asked) ==
    /\ device_info' = IF device_info = "NULL" THEN call ELSE device_info
    /\ Answers(call, asked, 0, <<>>)
    /\ error' = IF ClearsError THEN NoError ELSE error

NoInfo(call, asked) == device_info = "NULL" /\ Refuses(call, asked) /\ UNCHANGED device_info

libusb_get_device_info(call) == Info(call, <<>>) \/ NoInfo(call, <<>>)
mac_get_device_info(call) == Info(call, <<>>) \/ NoInfo(call, <<>>)

(* Linux asks the file and udev, NetBSD the device. *)
linux_get_device_info(call) ==
    \/ (device_info # "NULL" \/ plugged) /\ Info(call, <<>>)
    \/ NoInfo(call, <<>>)

netbsd_get_device_info(call) ==
    \/ (device_info # "NULL" \/ plugged) /\ Info(call, <<>>)
    \/ NoInfo(call, <<>>)

windows_get_device_info(call) ==
    \/ device_info # "NULL" /\ Info(call, <<>>)
    \/ NoInfo(call, <<>>)

hid_get_device_info(call) ==
    /\ \/ backend = "libusb" /\ libusb_get_device_info(call)
       \/ backend = "mac" /\ mac_get_device_info(call)
       \/ backend = "linux" /\ linux_get_device_info(call)
       \/ backend = "netbsd" /\ netbsd_get_device_info(call)
       \/ backend = "windows" /\ windows_get_device_info(call)
    /\ UNCHANGED <<deviceVars, bufferVars>>

(***************************************************************************)
(* Strings, into a buffer of maxlen characters.                            *)
(***************************************************************************)
(* wcsncpy, and a terminator in the last place. *)
Copied(string, maxlen) ==
    [i \in 1..maxlen |-> IF i <= Len(string) /\ i < maxlen THEN string[i] ELSE Terminator]

Gives(call, asked) ==
    /\ Answers(call, asked, 0, Copied(text, Len(asked)))
    /\ error' = IF ClearsError THEN NoError ELSE error

(* libusb asks the device each time; a text of no bytes is an error too.   *)
libusb_get_string(call, asked) ==
    /\ UNCHANGED device_info
    /\ \/ plugged /\ text # <<>> /\ Gives(call, asked)
       \/ Refuses(call, asked)

(* The others take it from the device info, if there is or can be one. *)
info_get_string(call, asked, makes) ==
    \/ /\ device_info # "NULL" \/ makes
       /\ device_info' = IF device_info = "NULL" THEN call ELSE device_info
       /\ Gives(call, asked)
    \/ NoInfo(call, asked)

linux_get_string(call, asked) == info_get_string(call, asked, plugged)
mac_get_string(call, asked) == info_get_string(call, asked, TRUE)
windows_get_string(call, asked) == info_get_string(call, asked, FALSE)

(* NetBSD tests dev, which is not NULL, where it means hdi. *)
netbsd_get_string(call, asked) ==
    \/ /\ device_info # "NULL" \/ plugged
       /\ device_info' = IF device_info = "NULL" THEN call ELSE device_info
       /\ Gives(call, asked)
    \/ /\ device_info = "NULL" /\ calls < MaxCalls /\ calls' = calls + 1
       /\ crashed' = TRUE /\ error' = "hid_get_device_info"
       /\ UNCHANGED <<openVars, device_info, disconnected, last>>

GetString(call, asked) ==
    /\ \/ ZeroBuffer(call, asked)
       \/ /\ asked # <<>>
          /\ \/ backend = "libusb" /\ libusb_get_string(call, asked)
             \/ backend = "linux" /\ linux_get_string(call, asked)
             \/ backend = "mac" /\ mac_get_string(call, asked)
             \/ backend = "windows" /\ windows_get_string(call, asked)
             \/ backend = "netbsd" /\ netbsd_get_string(call, asked)
    /\ UNCHANGED <<deviceVars, bufferVars>>

(* Linux and macOS cannot; Windows and NetBSD do not look at the length,   *)
(* and want room for the text, NetBSD but for its terminator.              *)
libusb_get_indexed_string(call, asked) ==
    ZeroBuffer(call, asked) \/ (asked # <<>> /\ libusb_get_string(call, asked))

netbsd_get_indexed_string(call, asked) ==
    \/ plugged /\ text # <<>> /\ asked # <<>> /\ Len(text) <= Len(asked) /\ Gives(call, asked)
    \/ Refuses(call, asked)

windows_get_indexed_string(call, asked) ==
    \/ plugged /\ text # <<>> /\ Len(text) < Len(asked) /\ Gives(call, asked)
    \/ Refuses(call, asked)

hid_get_indexed_string(call, asked) ==
    /\ \/ backend = "libusb" /\ libusb_get_indexed_string(call, asked)
       \/ backend = "netbsd" /\ netbsd_get_indexed_string(call, asked)
       \/ backend = "windows" /\ windows_get_indexed_string(call, asked)
       \/ backend \in {"linux", "mac"} /\ Refuses(call, asked)
    /\ UNCHANGED <<deviceVars, bufferVars, device_info>>

(***************************************************************************)
(* The rest.                                                               *)
(***************************************************************************)
GivesDescriptor(call, asked) ==
    Answers(call, asked, Len(Upto(Repeat(1, DescriptorSize), Len(asked))), <<>>)

(* Windows: "if (res == 0)" is taken for success, but res is a length.      *)
windows_get_report_descriptor(call, asked) ==
    \/ /\ plugged /\ GivesDescriptor(call, asked)
       /\ error' = IF asked = <<>> \/ DescriptorSize = 0 THEN NoError ELSE call
    \/ Refuses(call, asked)

FetchesDescriptor(call, asked, there) ==
    \/ ZeroBuffer(call, asked)
    \/ asked # <<>> /\ Refuses(call, asked)
    \/ asked # <<>> /\ there /\ GivesDescriptor(call, asked) /\ error' = NoError

libusb_get_report_descriptor(call, asked) == FetchesDescriptor(call, asked, plugged)
linux_get_report_descriptor(call, asked) == FetchesDescriptor(call, asked, plugged)
mac_get_report_descriptor(call, asked) == FetchesDescriptor(call, asked, TRUE)

netbsd_get_report_descriptor(call, asked) ==
    \/ plugged /\ GivesDescriptor(call, asked) /\ UNCHANGED error
    \/ Refuses(call, asked)

hid_get_report_descriptor(call, asked) ==
    /\ \/ backend = "libusb" /\ libusb_get_report_descriptor(call, asked)
       \/ backend = "linux" /\ linux_get_report_descriptor(call, asked)
       \/ backend = "mac" /\ mac_get_report_descriptor(call, asked)
       \/ backend = "netbsd" /\ netbsd_get_report_descriptor(call, asked)
       \/ backend = "windows" /\ windows_get_report_descriptor(call, asked)
    /\ UNCHANGED <<deviceVars, bufferVars, device_info>>

(* dev->device_info->path is read without a look at device_info.           *)
hid_winapi_get_container_id(call, asked) ==
    /\ backend = "windows"
    /\ \/ asked = <<>> /\ Refuses(call, asked)
       \/ /\ asked # <<>> /\ device_info = "NULL"
          /\ calls < MaxCalls /\ calls' = calls + 1 /\ crashed' = TRUE /\ error' = NoError
          /\ UNCHANGED <<openVars, disconnected, last>>
       \/ asked # <<>> /\ device_info # "NULL" /\ Refuses(call, asked)
       \/ asked # <<>> /\ device_info # "NULL" /\ plugged /\ Succeeds(call, asked, 0, <<>>)
    /\ UNCHANGED <<deviceVars, bufferVars, device_info>>

hid_darwin_get_location_id(call, asked) ==
    /\ backend = "mac"
    /\ Refuses(call, asked) \/ (asked # <<>> /\ Succeeds(call, asked, 0, <<>>))
    /\ UNCHANGED <<deviceVars, bufferVars, device_info>>

(* hid_error(dev): the text of the last error, and how no error looks.     *)
hid_error == error
-----------------------------------------------------------------------------
(* Room for a text or a descriptor; its contents before the call matter not. *)
Rooms == {Repeat(1, n) : n \in 0..MaxLength}

Call ==
    \/ \E call \in SendCalls, asked \in Buffers : Send(call, asked)
    \/ \E call \in GetCalls, asked \in Buffers : Get(call, asked)
    \/ \E call \in InfoCalls : hid_get_device_info(call)
    \/ \E call \in StringCalls, asked \in Rooms : GetString(call, asked)
    \/ \E asked \in Rooms : hid_get_indexed_string("hid_get_indexed_string", asked)
    \/ \E asked \in Rooms : hid_get_report_descriptor("hid_get_report_descriptor", asked)
    \/ \E asked \in Rooms : hid_winapi_get_container_id("hid_winapi_get_container_id", asked)
    \/ \E asked \in Rooms : hid_darwin_get_location_id("hid_darwin_get_location_id", asked)

Next == ~crashed /\ (Unplug \/ hid_device_removal_callback \/ Call)

Spec == Init /\ [][Next]_vars

(***************************************************************************)
(* Properties.                                                             *)
(***************************************************************************)

(* A report is what the application sent, byte by byte.                    *)
IsCopy(data, given) ==
    \A i \in DOMAIN data : data[i] = IF i \in DOMAIN given THEN given[i] ELSE 0

(* Stack bytes complete a report that was sent too short on NetBSD.        *)
Completed(data, given) ==
    /\ backend = "netbsd"
    /\ IsCopy(Upto(data, Len(given)), given)

(* The device never holds anything but a report that the application sent  *)
(* under this ID, at most completed by zeros: not its own ID, not the end  *)
(* of an earlier report that a cached buffer still had, whatever calls     *)
(* failed in between and whether they failed before or after they arrived. *)
DeviceHoldsWhatWasSent ==
    \A t \in Types, r \in DOMAIN size :
        \E given \in sent[t][r] :
            /\ Len(reports[t][r]) >= Len(Upto(given, size[r]))
            /\ IsCopy(reports[t][r], given) \/ Completed(reports[t][r], given)

GetSucceeded == last.call \in GetCalls /\ last.res >= 0

(* hid_get_feature_report: "returns the number of bytes read plus one for  *)
(* the report ID (which is still in the first byte)".  NetBSD returns the  *)
(* length of the buffer; the report is in its place there too.             *)
FetchedIsTheReport ==
    GetSucceeded =>
        LET report == Upto(<<last.asked[1]>> \o reports[TypeOf(last.call)][last.asked[1]], Len(last.asked))
        IN /\ Upto(last.data, Len(report)) = report
           /\ backend # "netbsd" => last.res = Len(report)

(* The calls that may leave the error of an earlier one: all on NetBSD,    *)
(* the report descriptor on Windows, and where macOS makes its device info. *)
Forgetful ==
    \/ backend = "netbsd"
    \/ backend = "windows" /\ last.call = "hid_get_report_descriptor"
    \/ backend = "mac" /\ last.call \in InfoCalls \cup StringCalls

(* hid_error tells of the last call and of no earlier one: whatever fails  *)
(* says why, and "if there was no error in the last function call - the    *)
(* returned string clearly indicates that" (but for the forgetful calls).  *)
ErrorTellsOfLastCall ==
    ~crashed =>
        /\ last.res = -1 => hid_error = last.call
        /\ last.res >= 0 /\ ~Forgetful => hid_error = NoError

=============================================================================
