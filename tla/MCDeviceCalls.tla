---------------------------- MODULE MCDeviceCalls ----------------------------
(* Instances of DeviceCalls: a device with one report, one with two report IDs
   and no strings. *)
EXTENDS DeviceCalls

AllBackends == {"libusb", "linux", "netbsd", "mac", "windows"}
Plain == [size |-> [r \in {0} |-> 1], text |-> <<1, 2>>]
Numbered == [size |-> [r \in {1, 2} |-> r], text |-> <<>>]
BothDevices == {Plain, Numbered}
==============================================================================
