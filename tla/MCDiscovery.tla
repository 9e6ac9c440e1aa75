---------------------------- MODULE MCDiscovery ----------------------------
(* Two devices of one vendor, that differ by serial number, and one of     *)
(* another; two places to plug them in.                                    *)
EXTENDS Discovery

AllBackends == {"libusb", "linux", "netbsd", "mac", "windows"}
TwoPlaces == {1, 2}
ThreeKinds == {[vendor_id |-> 1, serial |-> "A", usages |-> 2, ids |-> 1],
               [vendor_id |-> 1, serial |-> "B", usages |-> 1, ids |-> 2],
               [vendor_id |-> 2, serial |-> "A", usages |-> 1, ids |-> 1]}
TwoChildren == <<"uhid0", "uhid1">>
=============================================================================
