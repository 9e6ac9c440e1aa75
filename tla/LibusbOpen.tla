----------------------------- MODULE LibusbOpen -----------------------------
(***************************************************************************)
(* Opening and closing one HID interface through the libusb backend        *)
(* (libusb/hid.c: hid_init, hid_exit, hid_open_path,                       *)
(* hid_libusb_wrap_sys_device, hidapi_initialize_device, hid_close,        *)
(* hid_error), with what these calls own: the device structure, libusb's   *)
(* device list and configuration descriptor, the device handle, the        *)
(* claimed interface and the detached kernel driver.                       *)
(*                                                                         *)
(* The threads (or processes) of Openers each open and close a device of   *)
(* their own, on the same physical interface; every call of libusb is a    *)
(* step and may fail.  The read thread is the subject of LibusbRead: here  *)
(* it starts.  init_xbox360 and init_xboxone, which are done between the   *)
(* claim and the return, own nothing when they are over.                   *)
(***************************************************************************)
EXTENDS Integers, LibusbError

CONSTANTS
    Openers,      \* threads that open and close the interface
    Nobody,       \* "not claimed", not an opener
    Devices,      \* number of entries of libusb's device list
    Alternates,   \* number of alternate settings of the interface
    Concurrent    \* may two openers be inside calls at the same time?

ASSUME OpenersAssumption == Nobody \notin Openers
ASSUME SizesAssumption == Devices \in Nat /\ Alternates \in Nat
ASSUME ConcurrentAssumption == Concurrent \in BOOLEAN

VARIABLES
    pc,                 \* where each opener is
    api,                \* the function it is in, or opened its device with
    dev_index,          \* d of hid_open_path: device list entries taken
    alt,                \* k of hid_open_path: alternate settings tried
    is_driver_detached, \* dev->is_driver_detached
    owned,              \* what an opener holds: a set of resources
    good_open,          \* the result of hidapi_initialize_device
    last_global_error,  \* the global error context
    reported,           \* the error registered last, as hid_error should tell
    answer,             \* what hid_error(NULL) told last, and about what
    usb_context,        \* is libusb initialised?
    position,           \* where the device is in libusb's list, 0: unplugged
    had_driver,         \* was the kernel driver bound before any call?
    driver,             \* is the kernel driver bound to the interface?
    claimed             \* who has claimed the interface

vars == <<pc, api, dev_index, alt, is_driver_detached, owned, good_open, last_global_error,
          reported, answer, usb_context, position, had_driver, driver, claimed>>

errorVars == <<last_global_error, reported>>
kernelVars == <<driver, claimed>>
fixed == <<usb_context, position, answer, had_driver>>

Resources == {"struct", "list", "config", "handle"}
Calls == {"hid_open_path", "hid_libusb_wrap_sys_device"}
Resting == {"idle", "open"}
States == Resting \cup
    {"alloc", "list", "next", "config", "alternate", "wrap", "detach", "claim",
     "reattach", "failed", "end", "err", "release", "attach", "close"}

Init ==
    /\ pc = [t \in Openers |-> "idle"]
    /\ api \in [Openers -> Calls]
    /\ dev_index = [t \in Openers |-> 0] /\ alt = [t \in Openers |-> 0]
    /\ is_driver_detached = [t \in Openers |-> FALSE]
    /\ owned = [t \in Openers |-> {}]
    /\ good_open = [t \in Openers |-> FALSE]
    /\ last_global_error = CleanContext /\ reported = NoText
    /\ answer = [told |-> NoText, about |-> NoText]
    /\ usb_context = FALSE
    /\ position \in 0..Devices
    /\ had_driver \in BOOLEAN /\ driver = had_driver /\ claimed = Nobody

(***************************************************************************)
(* Helpers: a step of an opener's program, the error it leaves, and what   *)
(* it acquires or gives back.                                              *)
(***************************************************************************)
Goes(t, from, to) == pc[t] = from /\ pc' = [pc EXCEPT ![t] = to]

Acquires(t, resource) == owned' = [owned EXCEPT ![t] = @ \cup {resource}]
GivesBack(t, resources) == owned' = [owned EXCEPT ![t] = @ \ resources]

LibusbError(code, context) ==
    /\ last_global_error' = register_libusb_error(last_global_error, code, context)
    /\ reported' = Text(code, context)

(* The copy of a message may find no memory. *)
StringErr(message) ==
    /\ \E allocated \in BOOLEAN :
         last_global_error' = register_string_error(last_global_error, message, allocated)
    /\ reported' = Text(StringError, message)

NoErrorYet == UNCHANGED errorVars

(* Any code of libusb's will do; -3 is what libusb_init fails with here. *)
Codes == {-1}

loopVars == <<dev_index, alt, is_driver_detached, good_open>>

(***************************************************************************)
(* hid_init and hid_exit.                                                  *)
(***************************************************************************)

(* hid_init clears the global error first.  It is the first thing the two  *)
(* functions do, with the failure of libusb_init passed on as NULL.        *)
Initialises(context_ok) ==
    /\ usb_context' = context_ok
    /\ usb_context => context_ok
    /\ IF context_ok
       THEN LibusbError(LIBUSB_SUCCESS, NULL)
       ELSE LibusbError(-3, "libusb_init")

(* May t enter a call?  Without Concurrent the calls exclude each other.   *)
MayCall(t) == Concurrent \/ \A u \in Openers : pc[u] \in Resting

CallOpen(t, call) ==
    /\ MayCall(t) /\ pc[t] = "idle"
    /\ \E context_ok \in BOOLEAN :
        /\ Initialises(context_ok)
        /\ pc' = [pc EXCEPT ![t] = IF context_ok THEN "alloc" ELSE "idle"]
    /\ api' = [api EXCEPT ![t] = call]
    /\ dev_index' = [dev_index EXCEPT ![t] = 0] /\ alt' = [alt EXCEPT ![t] = 0]
    /\ good_open' = [good_open EXCEPT ![t] = FALSE]
    /\ owned' = [owned EXCEPT ![t] = {}]      \* what leaked before is not counted again
    /\ UNCHANGED <<is_driver_detached, answer, position, had_driver, kernelVars>>

hid_init ==
    /\ \A t \in Openers : pc[t] \in Resting
    /\ \E context_ok \in BOOLEAN : Initialises(context_ok)
    /\ UNCHANGED <<pc, api, loopVars, owned, answer, position, had_driver, kernelVars>>

(* Only when everything is closed, as its users must see to. *)
hid_exit ==
    /\ \A t \in Openers : pc[t] = "idle"
    /\ usb_context' = FALSE
    /\ last_global_error' = CleanContext /\ reported' = NoText
    /\ UNCHANGED <<pc, api, loopVars, owned, answer, position, had_driver, kernelVars>>

(* hid_error(NULL), whose text may find no memory. *)
hid_error ==
    /\ \A t \in Openers : pc[t] \in Resting
    /\ \E allocated \in BOOLEAN :
        /\ answer' = [told |-> ErrorAnswer(last_global_error, allocated), about |-> reported]
        /\ last_global_error' = AfterAnswer(last_global_error, allocated)
    /\ UNCHANGED <<pc, api, loopVars, owned, reported, usb_context, position, had_driver, kernelVars>>

(* new_hid_device *)
AllocFails(t) ==
    /\ Goes(t, "alloc", "idle")
    /\ StringErr("Couldn't allocate memory")
    /\ UNCHANGED <<api, loopVars, owned, fixed, kernelVars>>

Alloc(t) ==
    /\ Goes(t, "alloc", IF api[t] = "hid_open_path" THEN "list" ELSE "wrap")
    /\ Acquires(t, "struct")
    /\ NoErrorYet
    /\ UNCHANGED <<api, loopVars, fixed, kernelVars>>

(***************************************************************************)
(* hid_open_path: the loops over devices and alternate settings.           *)
(***************************************************************************)
ListFails(t) ==
    /\ Goes(t, "list", "idle")
    /\ \E code \in Codes : LibusbError(code, "libusb_get_device_list")
    /\ GivesBack(t, {"struct"})
    /\ UNCHANGED <<api, loopVars, fixed, kernelVars>>

GetList(t) ==
    /\ Goes(t, "list", "next")
    /\ Acquires(t, "list")
    /\ NoErrorYet
    /\ UNCHANGED <<api, loopVars, fixed, kernelVars>>

(* The loop ends with the list or with a good open. *)
ListEnds(t) ==
    /\ Goes(t, "next", "end")
    /\ dev_index[t] = Devices \/ good_open[t]
    /\ NoErrorYet
    /\ UNCHANGED <<api, loopVars, owned, fixed, kernelVars>>

NextDevice(t) ==
    /\ dev_index[t] < Devices /\ ~good_open[t]
    /\ dev_index' = [dev_index EXCEPT ![t] = @ + 1]
    /\ NoErrorYet
    /\ UNCHANGED <<api, alt, is_driver_detached, good_open, fixed, kernelVars>>

(* No device descriptor, or no configuration descriptor: continue. *)
SkipDevice(t) ==
    /\ Goes(t, "next", "next")
    /\ NextDevice(t)
    /\ UNCHANGED owned

ReadConfig(t) ==
    /\ Goes(t, "next", "alternate")
    /\ NextDevice(t)
    /\ Acquires(t, "config")

(* The setting is HID-like and its path is the one asked for only on the   *)
(* wanted device; all alternate settings of the interface have that path.  *)
Matches(t) == dev_index[t] = position

MoreAlternates(t) == Matches(t) /\ alt[t] < Alternates /\ ~good_open[t]

OpenHandle(t) ==
    /\ MoreAlternates(t)
    /\ Goes(t, "alternate", "detach")
    /\ alt' = [alt EXCEPT ![t] = @ + 1]
    /\ Acquires(t, "handle")
    /\ NoErrorYet
    /\ UNCHANGED <<api, dev_index, is_driver_detached, good_open, fixed, kernelVars>>

(* "break" leaves the alternate settings of this interface. *)
OpenHandleFails(t) ==
    /\ MoreAlternates(t)
    /\ Goes(t, "alternate", "config")
    /\ \E code \in Codes : LibusbError(code, "libusb_open")
    /\ UNCHANGED <<api, loopVars, owned, fixed, kernelVars>>

NoMoreAlternates(t) ==
    /\ ~MoreAlternates(t)
    /\ Goes(t, "alternate", "config")
    /\ NoErrorYet
    /\ UNCHANGED <<api, loopVars, owned, fixed, kernelVars>>

FreeConfig(t) ==
    /\ Goes(t, "config", "next")
    /\ GivesBack(t, {"config"})
    /\ NoErrorYet
    /\ UNCHANGED <<api, loopVars, fixed, kernelVars>>

(* Mutants: the structure is freed on success too; no error is made up. *)
OpenPathReturns_FreesAlways(t) ==
    /\ Goes(t, "end", IF good_open[t] THEN "open" ELSE "idle")
    /\ GivesBack(t, {"list", "struct"})
    /\ IF ~good_open[t] /\ last_global_error.error_code = LIBUSB_SUCCESS
       THEN StringErr("device not found")
       ELSE NoErrorYet
    /\ UNCHANGED <<api, loopVars, fixed, kernelVars>>

OpenPathReturns_Silent(t) ==
    /\ IF good_open[t]
       THEN Goes(t, "end", "open") /\ GivesBack(t, {"list"})
       ELSE Goes(t, "end", "idle") /\ GivesBack(t, {"list", "struct"})
    /\ NoErrorYet
    /\ UNCHANGED <<api, loopVars, fixed, kernelVars>>

(* The list is freed; an error is made up only when none was registered.   *)
OpenPathReturns(t) ==
    /\ IF good_open[t]
       THEN Goes(t, "end", "open") /\ GivesBack(t, {"list"}) /\ NoErrorYet
       ELSE /\ Goes(t, "end", "idle") /\ GivesBack(t, {"list", "struct"})
            /\ IF last_global_error.error_code = LIBUSB_SUCCESS
               THEN StringErr("device not found")
               ELSE NoErrorYet
    /\ UNCHANGED <<api, loopVars, fixed, kernelVars>>

(***************************************************************************)
(* hid_libusb_wrap_sys_device.                                             *)
(***************************************************************************)
WrapHandle(t) ==
    /\ Goes(t, "wrap", "wrap") /\ "handle" \notin owned[t]
    /\ Acquires(t, "handle")
    /\ NoErrorYet
    /\ UNCHANGED <<api, loopVars, fixed, kernelVars>>

WrapHandleFails(t) ==
    /\ Goes(t, "wrap", "err") /\ "handle" \notin owned[t]
    /\ \E code \in Codes : LibusbError(code, "libusb_wrap_sys_device")
    /\ UNCHANGED <<api, loopVars, owned, fixed, kernelVars>>

WrapConfigFails(t) ==
    /\ Goes(t, "wrap", "err") /\ "handle" \in owned[t]
    /\ \E code \in Codes : LibusbError(code, "get_config_descriptor")
    /\ UNCHANGED <<api, loopVars, owned, fixed, kernelVars>>

(* The configuration is read; the interface asked for is in it or not. *)
WrapConfig(t) ==
    /\ "handle" \in owned[t]
    /\ Acquires(t, "config")
    /\ \/ Goes(t, "wrap", "detach") /\ NoErrorYet
       \/ Goes(t, "wrap", "err") /\ StringErr("no such HID interface")
    /\ UNCHANGED <<api, loopVars, fixed, kernelVars>>

(* Mutant: the configuration descriptor is forgotten. *)
WrapError_KeepsConfig(t) ==
    /\ Goes(t, "err", "idle")
    /\ GivesBack(t, {"handle", "struct"})
    /\ NoErrorYet
    /\ UNCHANGED <<api, loopVars, fixed, kernelVars>>

(* err: everything acquired so far is given back. *)
WrapError(t) ==
    /\ Goes(t, "err", "idle")
    /\ GivesBack(t, {"config", "handle", "struct"})
    /\ NoErrorYet
    /\ UNCHANGED <<api, loopVars, fixed, kernelVars>>

(***************************************************************************)
(* hidapi_initialize_device.  A step for the driver, a step for the claim: *)
(* other openers, and other processes, run in between.                     *)
(***************************************************************************)
initVars == <<api, dev_index, alt, owned, errorVars, fixed>>

(* libusb_kernel_driver_active says no. *)
NoDriver(t) ==
    /\ Goes(t, "detach", "claim")
    /\ ~driver
    /\ is_driver_detached' = [is_driver_detached EXCEPT ![t] = FALSE]
    /\ UNCHANGED <<initVars, good_open, kernelVars>>

Detach(t) ==
    /\ Goes(t, "detach", "claim")
    /\ driver /\ driver' = FALSE
    /\ is_driver_detached' = [is_driver_detached EXCEPT ![t] = TRUE]
    /\ UNCHANGED <<initVars, good_open, claimed>>

DetachFails(t) ==
    /\ Goes(t, "detach", "failed")
    /\ driver
    /\ is_driver_detached' = [is_driver_detached EXCEPT ![t] = FALSE]
    /\ UNCHANGED <<initVars, good_open, kernelVars>>

(* The claim, and with it the rest of hidapi_initialize_device. *)
Claim(t) ==
    /\ Goes(t, "claim", IF api[t] = "hid_open_path" THEN "alternate" ELSE "open")
    /\ ~driver /\ claimed = Nobody
    /\ claimed' = t
    /\ good_open' = [good_open EXCEPT ![t] = TRUE]
    /\ UNCHANGED <<initVars, is_driver_detached, driver>>

(* Mutant: a failed claim does not put the driver back. *)
ClaimFails_NoReattach(t) ==
    /\ Goes(t, "claim", "failed")
    /\ UNCHANGED <<initVars, is_driver_detached, good_open, kernelVars>>

ClaimFails(t) ==
    /\ Goes(t, "claim", IF is_driver_detached[t] THEN "reattach" ELSE "failed")
    /\ UNCHANGED <<initVars, is_driver_detached, good_open, kernelVars>>

(* libusb_attach_kernel_driver: refused by the kernel while the interface  *)
(* is claimed or has its driver.                                           *)
AttachesDriver ==
    /\ driver' = (driver \/ claimed = Nobody)
    /\ UNCHANGED claimed

Reattach(t) ==
    /\ Goes(t, "reattach", "failed")
    /\ AttachesDriver
    /\ UNCHANGED <<initVars, is_driver_detached, good_open>>

(* What the two callers do with the failure. *)
InitializeFailed(t) ==
    /\ StringErr("failed to initialize device")
    /\ IF api[t] = "hid_open_path"
       THEN Goes(t, "failed", "alternate") /\ GivesBack(t, {"handle"})
       ELSE Goes(t, "failed", "err") /\ UNCHANGED owned
    /\ UNCHANGED <<api, loopVars, fixed, kernelVars>>

(***************************************************************************)
(* hid_close.                                                              *)
(***************************************************************************)
closeVars == <<api, loopVars, errorVars, fixed>>

hid_close(t) ==
    /\ MayCall(t)
    /\ Goes(t, "open", "release")
    /\ UNCHANGED <<closeVars, owned, kernelVars>>

ReleaseInterface(t) ==
    /\ Goes(t, "release", IF is_driver_detached[t] THEN "attach" ELSE "close")
    /\ claimed' = Nobody
    /\ UNCHANGED <<closeVars, owned, driver>>

CloseAttaches(t) ==
    /\ Goes(t, "attach", "close")
    /\ AttachesDriver
    /\ UNCHANGED <<closeVars, owned>>

(* libusb_close, the queue and free_hid_device. *)
CloseFrees(t) ==
    /\ Goes(t, "close", "idle")
    /\ GivesBack(t, {"handle", "struct"})
    /\ UNCHANGED <<closeVars, kernelVars>>

(* The device is plugged in again elsewhere, or unplugged, between calls. *)
Replug ==
    /\ \A t \in Openers : pc[t] = "idle"
    /\ position' \in 0..Devices
    /\ UNCHANGED <<pc, api, loopVars, owned, errorVars, answer, usb_context, had_driver, kernelVars>>
-----------------------------------------------------------------------------
OpenPath(t) ==
    \/ ListFails(t) \/ GetList(t) \/ ListEnds(t) \/ SkipDevice(t) \/ ReadConfig(t)
    \/ OpenHandle(t) \/ OpenHandleFails(t) \/ NoMoreAlternates(t) \/ FreeConfig(t)
    \/ OpenPathReturns(t)

WrapSysDevice(t) ==
    \/ WrapHandle(t) \/ WrapHandleFails(t) \/ WrapConfigFails(t) \/ WrapConfig(t)
    \/ WrapError(t)

InitializeDevice(t) ==
    \/ NoDriver(t) \/ Detach(t) \/ DetachFails(t) \/ Claim(t) \/ ClaimFails(t)
    \/ Reattach(t) \/ InitializeFailed(t)

Close(t) ==
    \/ hid_close(t) \/ ReleaseInterface(t) \/ CloseAttaches(t) \/ CloseFrees(t)

Next ==
    \/ hid_init \/ hid_exit \/ hid_error \/ Replug
    \/ \E t \in Openers :
        \/ \E call \in Calls : CallOpen(t, call)
        \/ AllocFails(t) \/ Alloc(t)
        \/ OpenPath(t) \/ WrapSysDevice(t) \/ InitializeDevice(t) \/ Close(t)

Spec == Init /\ [][Next]_vars

(***************************************************************************)
(* Properties.                                                             *)
(***************************************************************************)
TypeOK ==
    /\ pc \in [Openers -> States] /\ api \in [Openers -> Calls]
    /\ dev_index \in [Openers -> 0..Devices] /\ alt \in [Openers -> 0..Alternates]
    /\ is_driver_detached \in [Openers -> BOOLEAN] /\ good_open \in [Openers -> BOOLEAN]
    /\ owned \in [Openers -> SUBSET Resources]
    /\ usb_context \in BOOLEAN /\ position \in 0..Devices
    /\ had_driver \in BOOLEAN /\ driver \in BOOLEAN
    /\ claimed \in Openers \cup {Nobody}

(* A call that returned NULL, and a close, leave nothing behind, whichever *)
(* of the calls of libusb failed.  The one exception is what the code      *)
(* forgets: hid_libusb_wrap_sys_device frees the configuration descriptor  *)
(* only when it fails.                                                     *)
NothingHeld ==
    \A t \in Openers :
        pc[t] = "idle" =>
            owned[t] = IF good_open[t] /\ api[t] = "hid_libusb_wrap_sys_device"
                       THEN {"config"} ELSE {}

(* An open device has its structure, its handle and the interface, which   *)
(* has no kernel driver; nobody else's failing open takes them away.       *)
OpenDeviceOwns ==
    \A t \in Openers :
        pc[t] = "open" =>
            /\ {"struct", "handle"} \subseteq owned[t]
            /\ claimed = t /\ ~driver

(* Closing, and every failing open, puts the kernel driver back: with all  *)
(* devices closed the interface is as it was before the first call.        *)
DriverRestored ==
    (\A t \in Openers : pc[t] = "idle") => driver = had_driver /\ claimed = Nobody

Returns(t) == pc[t] \notin Resting /\ pc'[t] \in Resting

(* hidapi.h: NULL on failure, "Call hid_error(NULL) to get the failure     *)
(* reason."  So a call that returns NULL has registered an error.          *)
NullExplained ==
    [][\A t \in Openers :
        Returns(t) /\ pc'[t] = "idle" /\ ~good_open[t] =>
            last_global_error'.error_code # LIBUSB_SUCCESS]_vars

(* hidapi.h on hid_error: "If there was no error in the last function call *)
(* - the returned string clearly indicates that."  No run checks this: a   *)
(* setting that failed before another one was opened leaves its error.     *)
SuccessSilent ==
    [][\A t \in Openers :
        Returns(t) /\ pc'[t] = "open" =>
            last_global_error'.error_code = LIBUSB_SUCCESS]_vars

(* hid_error tells the error registered last, never a text kept from an    *)
(* earlier one, unless memory for a text could not be had.                 *)
AnswerFits ==
    /\ answer.told \in {answer.about, OutOfMemory}
    /\ answer.told = NoText <=> answer.about = NoText
=============================================================================
