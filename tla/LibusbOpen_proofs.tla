-------------------------- MODULE LibusbOpen_proofs --------------------------
(***************************************************************************)
(* Proofs about LibusbOpen, for any set of openers, any number of devices  *)
(* and of alternate settings.  What a call owns, the claim and the error   *)
(* context need no assumption on how calls overlap; the kernel driver and  *)
(* the error of a failed open need that they do not.                       *)
(***************************************************************************)
EXTENDS LibusbOpen, TLAPS

OpenerStep(t) ==
    \/ \E call \in Calls : CallOpen(t, call)
    \/ AllocFails(t) \/ Alloc(t)
    \/ OpenPath(t) \/ WrapSysDevice(t) \/ InitializeDevice(t) \/ Close(t)

(***************************************************************************)
(* The inductive invariant, in named parts.                                *)
(***************************************************************************)

(* Which part of the two functions runs: the loops of hid_open_path, the   *)
(* part of hid_libusb_wrap_sys_device, what both call.                     *)
PathLoops == {"list", "next", "config", "alternate", "end"}
Initialising == {"detach", "claim", "reattach", "failed"}
Closing == {"release", "attach", "close"}
FunctionInv(t) ==
    /\ pc[t] \in PathLoops => api[t] = "hid_open_path"
    /\ pc[t] \in {"wrap", "err"} => api[t] = "hid_libusb_wrap_sys_device"
    /\ pc[t] \in {"alloc", "list", "wrap", "err"} \cup Initialising => ~good_open[t]
    /\ pc[t] \in {"open"} \cup Closing => good_open[t]

(* What a call holds at each of its steps. *)
Device(t) == IF good_open[t] THEN {"struct", "handle"} ELSE {"struct"}
Forgotten(t) == IF api[t] = "hid_libusb_wrap_sys_device" THEN {"config"} ELSE {}
OwnInv(t) ==
    /\ pc[t] = "idle" => owned[t] = IF good_open[t] THEN Forgotten(t) ELSE {}
    /\ pc[t] = "alloc" => owned[t] = {}
    /\ pc[t] = "list" => owned[t] = {"struct"}
    /\ pc[t] = "wrap" => owned[t] \in {{"struct"}, {"struct", "handle"}}
    /\ pc[t] \in {"next", "end"} => owned[t] = Device(t) \cup {"list"}
    /\ pc[t] \in {"alternate", "config"} => owned[t] = Device(t) \cup {"list", "config"}
    /\ pc[t] \in Initialising =>
         owned[t] = {"struct", "handle", "config"}
                      \cup IF api[t] = "hid_open_path" THEN {"list"} ELSE {}
    /\ pc[t] = "err" => owned[t] \subseteq {"struct", "handle", "config"}
    /\ pc[t] \in {"open"} \cup Closing => owned[t] = {"struct", "handle"} \cup Forgotten(t)

(* Who has claimed the interface, and that it then has no kernel driver. *)
HasClaim(t) ==
    pc[t] \in {"open", "release"} \/ (good_open[t] /\ pc[t] \in PathLoops)
ClaimInv ==
    /\ \A t \in Openers : HasClaim(t) <=> claimed = t
    /\ claimed # Nobody => ~driver

(* The error context.  A code other than StringError comes with the        *)
(* context its text is made from; a text that is kept fits the cache; and  *)
(* the text of a StringError is the one registered last.                   *)
ErrorShape ==
    last_global_error =
        [error_code |-> last_global_error.error_code,
         error_context |-> last_global_error.error_context,
         last_error_code_cache |-> last_global_error.last_error_code_cache,
         last_error_context_cache |-> last_global_error.last_error_context_cache,
         last_error_str |-> last_global_error.last_error_str]
ErrorInv ==
    LET err == last_global_error IN
    /\ err.error_code = reported.code
    /\ err.error_code = LIBUSB_SUCCESS => reported = NoText
    /\ err.error_code # StringError => reported = Text(err.error_code, err.error_context)
    /\ err.error_code = StringError =>
         CacheFits(err) /\ err.last_error_str \in {reported, NoText}
    /\ err.last_error_code_cache # StringError =>
         err.last_error_str = Text(err.last_error_code_cache, err.last_error_context_cache)

OwnershipInv == \A t \in Openers : FunctionInv(t) /\ OwnInv(t)

IInv == TypeOK /\ OwnershipInv /\ ClaimInv /\ ErrorShape /\ ErrorInv /\ AnswerFits

(* Without overlapping calls: who is inside one is alone there; a failing  *)
(* hid_libusb_wrap_sys_device has its error when it cleans up; and the     *)
(* driver is missing only while somebody has it detached, who has the      *)
(* interface or is on the way to put the driver back.                      *)
AloneInv == \A t, u \in Openers : pc[t] \notin Resting /\ pc[u] \notin Resting => t = u
CleanupInv == \A t \in Openers : pc[t] = "err" => last_global_error.error_code # LIBUSB_SUCCESS

HasDetached(t) ==
    is_driver_detached[t] /\ (claimed = t \/ pc[t] \in {"claim", "reattach", "attach"})
DriverInv ==
    /\ driver <=> had_driver /\ \A t \in Openers : ~HasDetached(t)
    /\ \A t \in Openers :
        /\ HasDetached(t) => had_driver
        /\ HasDetached(t) /\ claimed # t => claimed = Nobody
        /\ pc[t] \in {"reattach", "attach"} => is_driver_detached[t]

AlonePart == AloneInv /\ CleanupInv /\ DriverInv

(***************************************************************************)
(* The steps, and what they leave alone.                                   *)
(***************************************************************************)
LEMMA Steps ==
    ASSUME [Next]_vars
    PROVE  \/ hid_init \/ hid_exit \/ hid_error \/ Replug \/ UNCHANGED vars
           \/ \E t \in Openers : OpenerStep(t)
BY DEF Next, OpenerStep

(* What belongs to one opener changes in its own steps only. *)
LEMMA OthersKeep ==
    ASSUME TypeOK, NEW t \in Openers, OpenerStep(t), NEW u \in Openers \ {t}
    PROVE  /\ pc'[u] = pc[u] /\ api'[u] = api[u] /\ owned'[u] = owned[u]
           /\ good_open'[u] = good_open[u] /\ is_driver_detached'[u] = is_driver_detached[u]
<1>. USE DEF TypeOK, Goes, Acquires, GivesBack, loopVars, fixed, initVars, closeVars
<1>1. CASE \E call \in Calls : CallOpen(t, call)
  BY <1>1 DEF CallOpen
<1>2. CASE AllocFails(t) \/ Alloc(t)
  BY <1>2 DEF AllocFails, Alloc
<1>3. CASE ListFails(t) \/ GetList(t) \/ ListEnds(t)
  BY <1>3 DEF ListFails, GetList, ListEnds
<1>4. CASE SkipDevice(t) \/ ReadConfig(t)
  BY <1>4 DEF SkipDevice, ReadConfig, NextDevice
<1>5. CASE OpenHandle(t) \/ OpenHandleFails(t)
  BY <1>5 DEF OpenHandle, OpenHandleFails, MoreAlternates
<1>6. CASE NoMoreAlternates(t) \/ FreeConfig(t) \/ OpenPathReturns(t)
  BY <1>6 DEF NoMoreAlternates, FreeConfig, OpenPathReturns
<1>7. CASE WrapSysDevice(t)
  BY <1>7 DEF WrapSysDevice, WrapHandle, WrapHandleFails, WrapConfigFails,
    WrapConfig, WrapError
<1>8. CASE NoDriver(t) \/ Detach(t) \/ DetachFails(t) \/ InitializeFailed(t)
  BY <1>8 DEF NoDriver, Detach, DetachFails, InitializeFailed
<1>9. CASE Claim(t) \/ ClaimFails(t) \/ Reattach(t)
  BY <1>9 DEF Claim, ClaimFails, Reattach
<1>10. CASE Close(t)
  BY <1>10 DEF Close, hid_close, ReleaseInterface, CloseAttaches, CloseFrees
<1>. QED BY <1>1, <1>2, <1>3, <1>4, <1>5, <1>6, <1>7, <1>8, <1>9, <1>10 DEF OpenerStep, OpenPath, InitializeDevice

(* The calls about no device touch what belongs to the openers as little   *)
(* as the interface.                                                       *)
LEMMA GlobalSteps ==
    ASSUME hid_init \/ hid_exit \/ hid_error \/ Replug \/ UNCHANGED vars
    PROVE  UNCHANGED <<pc, api, loopVars, owned, had_driver, kernelVars>>
BY DEF hid_init, hid_exit, hid_error, Replug, vars, loopVars, kernelVars

(* The loops of hid_open_path go through their list once. *)
LEMMA IndexSteps ==
    ASSUME NEW t \in Openers, OpenerStep(t)
    PROVE  /\ \/ UNCHANGED dev_index \/ dev_index' = [dev_index EXCEPT ![t] = 0]
              \/ dev_index[t] < Devices /\ dev_index' = [dev_index EXCEPT ![t] = @ + 1]
           /\ \/ UNCHANGED alt \/ alt' = [alt EXCEPT ![t] = 0]
              \/ alt[t] < Alternates /\ alt' = [alt EXCEPT ![t] = @ + 1]
BY DEF OpenerStep, CallOpen, AllocFails, Alloc, OpenPath, ListFails, GetList,
  ListEnds, SkipDevice, ReadConfig, NextDevice, OpenHandle, OpenHandleFails,
  MoreAlternates, NoMoreAlternates, FreeConfig, OpenPathReturns, WrapSysDevice,
  WrapHandle, WrapHandleFails, WrapConfigFails, WrapConfig, WrapError,
  InitializeDevice, NoDriver, Detach, DetachFails, Claim, ClaimFails, Reattach,
  InitializeFailed, Close, hid_close, ReleaseInterface, CloseAttaches, CloseFrees,
  initVars, closeVars, loopVars

(***************************************************************************)
(* Type correctness.                                                       *)
(***************************************************************************)
LEMMA TypeStep == TypeOK /\ [Next]_vars => TypeOK'
<1>. SUFFICES ASSUME TypeOK, [Next]_vars PROVE TypeOK'
  OBVIOUS
<1>. USE SizesAssumption
<1>1. ASSUME NEW t \in Openers, OpenerStep(t) PROVE TypeOK'
  <2>3. dev_index' \in [Openers -> 0..Devices]
    BY <1>1, IndexSteps DEF TypeOK
  <2>4. alt' \in [Openers -> 0..Alternates]
    BY <1>1, IndexSteps DEF TypeOK
  <2>. USE <1>1 DEF TypeOK, OpenerStep, CallOpen, AllocFails, Alloc, OpenPath, ListFails, GetList,
           ListEnds, SkipDevice, ReadConfig, NextDevice, OpenHandle, OpenHandleFails,
           MoreAlternates, NoMoreAlternates, FreeConfig, OpenPathReturns, WrapSysDevice,
           WrapHandle, WrapHandleFails, WrapConfigFails, WrapConfig, WrapError,
           InitializeDevice, NoDriver, Detach, DetachFails, Claim, ClaimFails, Reattach,
           InitializeFailed, Close, hid_close, ReleaseInterface, CloseAttaches, CloseFrees
  <2>1. pc' \in [Openers -> States]
    BY DEF States, Resting, Goes
  <2>2. api' \in [Openers -> Calls]
    BY DEF initVars, closeVars
  <2>5. is_driver_detached' \in [Openers -> BOOLEAN]
    BY DEF closeVars, loopVars
  <2>6. good_open' \in [Openers -> BOOLEAN]
    BY DEF closeVars, loopVars
  <2>7. owned' \in [Openers -> SUBSET Resources]
    <3>1. \/ UNCHANGED owned \/ owned' = [owned EXCEPT ![t] = {}]
          \/ \E S \in SUBSET Resources : \/ owned' = [owned EXCEPT ![t] = @ \cup S]
                                       \/ owned' = [owned EXCEPT ![t] = @ \ S]
      BY DEF initVars, closeVars, Acquires, GivesBack, Resources
    <3>. QED BY <3>1
  <2>8. usb_context' \in BOOLEAN /\ position' \in 0..Devices /\ had_driver' \in BOOLEAN
    BY DEF initVars, closeVars, fixed, Initialises
  <2>9. driver' \in BOOLEAN /\ claimed' \in Openers \cup {Nobody}
    BY DEF kernelVars, AttachesDriver
  <2>. QED BY <2>1, <2>2, <2>3, <2>4, <2>5, <2>6, <2>7, <2>8, <2>9
<1>2. CASE hid_init \/ hid_exit \/ hid_error \/ Replug \/ UNCHANGED vars
  <2>1. UNCHANGED <<pc, api, loopVars, owned, had_driver, kernelVars>>
    BY <1>2, GlobalSteps
  <2>2. usb_context' \in BOOLEAN /\ position' \in 0..Devices
    BY <1>2 DEF hid_init, hid_exit, hid_error, Replug, Initialises, vars, TypeOK
  <2>. QED BY <2>1, <2>2 DEF TypeOK, loopVars, kernelVars
<1>. QED BY <1>1, <1>2, Steps

(***************************************************************************)
(* What the calls own.                                                     *)
(***************************************************************************)
LEMMA OwnershipAtStep ==
    ASSUME TypeOK, NEW t \in Openers, OpenerStep(t), FunctionInv(t), OwnInv(t)
    PROVE  FunctionInv(t)' /\ OwnInv(t)'
<1>. USE DEF TypeOK, FunctionInv, OwnInv, PathLoops, Initialising, Closing, Device, Forgotten,
         Calls, Goes, Acquires, GivesBack, loopVars, fixed, initVars, closeVars
<1>1. CASE \E call \in Calls : CallOpen(t, call)
  BY <1>1 DEF CallOpen
<1>2. CASE AllocFails(t)
  BY <1>2 DEF AllocFails
<1>3. CASE Alloc(t)
  BY <1>3 DEF Alloc
<1>4. CASE OpenPath(t)
  <2>1. CASE ListFails(t)
    BY <2>1 DEF ListFails
  <2>2. CASE GetList(t)
    BY <2>2 DEF GetList
  <2>3. CASE ListEnds(t)
    BY <2>3 DEF ListEnds
  <2>4. CASE SkipDevice(t)
    BY <2>4 DEF SkipDevice, NextDevice
  <2>5. CASE ReadConfig(t)
    BY <2>5 DEF ReadConfig, NextDevice
  <2>6. CASE OpenHandle(t)
    BY <2>6 DEF OpenHandle, MoreAlternates
  <2>7. CASE OpenHandleFails(t)
    BY <2>7 DEF OpenHandleFails, MoreAlternates
  <2>8. CASE NoMoreAlternates(t)
    BY <2>8 DEF NoMoreAlternates, MoreAlternates
  <2>9. CASE FreeConfig(t)
    BY <2>9 DEF FreeConfig
  <2>10. CASE OpenPathReturns(t)
    <3>1. CASE good_open[t]
      BY <2>10, <3>1 DEF OpenPathReturns
    <3>2. CASE ~good_open[t]
      <4>1. pc'[t] = "idle" /\ ~good_open'[t] /\ owned[t] = {"struct"} \cup {"list"}
        BY <2>10, <3>2 DEF OpenPathReturns
      <4>2. owned'[t] = owned[t] \ {"list", "struct"}
        BY <2>10, <3>2 DEF OpenPathReturns
      <4>3. owned'[t] = {}
        BY <4>1, <4>2
      <4>. QED BY <4>1, <4>3
    <3>. QED BY <3>1, <3>2
  <2>. QED BY <1>4, <2>1, <2>2, <2>3, <2>4, <2>5, <2>6, <2>7, <2>8, <2>9, <2>10 DEF OpenPath
<1>5. CASE WrapSysDevice(t)
  <2>1. CASE WrapHandle(t)
    BY <2>1 DEF WrapHandle
  <2>2. CASE WrapHandleFails(t)
    BY <2>2 DEF WrapHandleFails
  <2>3. CASE WrapConfigFails(t)
    BY <2>3 DEF WrapConfigFails
  <2>4. CASE WrapConfig(t)
    BY <2>4, ZenonT(40) DEF WrapConfig
  <2>5. CASE WrapError(t)
    BY <2>5 DEF WrapError
  <2>. QED BY <1>5, <2>1, <2>2, <2>3, <2>4, <2>5 DEF WrapSysDevice
<1>6. CASE InitializeDevice(t)
  <2>1. CASE NoDriver(t)
    BY <2>1 DEF NoDriver
  <2>2. CASE Detach(t)
    BY <2>2 DEF Detach
  <2>3. CASE DetachFails(t)
    BY <2>3 DEF DetachFails
  <2>4. CASE Claim(t)
    BY <2>4 DEF Claim
  <2>5. CASE ClaimFails(t)
    BY <2>5 DEF ClaimFails
  <2>6. CASE Reattach(t)
    BY <2>6 DEF Reattach
  <2>7. CASE InitializeFailed(t)
    <3>1. CASE api[t] = "hid_open_path"
      <4>1. /\ pc'[t] = "alternate" /\ ~good_open'[t] /\ api'[t] = "hid_open_path"
            /\ owned[t] = {"struct", "handle", "config"} \cup {"list"}
        BY <2>7, <3>1 DEF InitializeFailed
      <4>2. owned'[t] = owned[t] \ {"handle"}
        BY <2>7, <3>1 DEF InitializeFailed
      <4>3. owned'[t] = {"struct"} \cup {"list", "config"}
        BY <4>1, <4>2
      <4>. QED BY <4>1, <4>3
    <3>2. CASE api[t] # "hid_open_path"
      BY <2>7, <3>2, ZenonT(40) DEF InitializeFailed
    <3>. QED BY <3>1, <3>2
  <2>. QED BY <1>6, <2>1, <2>2, <2>3, <2>4, <2>5, <2>6, <2>7 DEF InitializeDevice
<1>7. CASE Close(t)
  BY <1>7 DEF Close, hid_close, ReleaseInterface, CloseAttaches, CloseFrees
<1>. QED BY <1>1, <1>2, <1>3, <1>4, <1>5, <1>6, <1>7 DEF OpenerStep

LEMMA OwnershipStep == TypeOK /\ OwnershipInv /\ [Next]_vars => OwnershipInv'
<1>. SUFFICES ASSUME TypeOK, OwnershipInv, [Next]_vars, NEW u \in Openers
              PROVE  FunctionInv(u)' /\ OwnInv(u)'
  BY DEF OwnershipInv
<1>0. FunctionInv(u) /\ OwnInv(u)
  BY DEF OwnershipInv
<1>1. ASSUME pc'[u] = pc[u] /\ api'[u] = api[u] /\ owned'[u] = owned[u] /\ good_open'[u] = good_open[u]
      PROVE  FunctionInv(u)' /\ OwnInv(u)'
  BY <1>0, <1>1 DEF FunctionInv, OwnInv, Device, Forgotten
<1>2. ASSUME NEW t \in Openers, OpenerStep(t) PROVE FunctionInv(u)' /\ OwnInv(u)'
  <2>1. CASE u = t
    BY <1>0, <1>2, <2>1, OwnershipAtStep
  <2>2. CASE u # t
    BY <1>1, <1>2, <2>2, OthersKeep
  <2>. QED BY <2>1, <2>2
<1>3. CASE hid_init \/ hid_exit \/ hid_error \/ Replug \/ UNCHANGED vars
  BY <1>1, <1>3, GlobalSteps DEF loopVars
<1>. QED BY <1>2, <1>3, Steps

(***************************************************************************)
(* The claim and the kernel driver.                                        *)
(***************************************************************************)

(* What an opener's step does to the interface. *)
LEMMA ClaimAtStep ==
    ASSUME TypeOK, NEW t \in Openers, OpenerStep(t), FunctionInv(t)
    PROVE  \/ /\ HasClaim(t)' <=> HasClaim(t)
              /\ claimed' = claimed
              /\ driver' => driver \/ claimed = Nobody
           \/ claimed = Nobody /\ ~driver /\ HasClaim(t)' /\ claimed' = t /\ ~driver'
           \/ HasClaim(t) /\ ~HasClaim(t)' /\ claimed' = Nobody
<1>. USE DEF TypeOK, FunctionInv, HasClaim, PathLoops, Initialising, Closing, Calls, Goes,
         loopVars, fixed, initVars, closeVars, kernelVars, AttachesDriver
<1>1. CASE \E call \in Calls : CallOpen(t, call)
  BY <1>1 DEF CallOpen
<1>2. CASE AllocFails(t) \/ Alloc(t)
  BY <1>2 DEF AllocFails, Alloc
<1>3. CASE ListFails(t) \/ GetList(t) \/ ListEnds(t)
  BY <1>3 DEF ListFails, GetList, ListEnds
<1>4. CASE SkipDevice(t) \/ ReadConfig(t)
  BY <1>4 DEF SkipDevice, ReadConfig, NextDevice
<1>5. CASE OpenHandle(t) \/ OpenHandleFails(t)
  BY <1>5 DEF OpenHandle, OpenHandleFails, MoreAlternates
<1>6. CASE NoMoreAlternates(t) \/ FreeConfig(t) \/ OpenPathReturns(t)
  BY <1>6 DEF NoMoreAlternates, FreeConfig, OpenPathReturns
<1>7. CASE WrapSysDevice(t)
  BY <1>7 DEF WrapSysDevice, WrapHandle, WrapHandleFails, WrapConfigFails,
    WrapConfig, WrapError
<1>8. CASE NoDriver(t) \/ Detach(t) \/ DetachFails(t) \/ InitializeFailed(t)
  BY <1>8 DEF NoDriver, Detach, DetachFails, InitializeFailed
<1>9. CASE Claim(t) \/ ClaimFails(t) \/ Reattach(t)
  BY <1>9 DEF Claim, ClaimFails, Reattach
<1>10. CASE Close(t)
  BY <1>10 DEF Close, hid_close, ReleaseInterface, CloseAttaches, CloseFrees
<1>. QED BY <1>1, <1>2, <1>3, <1>4, <1>5, <1>6, <1>7, <1>8, <1>9, <1>10 DEF OpenerStep, OpenPath, InitializeDevice

LEMMA ClaimStep == TypeOK /\ OwnershipInv /\ ClaimInv /\ [Next]_vars => ClaimInv'
<1>. SUFFICES ASSUME TypeOK, OwnershipInv, ClaimInv, [Next]_vars PROVE ClaimInv'
  OBVIOUS
<1>1. ASSUME NEW t \in Openers, OpenerStep(t) PROVE ClaimInv'
  <2>1. \A u \in Openers \ {t} : HasClaim(u)' <=> HasClaim(u)
    BY <1>1, OthersKeep DEF HasClaim
  <2>2. \/ /\ HasClaim(t)' <=> HasClaim(t)
           /\ claimed' = claimed
           /\ driver' => driver \/ claimed = Nobody
        \/ claimed = Nobody /\ ~driver /\ HasClaim(t)' /\ claimed' = t /\ ~driver'
        \/ HasClaim(t) /\ ~HasClaim(t)' /\ claimed' = Nobody
    BY <1>1, ClaimAtStep DEF OwnershipInv
  <2>. QED BY <2>1, <2>2, OpenersAssumption DEF ClaimInv
<1>2. CASE hid_init \/ hid_exit \/ hid_error \/ Replug \/ UNCHANGED vars
  BY <1>2, GlobalSteps DEF ClaimInv, HasClaim, loopVars, kernelVars
<1>. QED BY <1>1, <1>2, Steps

(***************************************************************************)
(* The error context and the answer of hid_error.                          *)
(***************************************************************************)

(* How a step registers an error. *)
Registers ==
    \/ UNCHANGED errorVars
    \/ \E code, context : code # 0 /\ code # 1 /\ LibusbError(code, context)
    \/ LibusbError(LIBUSB_SUCCESS, NULL)
    \/ \E message : StringErr(message)
    \/ last_global_error' = CleanContext /\ reported' = NoText

LEMMA OpenerRegisters ==
    ASSUME NEW t \in Openers, OpenerStep(t) PROVE Registers /\ UNCHANGED answer
<1>. USE DEF Registers, NoErrorYet, Codes, fixed, initVars, closeVars, Initialises
<1>1. CASE \E call \in Calls : CallOpen(t, call)
  BY <1>1 DEF CallOpen
<1>2. CASE AllocFails(t) \/ Alloc(t)
  BY <1>2 DEF AllocFails, Alloc
<1>3. CASE ListFails(t) \/ GetList(t) \/ ListEnds(t)
  BY <1>3 DEF ListFails, GetList, ListEnds
<1>4. CASE SkipDevice(t) \/ ReadConfig(t)
  BY <1>4 DEF SkipDevice, ReadConfig, NextDevice
<1>5. CASE OpenHandle(t) \/ OpenHandleFails(t)
  BY <1>5 DEF OpenHandle, OpenHandleFails, MoreAlternates
<1>6. CASE NoMoreAlternates(t) \/ FreeConfig(t) \/ OpenPathReturns(t)
  BY <1>6 DEF NoMoreAlternates, FreeConfig, OpenPathReturns
<1>7. CASE WrapSysDevice(t)
  <2>1. CASE WrapHandle(t) \/ WrapHandleFails(t) \/ WrapConfigFails(t)
    BY <2>1 DEF WrapHandle, WrapHandleFails, WrapConfigFails
  <2>2. CASE WrapConfig(t)
    BY <2>2 DEF WrapConfig
  <2>3. CASE WrapError(t)
    BY <2>3 DEF WrapError
  <2>. QED BY <1>7, <2>1, <2>2, <2>3 DEF WrapSysDevice
<1>8. CASE NoDriver(t) \/ Detach(t) \/ DetachFails(t) \/ InitializeFailed(t)
  BY <1>8 DEF NoDriver, Detach, DetachFails, InitializeFailed
<1>9. CASE Claim(t) \/ ClaimFails(t) \/ Reattach(t)
  BY <1>9 DEF Claim, ClaimFails, Reattach
<1>10. CASE Close(t)
  BY <1>10 DEF Close, hid_close, ReleaseInterface, CloseAttaches, CloseFrees
<1>. QED BY <1>1, <1>2, <1>3, <1>4, <1>5, <1>6, <1>7, <1>8, <1>9, <1>10 DEF OpenerStep, OpenPath, InitializeDevice

LEMMA AllRegister ==
    ASSUME [Next]_vars PROVE (Registers /\ UNCHANGED answer) \/ hid_error
<1>1. CASE hid_init
  BY <1>1 DEF hid_init, Initialises, Registers
<1>2. CASE hid_exit \/ Replug \/ UNCHANGED vars
  BY <1>2 DEF hid_exit, Replug, vars, Registers, errorVars
<1>. QED BY <1>1, <1>2, OpenerRegisters, Steps

LEMMA TextFacts ==
    /\ \A code, context : Text(code, context).code = code
    /\ NoText = Text(0, "")
    /\ \A context : Text(1, context) # NoText
    /\ \A text : text.code # 0 => text # NoText
    /\ OutOfMemory # NoText
<1>1. NoText.code = 0 /\ OutOfMemory.code = 1 /\ \A context : Text(1, context).code = 1
  BY DEF Text, NoText, OutOfMemory, LIBUSB_SUCCESS, StringError
<1>2. \A code, context : Text(code, context).code = code
  BY DEF Text
<1>3. NoText = Text(0, "")
  BY DEF NoText, LIBUSB_SUCCESS, NULL
<1>4. \A text : text.code # 0 => text # NoText
  BY <1>1
<1>5. \A context : Text(1, context) # NoText
  BY <1>1
<1>6. OutOfMemory # NoText
  BY <1>1
<1>. QED BY <1>2, <1>3, <1>4, <1>5, <1>6

(* What register_libusb_error writes and leaves. *)
LEMMA LibusbErrorFields ==
    ASSUME ErrorShape, NEW code, NEW context, LibusbError(code, context)
    PROVE  /\ ErrorShape' /\ reported' = Text(code, context)
           /\ last_global_error'.error_code = code
           /\ last_global_error'.error_context = context
           /\ last_global_error'.last_error_code_cache = last_global_error.last_error_code_cache
           /\ last_global_error'.last_error_context_cache = last_global_error.last_error_context_cache
           /\ last_global_error'.last_error_str = last_global_error.last_error_str
<1>. DEFINE err == last_global_error
<1>1. err' = [error_code |-> code, error_context |-> context,
              last_error_code_cache |-> err.last_error_code_cache,
              last_error_context_cache |-> err.last_error_context_cache,
              last_error_str |-> err.last_error_str]
  BY DEF LibusbError, register_libusb_error, ErrorShape
<1>2. reported' = Text(code, context)
  BY DEF LibusbError
<1>. QED BY <1>1, <1>2 DEF ErrorShape

LEMMA ErrorStep ==
    ErrorShape /\ ErrorInv /\ AnswerFits /\ [Next]_vars => ErrorShape' /\ ErrorInv' /\ AnswerFits'
<1>. SUFFICES ASSUME ErrorShape, ErrorInv, AnswerFits, [Next]_vars
              PROVE  ErrorShape' /\ ErrorInv' /\ AnswerFits'
  OBVIOUS
<1>. USE DEF ErrorInv, LIBUSB_SUCCESS, StringError, NULL, CacheFits
<1>1. CASE UNCHANGED answer /\ Registers
  <2>0. AnswerFits'
    BY <1>1 DEF AnswerFits
  <2>1. CASE UNCHANGED errorVars
    BY <2>0, <2>1 DEF errorVars, ErrorShape
  <2>2. ASSUME NEW code, code # 0, code # 1, NEW context, LibusbError(code, context)
        PROVE  ErrorShape' /\ ErrorInv'
    <3>2. /\ ErrorShape' /\ reported' = Text(code, context)
          /\ last_global_error'.error_code = code /\ last_global_error'.error_context = context
          /\ last_global_error'.last_error_code_cache = last_global_error.last_error_code_cache
          /\ last_global_error'.last_error_context_cache = last_global_error.last_error_context_cache
          /\ last_global_error'.last_error_str = last_global_error.last_error_str
      BY <2>2, LibusbErrorFields
    <3>3. reported'.code = code
      BY <3>2, TextFacts
    <3>. QED BY <2>2, <3>2, <3>3
  <2>3. CASE LibusbError(LIBUSB_SUCCESS, NULL)
    BY <2>0, <2>3, LibusbErrorFields, TextFacts
  <2>4. ASSUME NEW message, StringErr(message)
        PROVE  ErrorShape' /\ ErrorInv'
    <3>1. PICK allocated \in BOOLEAN :
            last_global_error' =
              [error_code |-> 1, error_context |-> "",
               last_error_code_cache |-> 1, last_error_context_cache |-> "",
               last_error_str |-> IF allocated THEN Text(1, message) ELSE NoText]
      BY <2>4 DEF StringErr, register_string_error
    <3>2. reported' = Text(1, message)
      BY <2>4 DEF StringErr
    <3>. QED BY <3>1, <3>2, TextFacts DEF ErrorShape
  <2>5. CASE last_global_error' = CleanContext /\ reported' = NoText
    BY <2>0, <2>5, TextFacts DEF CleanContext, ErrorShape
  <2>. QED BY <1>1, <2>0, <2>1, <2>2, <2>3, <2>4, <2>5 DEF Registers
<1>2. CASE hid_error
  <2>1. PICK allocated \in BOOLEAN :
           /\ answer' = [told |-> ErrorAnswer(last_global_error, allocated), about |-> reported]
           /\ last_global_error' = AfterAnswer(last_global_error, allocated)
    BY <1>2 DEF hid_error
  <2>2. reported' = reported
    BY <1>2 DEF hid_error
  <2>3. ErrorShape' /\ ErrorInv'
    BY <2>1, <2>2, TextFacts DEF AfterAnswer, ErrorShape
  <2>4. ErrorAnswer(last_global_error, allocated) \in {reported, OutOfMemory}
    BY DEF ErrorAnswer
  <2>5. ErrorAnswer(last_global_error, allocated) = NoText <=> reported = NoText
    <3>1. CASE last_global_error.error_code = 0
      BY <3>1 DEF ErrorAnswer
    <3>2. CASE last_global_error.error_code # 0
      <4>1. reported # NoText /\ OutOfMemory # NoText
        BY <3>2, TextFacts
      <4>2. ErrorAnswer(last_global_error, allocated) # NoText
        BY <2>4, <4>1
      <4>. QED BY <4>1, <4>2
    <3>. QED BY <3>1, <3>2
  <2>. QED BY <2>1, <2>3, <2>4, <2>5 DEF AnswerFits
<1>. QED BY <1>1, <1>2, AllRegister

(***************************************************************************)
(* The invariant.                                                          *)
(***************************************************************************)
LEMMA InitInvariant == Init => IInv
<1>. SUFFICES ASSUME Init PROVE IInv
  OBVIOUS
<1>. USE DEF Init
<1>1. TypeOK
  <2>1. pc \in [Openers -> States] /\ owned \in [Openers -> SUBSET Resources]
    BY DEF States, Resting
  <2>2. is_driver_detached \in [Openers -> BOOLEAN] /\ good_open \in [Openers -> BOOLEAN]
    BY Zenon
  <2>3. dev_index \in [Openers -> 0..Devices] /\ alt \in [Openers -> 0..Alternates]
    BY SizesAssumption
  <2>4. usb_context \in BOOLEAN /\ had_driver \in BOOLEAN /\ driver \in BOOLEAN
    BY Zenon
  <2>. QED BY <2>1, <2>2, <2>3, <2>4, Zenon DEF TypeOK
<1>2. OwnershipInv
  BY DEF OwnershipInv, FunctionInv, OwnInv, PathLoops, Initialising, Closing
<1>3. ClaimInv
  BY OpenersAssumption DEF ClaimInv, HasClaim
<1>4. ErrorShape /\ ErrorInv
  BY TextFacts DEF ErrorShape, ErrorInv, CleanContext, LIBUSB_SUCCESS, StringError, NULL
<1>5. AnswerFits
  BY DEF AnswerFits
<1>. QED BY <1>1, <1>2, <1>3, <1>4, <1>5 DEF IInv

LEMMA StepInvariant == IInv /\ [Next]_vars => IInv'
BY TypeStep, OwnershipStep, ClaimStep, ErrorStep DEF IInv

(* The inductive invariant holds in every reachable state, however the     *)
(* calls of the openers overlap.                                           *)
THEOREM Invariance == Spec => []IInv
BY InitInvariant, StepInvariant, PTL DEF Spec

(* Type correctness: the loops of hid_open_path stay within their lists.   *)
THEOREM TypeCorrect == Spec => []TypeOK
<1>1. IInv => TypeOK
  BY DEF IInv
<1>. QED BY <1>1, Invariance, PTL

(* Whichever calls of libusb fail, a call that returned NULL and a close   *)
(* hold nothing, except for the descriptor that                            *)
(* hid_libusb_wrap_sys_device forgets.                                     *)
THEOREM NothingLeft == Spec => []NothingHeld
<1>1. IInv => NothingHeld
  <2>. SUFFICES ASSUME IInv, NEW t \in Openers, pc[t] = "idle"
                PROVE  owned[t] = IF good_open[t] /\ api[t] = "hid_libusb_wrap_sys_device"
                                  THEN {"config"} ELSE {}
    BY DEF NothingHeld
  <2>. QED BY DEF IInv, OwnershipInv, OwnInv, Forgotten
<1>. QED BY <1>1, Invariance, PTL

(* Whoever has an open device has its structure, its handle and the        *)
(* interface without a kernel driver, whatever other openers do.           *)
THEOREM OpenOwns == Spec => []OpenDeviceOwns
<1>1. IInv => OpenDeviceOwns
  <2>. SUFFICES ASSUME IInv, NEW t \in Openers, pc[t] = "open"
                PROVE  {"struct", "handle"} \subseteq owned[t] /\ claimed = t /\ ~driver
    BY DEF OpenDeviceOwns
  <2>1. owned[t] = {"struct", "handle"} \cup Forgotten(t)
    BY DEF IInv, OwnershipInv, OwnInv
  <2>2. claimed = t /\ ~driver
    BY OpenersAssumption DEF IInv, ClaimInv, HasClaim
  <2>. QED BY <2>1, <2>2
<1>. QED BY <1>1, Invariance, PTL

(* hid_error tells of the error registered last, or that there is no       *)
(* memory to tell it; the text kept from an earlier error never stands in. *)
THEOREM AnswerTells == Spec => []AnswerFits
<1>1. IInv => AnswerFits
  BY DEF IInv
<1>. QED BY <1>1, Invariance, PTL

(***************************************************************************)
(* Calls that do not overlap.                                              *)
(***************************************************************************)

(* A call of one opener finds the others between calls. *)
LEMMA OthersRest ==
    ASSUME ~Concurrent, AloneInv, NEW t \in Openers, OpenerStep(t), NEW u \in Openers \ {t}
    PROVE  pc[u] \in Resting
<1>. SUFFICES ASSUME pc[t] \in Resting PROVE MayCall(t)
  BY DEF MayCall, AloneInv
<1>. USE DEF Goes, Resting
<1>1. CASE \E call \in Calls : CallOpen(t, call)
  BY <1>1 DEF CallOpen
<1>2. CASE AllocFails(t) \/ Alloc(t)
  BY <1>2 DEF AllocFails, Alloc
<1>3. CASE ListFails(t) \/ GetList(t) \/ ListEnds(t)
  BY <1>3 DEF ListFails, GetList, ListEnds
<1>4. CASE SkipDevice(t) \/ ReadConfig(t)
  BY <1>4 DEF SkipDevice, ReadConfig, NextDevice
<1>5. CASE OpenHandle(t) \/ OpenHandleFails(t)
  BY <1>5 DEF OpenHandle, OpenHandleFails, MoreAlternates
<1>6. CASE NoMoreAlternates(t) \/ FreeConfig(t) \/ OpenPathReturns(t)
  BY <1>6 DEF NoMoreAlternates, FreeConfig, OpenPathReturns
<1>7. CASE WrapSysDevice(t)
  BY <1>7 DEF WrapSysDevice, WrapHandle, WrapHandleFails, WrapConfigFails,
    WrapConfig, WrapError
<1>8. CASE NoDriver(t) \/ Detach(t) \/ DetachFails(t) \/ InitializeFailed(t)
  BY <1>8 DEF NoDriver, Detach, DetachFails, InitializeFailed
<1>9. CASE Claim(t) \/ ClaimFails(t) \/ Reattach(t)
  BY <1>9 DEF Claim, ClaimFails, Reattach
<1>10. CASE Close(t)
  BY <1>10 DEF Close, hid_close, ReleaseInterface, CloseAttaches, CloseFrees
<1>. QED BY <1>1, <1>2, <1>3, <1>4, <1>5, <1>6, <1>7, <1>8, <1>9, <1>10 DEF OpenerStep, OpenPath, InitializeDevice

LEMMA AloneStep ==
    ASSUME ~Concurrent
    PROVE  TypeOK /\ AloneInv /\ [Next]_vars => AloneInv'
<1>. SUFFICES ASSUME TypeOK, AloneInv, [Next]_vars PROVE AloneInv'
  OBVIOUS
<1>1. ASSUME NEW t \in Openers, OpenerStep(t) PROVE AloneInv'
  <2>1. \A u \in Openers \ {t} : pc'[u] \in Resting
    BY <1>1, OthersRest, OthersKeep
  <2>. QED BY <2>1 DEF AloneInv
<1>2. CASE hid_init \/ hid_exit \/ hid_error \/ Replug \/ UNCHANGED vars
  BY <1>2, GlobalSteps DEF AloneInv
<1>. QED BY <1>1, <1>2, Steps

(* The error of a hid_libusb_wrap_sys_device that fails is registered      *)
(* before it cleans up, and nobody clears it meanwhile.                    *)
LEMMA StringErrCode ==
    ASSUME NEW message, StringErr(message)
    PROVE  last_global_error'.error_code # LIBUSB_SUCCESS
BY DEF StringErr, register_string_error, StringError, LIBUSB_SUCCESS

LEMMA LibusbErrorCode ==
    ASSUME ErrorShape, NEW code \in Codes, NEW context, LibusbError(code, context)
    PROVE  last_global_error'.error_code # LIBUSB_SUCCESS
<1>1. code # LIBUSB_SUCCESS
  BY DEF Codes, LIBUSB_SUCCESS
<1>2. last_global_error'.error_code = code
  BY DEF LibusbError, register_libusb_error, ErrorShape
<1>. QED BY <1>1, <1>2

LEMMA CleanupAtStep ==
    ASSUME TypeOK, ErrorShape, NEW t \in Openers, OpenerStep(t), pc'[t] = "err"
    PROVE  last_global_error'.error_code # LIBUSB_SUCCESS
<1>. USE DEF TypeOK, Goes
<1>1. CASE \E call \in Calls : CallOpen(t, call)
  BY <1>1 DEF CallOpen
<1>2. CASE AllocFails(t) \/ Alloc(t)
  BY <1>2 DEF AllocFails, Alloc
<1>3. CASE ListFails(t) \/ GetList(t) \/ ListEnds(t)
  BY <1>3 DEF ListFails, GetList, ListEnds
<1>4. CASE SkipDevice(t) \/ ReadConfig(t)
  BY <1>4 DEF SkipDevice, ReadConfig, NextDevice
<1>5. CASE OpenHandle(t) \/ OpenHandleFails(t)
  BY <1>5 DEF OpenHandle, OpenHandleFails, MoreAlternates
<1>6. CASE NoMoreAlternates(t) \/ FreeConfig(t) \/ OpenPathReturns(t)
  BY <1>6 DEF NoMoreAlternates, FreeConfig, OpenPathReturns
<1>7. CASE WrapSysDevice(t)
  <2>1. CASE WrapHandle(t) \/ WrapError(t)
    BY <2>1 DEF WrapHandle, WrapError
  <2>2. CASE WrapHandleFails(t) \/ WrapConfigFails(t)
    BY <2>2, LibusbErrorCode DEF WrapHandleFails, WrapConfigFails
  <2>3. CASE WrapConfig(t)
    BY <2>3, StringErrCode DEF WrapConfig
  <2>. QED BY <1>7, <2>1, <2>2, <2>3 DEF WrapSysDevice
<1>8. CASE NoDriver(t) \/ Detach(t) \/ DetachFails(t)
  BY <1>8 DEF NoDriver, Detach, DetachFails
<1>11. CASE InitializeFailed(t)
  BY <1>11, StringErrCode DEF InitializeFailed
<1>9. CASE Claim(t) \/ ClaimFails(t) \/ Reattach(t)
  BY <1>9 DEF Claim, ClaimFails, Reattach
<1>10. CASE Close(t)
  BY <1>10 DEF Close, hid_close, ReleaseInterface, CloseAttaches, CloseFrees
<1>. QED BY <1>1, <1>2, <1>3, <1>4, <1>5, <1>6, <1>7, <1>8, <1>9, <1>10, <1>11 DEF OpenerStep, OpenPath, InitializeDevice

LEMMA CleanupStep ==
    ASSUME ~Concurrent
    PROVE  TypeOK /\ ErrorShape /\ AloneInv /\ CleanupInv /\ [Next]_vars => CleanupInv'
<1>. SUFFICES ASSUME TypeOK, ErrorShape, AloneInv, CleanupInv, [Next]_vars,
                     NEW t \in Openers, pc'[t] = "err"
              PROVE  last_global_error'.error_code # LIBUSB_SUCCESS
  BY DEF CleanupInv
<1>1. ASSUME NEW u \in Openers, OpenerStep(u)
      PROVE  last_global_error'.error_code # LIBUSB_SUCCESS
  <2>1. CASE u = t
    BY <1>1, <2>1, CleanupAtStep
  <2>2. CASE u # t
    <3>1. pc'[t] = pc[t] /\ pc[t] \in Resting
      BY <1>1, <2>2, OthersKeep, OthersRest
    <3>. QED BY <3>1 DEF Resting
  <2>. QED BY <2>1, <2>2
<1>2. CASE hid_init \/ hid_exit \/ hid_error \/ Replug \/ UNCHANGED vars
  <2>1. pc[t] = "err"
    BY <1>2, GlobalSteps
  <2>2. UNCHANGED vars
    BY <1>2, <2>1 DEF hid_init, hid_exit, hid_error, Replug, Resting
  <2>. QED BY <2>1, <2>2 DEF CleanupInv, vars
<1>. QED BY <1>1, <1>2, Steps

(***************************************************************************)
(* The kernel driver.  Without overlapping calls the others of a step have *)
(* the driver detached exactly when they have the interface.               *)
(***************************************************************************)
LEMMA OthersDriver ==
    ASSUME ~Concurrent, TypeOK, AloneInv, NEW t \in Openers, OpenerStep(t),
           NEW u \in Openers \ {t}
    PROVE  /\ HasDetached(u) <=> is_driver_detached[u] /\ claimed = u
           /\ HasDetached(u)' <=> is_driver_detached[u] /\ claimed' = u
           /\ pc'[u] \notin {"reattach", "attach"}
<1>1. pc'[u] = pc[u] /\ is_driver_detached'[u] = is_driver_detached[u]
  BY OthersKeep
<1>2. pc[u] \in Resting
  BY OthersRest
<1>. QED BY <1>1, <1>2 DEF HasDetached, Resting

(* A step that moves neither the driver nor the claim, of an opener that   *)
(* is neither on its way to the claim nor to the reattachment.             *)
LEMMA QuietDriver ==
    ASSUME ~Concurrent, TypeOK, AloneInv, DriverInv, NEW t \in Openers, OpenerStep(t),
           UNCHANGED <<is_driver_detached, had_driver, driver, claimed>>,
           pc[t] \notin {"claim", "reattach", "attach"},
           pc'[t] \notin {"claim", "reattach", "attach"}
    PROVE  DriverInv'
<1>1. \A u \in Openers : HasDetached(u)' <=> HasDetached(u)
  BY OthersDriver DEF HasDetached
<1>2. \A u \in Openers : pc'[u] \in {"reattach", "attach"} => is_driver_detached'[u]
  BY OthersDriver
<1>. QED BY <1>1, <1>2 DEF DriverInv

LEMMA DriverAtStep ==
    ASSUME ~Concurrent, TypeOK, OwnershipInv, ClaimInv, AloneInv, DriverInv,
           NEW t \in Openers, OpenerStep(t)
    PROVE  DriverInv'
<1>. DEFINE Quiet == /\ UNCHANGED <<is_driver_detached, had_driver, driver, claimed>>
                     /\ pc[t] \notin {"claim", "reattach", "attach"}
                     /\ pc'[t] \notin {"claim", "reattach", "attach"}
<1>0. CASE Quiet
  BY <1>0, QuietDriver
<1>. HIDE DEF Quiet
<1>a. /\ pc \in [Openers -> States] /\ is_driver_detached \in [Openers -> BOOLEAN]
      /\ had_driver \in BOOLEAN /\ driver \in BOOLEAN
  BY DEF TypeOK
<1>1. CASE \E call \in Calls : CallOpen(t, call)
  BY <1>0, <1>1, <1>a DEF CallOpen, kernelVars, Quiet
<1>2. CASE AllocFails(t) \/ Alloc(t)
  BY <1>0, <1>2, <1>a DEF AllocFails, Alloc, Goes, loopVars, fixed, kernelVars, Quiet
<1>3. CASE ListFails(t) \/ GetList(t) \/ ListEnds(t)
  BY <1>0, <1>3, <1>a DEF ListFails, GetList, ListEnds, Goes, loopVars, fixed, kernelVars, Quiet
<1>4. CASE SkipDevice(t) \/ ReadConfig(t)
  BY <1>0, <1>4, <1>a DEF SkipDevice, ReadConfig, NextDevice, Goes, fixed, kernelVars, Quiet
<1>5. CASE OpenHandleFails(t) \/ NoMoreAlternates(t) \/ FreeConfig(t)
  BY <1>0, <1>5, <1>a
     DEF OpenHandleFails, NoMoreAlternates, FreeConfig, Goes, loopVars, fixed, kernelVars, Quiet
<1>6. CASE OpenHandle(t)
  BY <1>0, <1>6, <1>a DEF OpenHandle, Goes, fixed, kernelVars, Quiet
<1>7. CASE OpenPathReturns(t)
  BY <1>0, <1>7, <1>a DEF OpenPathReturns, Goes, loopVars, fixed, kernelVars, Quiet
<1>8. CASE WrapHandle(t) \/ WrapHandleFails(t) \/ WrapConfigFails(t)
  BY <1>0, <1>8, <1>a
     DEF WrapHandle, WrapHandleFails, WrapConfigFails, Goes, loopVars, fixed, kernelVars, Quiet
<1>9. CASE WrapConfig(t) \/ WrapError(t) \/ InitializeFailed(t)
  BY <1>0, <1>9, <1>a
     DEF WrapConfig, WrapError, InitializeFailed, Goes, loopVars, fixed, kernelVars, Quiet
<1>10. CASE hid_close(t) \/ CloseFrees(t)
  BY <1>0, <1>10, <1>a
     DEF hid_close, CloseFrees, Goes, closeVars, loopVars, fixed, kernelVars, Quiet
<1>b. FunctionInv(t) /\ (HasClaim(t) <=> claimed = t)
  BY DEF OwnershipInv, ClaimInv
<1>11. CASE NoDriver(t) \/ DetachFails(t)
  <2>1. /\ pc[t] = "detach" /\ pc'[t] \in {"claim", "failed"} /\ ~is_driver_detached'[t]
        /\ UNCHANGED <<had_driver, driver, claimed>>
    BY <1>11, <1>a DEF NoDriver, DetachFails, Goes, initVars, fixed, kernelVars
  <2>2. claimed # t
    BY <2>1, <1>b DEF FunctionInv, HasClaim, Initialising
  <2>3. \A u \in Openers : HasDetached(u)' <=> HasDetached(u)
    BY <2>1, <2>2, OthersDriver DEF HasDetached
  <2>4. pc'[t] \notin {"reattach", "attach"}
    BY <2>1
  <2>. QED BY <2>1, <2>3, <2>4, OthersDriver, OthersKeep DEF DriverInv
<1>12. CASE Detach(t)
  <2>1. /\ pc[t] = "detach" /\ pc'[t] = "claim" /\ is_driver_detached'[t]
        /\ driver /\ ~driver' /\ UNCHANGED <<had_driver, claimed>>
    BY <1>12, <1>a DEF Detach, Goes, initVars, fixed
  <2>2. claimed = Nobody /\ had_driver /\ \A u \in Openers : ~HasDetached(u)
    BY <2>1 DEF ClaimInv, DriverInv
  <2>3. HasDetached(t)' /\ \A u \in Openers \ {t} : ~HasDetached(u)'
    BY <2>1, <2>2, OthersDriver DEF HasDetached
  <2>. QED BY <2>1, <2>2, <2>3, OthersDriver DEF DriverInv
<1>13. CASE Claim(t)
  <2>1. /\ pc[t] = "claim" /\ pc'[t] \in {"alternate", "open"}
        /\ claimed = Nobody /\ claimed' = t
        /\ UNCHANGED <<had_driver, driver, is_driver_detached>>
    BY <1>13, <1>a DEF Claim, Goes, initVars, fixed
  <2>2. \A u \in Openers : HasDetached(u)' <=> HasDetached(u)
    BY <2>1, OthersDriver, OpenersAssumption DEF HasDetached
  <2>3. \A u \in Openers \ {t} : ~HasDetached(u)'
    BY <2>1, OthersDriver
  <2>. QED BY <2>1, <2>2, <2>3, OthersDriver DEF DriverInv
<1>14. CASE ClaimFails(t)
  <2>1. /\ pc[t] = "claim"
        /\ pc'[t] = IF is_driver_detached[t] THEN "reattach" ELSE "failed"
        /\ UNCHANGED <<had_driver, driver, claimed, is_driver_detached>>
    BY <1>14, <1>a DEF ClaimFails, Goes, initVars, fixed, kernelVars
  <2>2. claimed # t
    BY <2>1, <1>b DEF FunctionInv, HasClaim, Initialising, PathLoops
  <2>3. \A u \in Openers : HasDetached(u)' <=> HasDetached(u)
    BY <2>1, <2>2, OthersDriver DEF HasDetached
  <2>. QED BY <2>1, <2>3, OthersDriver DEF DriverInv
<1>15. CASE Reattach(t) \/ CloseAttaches(t)
  <2>1. /\ pc[t] \in {"reattach", "attach"} /\ pc'[t] \in {"failed", "close"}
        /\ driver' = (driver \/ claimed = Nobody)
        /\ UNCHANGED <<had_driver, claimed, is_driver_detached>>
    BY <1>15, <1>a
       DEF Reattach, CloseAttaches, AttachesDriver, Goes, initVars, closeVars, loopVars, fixed
  <2>2. claimed # t
    BY <2>1, <1>b DEF FunctionInv, HasClaim, PathLoops
  <2>3. HasDetached(t) /\ had_driver /\ claimed = Nobody
    BY <2>1, <2>2 DEF DriverInv, HasDetached
  <2>4. \A u \in Openers : ~HasDetached(u)'
    BY <2>1, <2>3, OthersDriver, OpenersAssumption DEF HasDetached
  <2>5. driver' /\ pc'[t] \notin {"reattach", "attach"}
    BY <2>1, <2>3
  <2>. QED BY <2>1, <2>3, <2>4, <2>5, OthersDriver DEF DriverInv
<1>16. CASE ReleaseInterface(t)
  <2>1. /\ pc[t] = "release"
        /\ pc'[t] = IF is_driver_detached[t] THEN "attach" ELSE "close"
        /\ claimed' = Nobody
        /\ UNCHANGED <<had_driver, driver, is_driver_detached>>
    BY <1>16, <1>a DEF ReleaseInterface, Goes, closeVars, loopVars, fixed
  <2>2. claimed = t
    BY <2>1, <1>b DEF HasClaim
  <2>3. \A u \in Openers : HasDetached(u)' <=> HasDetached(u)
    BY <2>1, <2>2, OthersDriver, OpenersAssumption DEF HasDetached
  <2>. QED BY <2>1, <2>3, OthersDriver DEF DriverInv
<1>. QED
  BY <1>1, <1>2, <1>3, <1>4, <1>5, <1>6, <1>7, <1>8, <1>9, <1>10, <1>11, <1>12, <1>13,
     <1>14, <1>15, <1>16 DEF OpenerStep, OpenPath, WrapSysDevice, InitializeDevice, Close

LEMMA DriverStep ==
    ASSUME ~Concurrent
    PROVE  IInv /\ AloneInv /\ DriverInv /\ [Next]_vars => DriverInv'
<1>. SUFFICES ASSUME IInv, AloneInv, DriverInv, [Next]_vars PROVE DriverInv'
  OBVIOUS
<1>1. ASSUME NEW t \in Openers, OpenerStep(t) PROVE DriverInv'
  BY <1>1, DriverAtStep DEF IInv
<1>2. CASE hid_init \/ hid_exit \/ hid_error \/ Replug \/ UNCHANGED vars
  <2>1. UNCHANGED <<pc, is_driver_detached, had_driver, driver, claimed>>
    BY <1>2, GlobalSteps DEF loopVars, kernelVars
  <2>. QED BY <2>1 DEF DriverInv, HasDetached
<1>. QED BY <1>1, <1>2, Steps

(* What more holds while the calls do not overlap.                         *)
LEMMA AloneInvariance == ASSUME ~Concurrent PROVE Spec => [](IInv /\ AlonePart)
<1>1. Init => AlonePart
  <2>. SUFFICES ASSUME Init PROVE AlonePart
    OBVIOUS
  <2>1. AloneInv /\ CleanupInv
    BY DEF Init, AloneInv, CleanupInv, Resting
  <2>2. \A t \in Openers : ~HasDetached(t)
    BY DEF Init, HasDetached
  <2>3. \A t \in Openers : pc[t] = "idle"
    BY DEF Init
  <2>4. driver = had_driver /\ had_driver \in BOOLEAN
    BY DEF Init
  <2>5. DriverInv
    BY <2>2, <2>3, <2>4 DEF DriverInv
  <2>. QED BY <2>1, <2>5 DEF AlonePart
<1>2. IInv /\ AlonePart /\ [Next]_vars => AlonePart'
  <2>1. IInv => TypeOK /\ ErrorShape
    BY DEF IInv
  <2>. QED BY <2>1, AloneStep, CleanupStep, DriverStep DEF AlonePart
<1>. QED BY <1>1, <1>2, InitInvariant, StepInvariant, PTL DEF Spec

(* hid_close and every failing open put the kernel driver back: when the   *)
(* calls do not overlap, with every device closed the interface has the    *)
(* driver it had before the first call, and no claim.                      *)
THEOREM DriverIsRestored == ASSUME ~Concurrent PROVE Spec => []DriverRestored
<1>1. IInv /\ AlonePart => DriverRestored
  <2>. SUFFICES ASSUME IInv, AlonePart, \A t \in Openers : pc[t] = "idle"
                PROVE  driver = had_driver /\ claimed = Nobody
    BY DEF DriverRestored
  <2>1. claimed \in Openers \cup {Nobody} /\ driver \in BOOLEAN /\ had_driver \in BOOLEAN
    BY DEF IInv, TypeOK
  <2>2. \A t \in Openers : claimed # t
    BY DEF IInv, ClaimInv, HasClaim, PathLoops
  <2>3. \A t \in Openers : ~HasDetached(t)
    BY <2>2 DEF HasDetached
  <2>. QED BY <2>1, <2>2, <2>3 DEF AlonePart, DriverInv
<1>. QED BY <1>1, AloneInvariance, PTL

(***************************************************************************)
(* NULL is explained.                                                      *)
(***************************************************************************)
LEMMA ReturnExplained ==
    ASSUME IInv, CleanupInv, NEW t \in Openers, OpenerStep(t),
           pc[t] \notin Resting, pc'[t] = "idle", ~good_open[t]
    PROVE  last_global_error'.error_code # LIBUSB_SUCCESS
<1>. USE DEF Resting, Goes
<1>0. pc \in [Openers -> States] /\ FunctionInv(t) /\ ErrorShape
  BY DEF IInv, TypeOK, OwnershipInv
<1>1. CASE \E call \in Calls : CallOpen(t, call)
  BY <1>1 DEF CallOpen
<1>2. CASE AllocFails(t)
  BY <1>2, StringErrCode DEF AllocFails
<1>3. CASE ListFails(t)
  BY <1>0, <1>3, LibusbErrorCode DEF ListFails
<1>4. CASE OpenPathReturns(t)
  <2>1. CASE last_global_error.error_code = LIBUSB_SUCCESS
    BY <1>4, <2>1, StringErrCode DEF OpenPathReturns
  <2>2. CASE last_global_error.error_code # LIBUSB_SUCCESS
    BY <1>4, <2>2 DEF OpenPathReturns, NoErrorYet, errorVars
  <2>. QED BY <2>1, <2>2
<1>5. CASE WrapError(t)
  BY <1>5 DEF WrapError, CleanupInv, NoErrorYet, errorVars
<1>6. CASE CloseFrees(t)
  BY <1>0, <1>6 DEF CloseFrees, FunctionInv, Closing
<1>7. CASE Alloc(t) \/ GetList(t) \/ ListEnds(t)
  BY <1>0, <1>7 DEF Alloc, GetList, ListEnds
<1>8. CASE SkipDevice(t) \/ ReadConfig(t) \/ OpenHandle(t) \/ OpenHandleFails(t)
  BY <1>0, <1>8 DEF SkipDevice, ReadConfig, OpenHandle, OpenHandleFails
<1>9. CASE NoMoreAlternates(t) \/ FreeConfig(t)
  BY <1>0, <1>9 DEF NoMoreAlternates, FreeConfig
<1>10. CASE WrapHandle(t) \/ WrapHandleFails(t) \/ WrapConfigFails(t) \/ WrapConfig(t)
  BY <1>0, <1>10 DEF WrapHandle, WrapHandleFails, WrapConfigFails, WrapConfig
<1>11. CASE InitializeDevice(t)
  BY <1>0, <1>11 DEF InitializeDevice, NoDriver, Detach, DetachFails, Claim, ClaimFails,
    Reattach, InitializeFailed
<1>12. CASE hid_close(t) \/ ReleaseInterface(t) \/ CloseAttaches(t)
  BY <1>0, <1>12 DEF hid_close, ReleaseInterface, CloseAttaches
<1>. QED
  BY <1>1, <1>2, <1>3, <1>4, <1>5, <1>6, <1>7, <1>8, <1>9, <1>10, <1>11, <1>12
     DEF OpenerStep, OpenPath, WrapSysDevice, Close

(* An open that returns NULL has registered an error for hid_error(NULL):  *)
(* its own, that of a setting tried before, or "device not found".         *)
THEOREM NullIsExplained == ASSUME ~Concurrent PROVE Spec => NullExplained
<1>. DEFINE Explained ==
       \A t \in Openers : Returns(t) /\ pc'[t] = "idle" /\ ~good_open[t] =>
         last_global_error'.error_code # LIBUSB_SUCCESS
<1>1. IInv /\ AlonePart /\ [Next]_vars => [Explained]_vars
  <2>. SUFFICES ASSUME IInv, AlonePart, [Next]_vars, NEW t \in Openers, Returns(t),
                       pc'[t] = "idle", ~good_open[t]
                PROVE  last_global_error'.error_code # LIBUSB_SUCCESS
    OBVIOUS
  <2>1. pc[t] \notin Resting
    BY DEF Returns
  <2>2. PICK u \in Openers : OpenerStep(u)
    <3>1. CASE hid_init \/ hid_exit \/ hid_error \/ Replug \/ UNCHANGED vars
      BY <3>1, <2>1, GlobalSteps DEF Resting
    <3>. QED BY <3>1, Steps
  <2>3. u = t
    BY <2>1, <2>2, OthersRest DEF AlonePart
  <2>. QED BY <2>1, <2>2, <2>3, ReturnExplained DEF AlonePart
<1>. QED BY <1>1, AloneInvariance, PTL DEF Spec, NullExplained
=============================================================================
