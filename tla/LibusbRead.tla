----------------------------- MODULE LibusbRead -----------------------------
(***************************************************************************)
(* The input path of one open device of the libusb backend                 *)
(* (libusb/hid.c with libusb/hidapi_thread_pthread.h): the start-up of the *)
(* read thread at the end of hidapi_initialize_device, read_thread, the    *)
(* transfer callback read_callback, hid_read_timeout in its three modes    *)
(* called by any number of threads, and hid_close.                         *)
(*                                                                         *)
(* Threads: "app" opens and closes the device, "rt" is its read thread,    *)
(* the Readers read.  read_callback runs inside libusb's event handling,   *)
(* which is done on the one usb_context of the process: by rt (handler     *)
(* "own") or by the read thread of another device or a synchronous         *)
(* transfer (handler "other").                                             *)
(*                                                                         *)
(* Everything done while holding thread_state.mutex without waiting is one *)
(* step; the two flags shutdown_thread and transfer_loop_finished are      *)
(* written and read outside the mutex, so a read of a flag and what is     *)
(* done with it are separate steps wherever the code lets others run.      *)
(***************************************************************************)
EXTENDS Integers, Sequences

CONSTANTS
    Readers,              \* threads that call hid_read / hid_read_timeout
    NoOwner,              \* "the mutex is free", not a reader
    Limit,                \* the 30 of read_callback
    MaxReports,           \* bound: reports the device sends
    OtherHandlers,        \* do other threads handle this context's events?
    ThreadCreateMayFail,  \* can pthread_create fail?
    SpuriousBarrier       \* can a barrier wait return early?  (TRUE only for
                          \* the emulation used on Android)

ASSUME ReadersAssumption == NoOwner \notin Readers
ASSUME LimitAssumption == Limit \in Nat
ASSUME MaxReportsAssumption == MaxReports \in Nat
ASSUME FlagsAssumption ==
    {OtherHandlers, ThreadCreateMayFail, SpuriousBarrier} \subseteq BOOLEAN

VARIABLES
    app,                    \* pc of the thread that opens and closes
    rt,                     \* pc of read_thread
    callback,               \* pc of read_callback, "none" when not running
    handler,                \* who runs, or last ran, read_callback
    reader,                 \* pc of each reader in hid_read_timeout
    mode,                   \* its milliseconds argument, as a mode
    result,                 \* the bytes_read of its last or current call
    mutex,                  \* owner of thread_state.mutex
    input_reports,          \* dev->input_reports, oldest first
    sent,                   \* reports received so far (their numbers)
    shutdown_thread,        \* dev->shutdown_thread
    transfer_loop_finished, \* dev->transfer_loop_finished
    transfer,               \* dev->transfer: "none", "idle", "inflight", "freed"
    cancelling,             \* a cancellation of the transfer is under way
    read_error,             \* dev->last_read_error_str is set
    blocking                \* dev->blocking

vars == <<app, rt, callback, handler, reader, mode, result, mutex,
          input_reports, sent, shutdown_thread, transfer_loop_finished,
          transfer, cancelling, read_error, blocking>>

libVars == <<app, rt, callback, handler, sent, shutdown_thread,
             transfer_loop_finished, transfer, cancelling, blocking>>
readerVars == <<reader, mode, result, mutex, read_error>>
flags == <<shutdown_thread, transfer_loop_finished>>
xfer == <<transfer, cancelling>>

Modes == {"blocking", "timeout", "nonblocking"}
Empty == 0
Error == -1

AppStates == {"create", "arrive", "barrier", "open", "cancel", "join", "free",
              "drain", "closed"}
ThreadStates == {"none", "alloc", "submit", "barrier", "loop", "handle",
                 "cancel", "drain", "broadcast", "exited"}
CallbackStates == {"none", "enqueue", "check", "resubmit"}
ReaderStates == {"out", "enter", "locked", "test", "sleep", "wait", "woken",
                 "expired", "recheck", "unlock"}

Init ==
    /\ app = "create" /\ rt = "none" /\ callback = "none" /\ handler = "own"
    /\ reader = [r \in Readers |-> "out"]
    /\ mode = [r \in Readers |-> "blocking"]
    /\ result = [r \in Readers |-> Empty]
    /\ mutex = NoOwner
    /\ input_reports = <<>> /\ sent = 0
    /\ shutdown_thread = FALSE /\ transfer_loop_finished = FALSE
    /\ transfer = "none" /\ cancelling = FALSE
    /\ read_error = FALSE /\ blocking = TRUE

(***************************************************************************)
(* Start-up, and the end of hidapi_initialize_device.                      *)
(***************************************************************************)

(* hidapi_thread_create does not report a failure: the caller goes on to   *)
(* the barrier either way.                                                 *)
ThreadCreate ==
    /\ app = "create" /\ app' = "arrive" /\ rt' = "alloc"
    /\ UNCHANGED <<callback, handler, input_reports, sent, flags, xfer, blocking, readerVars>>

ThreadCreateFails ==
    /\ ThreadCreateMayFail
    /\ app = "create" /\ app' = "arrive"
    /\ UNCHANGED <<rt, callback, handler, input_reports, sent, flags, xfer, blocking, readerVars>>

ThreadArrived == rt \notin {"none", "alloc", "submit"}
AppArrived == app \notin {"create", "arrive"}

OpenArrives ==
    /\ app = "arrive" /\ app' = "barrier"
    /\ UNCHANGED <<rt, callback, handler, input_reports, sent, flags, xfer, blocking, readerVars>>

(* Mutant: no barrier. *)
OpenReturns_NoBarrier ==
    /\ app = "barrier" /\ app' = "open"
    /\ UNCHANGED <<rt, callback, handler, input_reports, sent, flags, xfer, blocking, readerVars>>

OpenReturns ==
    /\ app = "barrier" /\ (ThreadArrived \/ SpuriousBarrier) /\ app' = "open"
    /\ UNCHANGED <<rt, callback, handler, input_reports, sent, flags, xfer, blocking, readerVars>>

(***************************************************************************)
(* read_thread.                                                            *)
(***************************************************************************)

RtAlloc ==
    /\ rt = "alloc" /\ rt' = "submit"
    /\ transfer' = "idle"
    /\ UNCHANGED <<app, callback, handler, input_reports, sent, flags, cancelling, blocking, readerVars>>

RtSubmit ==
    /\ rt = "submit" /\ rt' = "barrier"
    /\ transfer' = "inflight" /\ cancelling' = FALSE
    /\ UNCHANGED <<app, callback, handler, input_reports, sent, flags, blocking, readerVars>>

(* Mutant: the thread returns before the barrier. *)
RtSubmitFails_ReturnsEarly ==
    /\ rt = "submit" /\ rt' = "none"
    /\ shutdown_thread' = TRUE /\ transfer_loop_finished' = TRUE
    /\ UNCHANGED <<app, callback, handler, input_reports, sent, xfer, blocking, readerVars>>

RtSubmitFails ==
    /\ rt = "submit" /\ rt' = "barrier"
    /\ shutdown_thread' = TRUE /\ transfer_loop_finished' = TRUE
    /\ UNCHANGED <<app, callback, handler, input_reports, sent, xfer, blocking, readerVars>>

RtLeavesBarrier ==
    /\ rt = "barrier" /\ (AppArrived \/ SpuriousBarrier) /\ rt' = "loop"
    /\ UNCHANGED <<app, callback, handler, input_reports, sent, flags, xfer, blocking, readerVars>>

RtLoop ==
    /\ rt = "loop"
    /\ rt' = IF shutdown_thread THEN "cancel" ELSE "handle"
    /\ UNCHANGED <<app, callback, handler, input_reports, sent, flags, xfer, blocking, readerVars>>

(* rt is inside libusb, not inside a callback that it runs itself. *)
RtBetweenCallbacks == callback = "none" \/ handler = "other"

(* libusb_handle_events returns: an event was handled, its own timeout of  *)
(* 60 s ran out, or an error that is not fatal.                            *)
RtHandled ==
    /\ rt = "handle" /\ RtBetweenCallbacks /\ rt' = "loop"
    /\ UNCHANGED <<app, callback, handler, input_reports, sent, flags, xfer, blocking, readerVars>>

RtHandleFatal ==
    /\ rt = "handle" /\ RtBetweenCallbacks /\ rt' = "cancel"
    /\ shutdown_thread' = TRUE
    /\ UNCHANGED <<app, callback, handler, input_reports, sent,
                   transfer_loop_finished, xfer, blocking, readerVars>>

(* libusb_cancel_transfer: without effect when nothing is in flight. *)
CancelTransfer == cancelling' = (cancelling \/ transfer = "inflight")

RtCancel ==
    /\ rt = "cancel" /\ rt' = "drain"
    /\ CancelTransfer
    /\ UNCHANGED <<app, callback, handler, input_reports, sent, flags, transfer, blocking, readerVars>>

(* Mutant: the thread ends without waiting for its transfer. *)
RtDrained_NoWait ==
    /\ rt = "drain" /\ RtBetweenCallbacks
    /\ rt' = "broadcast"
    /\ UNCHANGED <<app, callback, handler, input_reports, sent, flags, xfer, blocking, readerVars>>

RtDrained ==
    /\ rt = "drain" /\ transfer_loop_finished /\ RtBetweenCallbacks
    /\ rt' = "broadcast"
    /\ UNCHANGED <<app, callback, handler, input_reports, sent, flags, xfer, blocking, readerVars>>

(* Mutants: the broadcast without the mutex, and no broadcast. *)
RtBroadcast_NoMutex ==
    /\ rt = "broadcast" /\ rt' = "exited"
    /\ reader' = [r \in Readers |-> IF reader[r] = "wait" THEN "woken" ELSE reader[r]]
    /\ UNCHANGED <<app, callback, handler, mode, result, mutex, input_reports,
                   sent, flags, xfer, read_error, blocking>>

RtBroadcast_Silent ==
    /\ rt = "broadcast" /\ rt' = "exited"
    /\ UNCHANGED <<app, callback, handler, input_reports, sent, flags, xfer, blocking, readerVars>>

RtBroadcast ==
    /\ rt = "broadcast" /\ mutex = NoOwner /\ rt' = "exited"
    /\ reader' = [r \in Readers |-> IF reader[r] = "wait" THEN "woken" ELSE reader[r]]
    /\ UNCHANGED <<app, callback, handler, mode, result, mutex, input_reports,
                   sent, flags, xfer, read_error, blocking>>

(***************************************************************************)
(* The transfer ends, and read_callback runs.                              *)
(***************************************************************************)

(* Event handling takes the finished transfer off libusb's list and calls  *)
(* read_callback, which tells the four outcomes of the status apart.       *)
CallbackStarts(h) ==
    /\ transfer = "inflight" /\ callback = "none"
    /\ IF h = "own" THEN rt \in {"handle", "drain"} ELSE OtherHandlers
    /\ handler' = h
    /\ transfer' = "idle" /\ cancelling' = FALSE
    /\ UNCHANGED <<app, rt, input_reports, sent, transfer_loop_finished, blocking, readerVars>>

TransferCompleted(h) ==
    /\ sent < MaxReports
    /\ CallbackStarts(h)
    /\ callback' = "enqueue"
    /\ UNCHANGED shutdown_thread

TransferCancelled(h) ==
    /\ cancelling
    /\ CallbackStarts(h)
    /\ callback' = "check"
    /\ shutdown_thread' = TRUE

TransferNoDevice(h) ==
    /\ CallbackStarts(h)
    /\ callback' = "check"
    /\ shutdown_thread' = TRUE

(* The 5000 ms of the transfer ran out, or a code the callback only logs. *)
TransferTimedOut(h) ==
    /\ CallbackStarts(h)
    /\ callback' = "check"
    /\ UNCHANGED shutdown_thread

(* return_data: unlink the oldest report. *)
ReturnData(q) == Tail(q)

(* Mutant: the walk counted one link less. *)
Enqueued_OneLate(q, rpt) ==
    IF q # <<>> /\ Len(q) - 1 > Limit + 1
    THEN ReturnData(Append(q, rpt))
    ELSE Append(q, rpt)

(* The list after the new report was attached: the oldest one goes when    *)
(* the walk to the end of the list passed more than Limit links.           *)
Enqueued(q, rpt) ==
    LET num_queued == Len(q) - 1
    IN IF q # <<>> /\ num_queued > Limit
       THEN ReturnData(Append(q, rpt))
       ELSE Append(q, rpt)

(* Mutant: nobody is woken. *)
Signal_Nobody == UNCHANGED reader

(* pthread_cond_signal wakes one waiting thread, if there is one. *)
Signal ==
    LET waiting == {r \in Readers : reader[r] = "wait"}
    IN IF waiting = {}
       THEN UNCHANGED reader
       ELSE \E r \in waiting : reader' = [reader EXCEPT ![r] = "woken"]

(* Attach the report; signal only when the list was empty before. *)
CallbackEnqueue ==
    /\ callback = "enqueue" /\ mutex = NoOwner
    /\ callback' = "check"
    /\ sent' = sent + 1
    /\ input_reports' = Enqueued(input_reports, sent + 1)
    /\ IF input_reports = <<>> THEN Signal ELSE UNCHANGED reader
    /\ UNCHANGED <<app, rt, handler, mode, result, mutex, flags, xfer, read_error, blocking>>

CallbackCheck ==
    /\ callback = "check"
    /\ IF shutdown_thread
       THEN callback' = "none" /\ transfer_loop_finished' = TRUE
       ELSE callback' = "resubmit" /\ UNCHANGED transfer_loop_finished
    /\ UNCHANGED <<app, rt, handler, input_reports, sent, shutdown_thread, xfer, blocking, readerVars>>

CallbackResubmit ==
    /\ callback = "resubmit" /\ callback' = "none"
    /\ transfer' = "inflight" /\ cancelling' = FALSE
    /\ UNCHANGED <<app, rt, handler, input_reports, sent, flags, blocking, readerVars>>

(* Mutant: the loop is told to stop, but never that the transfer is over. *)
CallbackResubmitFails_NotFinished ==
    /\ callback = "resubmit" /\ callback' = "none"
    /\ shutdown_thread' = TRUE
    /\ UNCHANGED <<app, rt, handler, input_reports, sent, transfer_loop_finished, xfer,
                   blocking, readerVars>>

CallbackResubmitFails ==
    /\ callback = "resubmit" /\ callback' = "none"
    /\ shutdown_thread' = TRUE /\ transfer_loop_finished' = TRUE
    /\ UNCHANGED <<app, rt, handler, input_reports, sent, xfer, blocking, readerVars>>

(***************************************************************************)
(* hid_read_timeout.  A reader takes steps only while the device exists.   *)
(***************************************************************************)

Exists == app \in {"open", "cancel", "join", "free", "drain"}

Moves(r, from, to) ==
    /\ Exists
    /\ reader[r] = from
    /\ reader' = [reader EXCEPT ![r] = to]

(* A call without a buffer or with length 0. *)
ReadRefused(r) ==
    /\ app = "open" /\ reader[r] = "out"
    /\ result' = [result EXCEPT ![r] = Error]
    /\ read_error' = TRUE
    /\ UNCHANGED <<reader, mode, mutex, input_reports, libVars>>

(* The call clears the read error before it takes the mutex; bytes_read is *)
(* -1 until a report or a timeout says otherwise.                          *)
ReadBegins(r, m) ==
    /\ app = "open"
    /\ Moves(r, "out", "enter")
    /\ mode' = [mode EXCEPT ![r] = m]
    /\ result' = [result EXCEPT ![r] = Error]
    /\ read_error' = FALSE
    /\ UNCHANGED <<mutex, input_reports, libVars>>

(* hid_read chooses between waiting for ever and not at all. *)
hid_read(r) == ReadBegins(r, IF blocking THEN "blocking" ELSE "nonblocking")
hid_read_timeout(r) == \E m \in Modes : ReadBegins(r, m)

ReadLocks(r) ==
    /\ mutex = NoOwner
    /\ Moves(r, "enter", "locked")
    /\ mutex' = r
    /\ UNCHANGED <<mode, result, read_error, input_reports, libVars>>

(* Mutant: the report stays in the list. *)
TakeReport_Keeps(r) ==
    /\ result' = [result EXCEPT ![r] = Head(input_reports)]
    /\ UNCHANGED input_reports

(* What a reader does with the oldest report, in each place it finds one. *)
TakeReport(r) ==
    /\ result' = [result EXCEPT ![r] = Head(input_reports)]
    /\ input_reports' = ReturnData(input_reports)

(* Before any waiting: a queued report, a terminated read thread, or the   *)
(* end of a non-blocking call.                                             *)
ReadFirstLook(r) ==
    /\ \/ /\ input_reports # <<>>
          /\ Moves(r, "locked", "unlock")
          /\ TakeReport(r)
          /\ UNCHANGED read_error
       \/ /\ input_reports = <<>> /\ shutdown_thread
          /\ Moves(r, "locked", "unlock")
          /\ read_error' = TRUE
          /\ UNCHANGED <<result, input_reports>>
       \/ /\ input_reports = <<>> /\ ~shutdown_thread /\ mode[r] = "nonblocking"
          /\ Moves(r, "locked", "unlock")
          /\ result' = [result EXCEPT ![r] = Empty]
          /\ UNCHANGED <<read_error, input_reports>>
       \/ /\ input_reports = <<>> /\ ~shutdown_thread /\ mode[r] # "nonblocking"
          /\ Moves(r, "locked", "test")
          /\ UNCHANGED <<result, read_error, input_reports>>
    /\ UNCHANGED <<mode, mutex, libVars>>

(* Mutant: no call registers why its wait loop ended. *)
TestRegisters_Never(r) == FALSE

(* Which calls register why their wait loop ended without data. *)
TestRegisters(r) == mode[r] = "blocking"

(* The condition of the two wait loops, and what follows when it is false: *)
(* a blocking call looks for data and registers the reason when there is   *)
(* none; a timed call leaves with bytes_read still -1.  (A timed call is   *)
(* here with an empty list only.)                                          *)
ReadTest(r) ==
    /\ \/ /\ input_reports = <<>> /\ ~shutdown_thread
          /\ Moves(r, "test", "sleep")
          /\ UNCHANGED <<result, read_error, input_reports>>
       \/ /\ mode[r] = "blocking" /\ input_reports # <<>>
          /\ Moves(r, "test", "unlock")
          /\ TakeReport(r)
          /\ UNCHANGED read_error
       \/ /\ input_reports = <<>> /\ shutdown_thread
          /\ Moves(r, "test", "unlock")
          /\ read_error' = (read_error \/ TestRegisters(r))
          /\ UNCHANGED <<result, input_reports>>
    /\ UNCHANGED <<mode, mutex, libVars>>

(* pthread_cond_wait and pthread_cond_timedwait: release and wait at once. *)
ReadSleeps(r) ==
    /\ Moves(r, "sleep", "wait")
    /\ mutex' = NoOwner
    /\ UNCHANGED <<mode, result, read_error, input_reports, libVars>>

SpuriousWakeup(r) ==
    /\ Moves(r, "wait", "woken")
    /\ UNCHANGED <<mode, result, mutex, read_error, input_reports, libVars>>

ReadExpires(r) ==
    /\ mode[r] = "timeout"
    /\ Moves(r, "wait", "expired")
    /\ UNCHANGED <<mode, result, mutex, read_error, input_reports, libVars>>

(* The wait returns with the mutex.  Only a timed call looks at once; a    *)
(* call that timed out does not look at all.                               *)
ReadWakes(r) ==
    /\ mutex = NoOwner /\ mutex' = r
    /\ \/ /\ Moves(r, "woken", IF mode[r] = "timeout" THEN "recheck" ELSE "test")
          /\ UNCHANGED result
       \/ /\ Moves(r, "expired", "unlock")
          /\ result' = [result EXCEPT ![r] = Empty]
    /\ UNCHANGED <<mode, read_error, input_reports, libVars>>

ReadRecheck(r) ==
    /\ \/ /\ input_reports # <<>>
          /\ Moves(r, "recheck", "unlock")
          /\ TakeReport(r)
          /\ UNCHANGED read_error
       \/ /\ input_reports = <<>> /\ shutdown_thread
          /\ Moves(r, "recheck", "unlock")
          /\ read_error' = TRUE
          /\ UNCHANGED <<result, input_reports>>
       \/ /\ input_reports = <<>> /\ ~shutdown_thread
          /\ Moves(r, "recheck", "test")
          /\ UNCHANGED <<result, read_error, input_reports>>
    /\ UNCHANGED <<mode, mutex, libVars>>

ReadUnlocks(r) ==
    /\ Moves(r, "unlock", "out")
    /\ mutex' = NoOwner
    /\ UNCHANGED <<mode, result, read_error, input_reports, libVars>>

hid_set_nonblocking ==
    /\ app = "open"
    /\ \E nonblock \in BOOLEAN : blocking' = ~nonblock
    /\ UNCHANGED <<app, rt, callback, handler, input_reports, sent, flags, xfer, readerVars>>

(***************************************************************************)
(* hid_close.  Nothing in it waits for readers.                            *)
(***************************************************************************)

CloseBegins ==
    /\ app = "open" /\ app' = "cancel"
    /\ shutdown_thread' = TRUE
    /\ UNCHANGED <<rt, callback, handler, input_reports, sent,
                   transfer_loop_finished, xfer, blocking, readerVars>>

CloseCancels ==
    /\ app = "cancel" /\ app' = "join"
    /\ CancelTransfer
    /\ UNCHANGED <<rt, callback, handler, input_reports, sent, flags, transfer, blocking, readerVars>>

CloseJoins ==
    /\ app = "join" /\ rt = "exited" /\ app' = "free"
    /\ UNCHANGED <<rt, callback, handler, input_reports, sent, flags, xfer, blocking, readerVars>>

(* Frees the transfer and its buffer, releases the interface, reattaches   *)
(* the kernel driver and closes the handle (those three: LibusbOpen).      *)
CloseFrees ==
    /\ app = "free" /\ app' = "drain"
    /\ transfer' = "freed"
    /\ UNCHANGED <<rt, callback, handler, input_reports, sent, flags, cancelling, blocking, readerVars>>

(* Drops what nobody read, then frees the device itself. *)
CloseDrains ==
    /\ app = "drain" /\ mutex = NoOwner /\ app' = "closed"
    /\ input_reports' = <<>>
    /\ UNCHANGED <<rt, callback, handler, sent, flags, xfer, blocking, readerVars>>

-----------------------------------------------------------------------------
Open == ThreadCreate \/ ThreadCreateFails \/ OpenArrives \/ OpenReturns

read_thread ==
    \/ RtAlloc \/ RtSubmit \/ RtSubmitFails \/ RtLeavesBarrier \/ RtLoop
    \/ RtHandled \/ RtHandleFatal \/ RtCancel \/ RtDrained \/ RtBroadcast

TransferEnds ==
    \E h \in {"own", "other"} :
        \/ TransferCompleted(h) \/ TransferCancelled(h)
        \/ TransferNoDevice(h) \/ TransferTimedOut(h)

read_callback ==
    CallbackEnqueue \/ CallbackCheck \/ CallbackResubmit \/ CallbackResubmitFails

(* The steps of a call that is under way. *)
InCall(r) ==
    \/ ReadLocks(r) \/ ReadFirstLook(r) \/ ReadTest(r) \/ ReadSleeps(r)
    \/ ReadExpires(r) \/ ReadWakes(r) \/ ReadRecheck(r) \/ ReadUnlocks(r)

Read(r) ==
    \/ hid_read(r) \/ hid_read_timeout(r) \/ ReadRefused(r)
    \/ SpuriousWakeup(r) \/ InCall(r)

CloseUnderWay == CloseCancels \/ CloseJoins \/ CloseFrees \/ CloseDrains

hid_close == CloseBegins \/ CloseUnderWay

Next ==
    \/ Open \/ read_thread \/ TransferEnds \/ read_callback
    \/ hid_set_nonblocking \/ hid_close
    \/ \E r \in Readers : Read(r)

Spec == Init /\ [][Next]_vars

(***************************************************************************)
(* Every thread that can run does run.  A submitted transfer ends: it has  *)
(* a timeout of 5000 ms, and libusb_handle_events does not return for ever *)
(* without handling it (strong fairness: rt is in and out of libusb).      *)
(* Nothing is assumed of the application: it need not read or close, and   *)
(* of the outcomes of a transfer none is preferred.                        *)
(***************************************************************************)
Fairness ==
    /\ WF_vars(OpenArrives \/ OpenReturns)
    /\ WF_vars(read_thread)
    /\ SF_vars(TransferEnds)
    /\ WF_vars(read_callback)
    /\ WF_vars(CloseUnderWay)
    /\ \A r \in Readers : WF_vars(InCall(r))

FairSpec == Spec /\ Fairness

(***************************************************************************)
(* Properties.                                                             *)
(***************************************************************************)

(* Types of what the application's and libusb's side keep. *)
LibTypeOK ==
    /\ app \in AppStates /\ rt \in ThreadStates
    /\ callback \in CallbackStates /\ handler \in {"own", "other"}
    /\ shutdown_thread \in BOOLEAN /\ transfer_loop_finished \in BOOLEAN
    /\ transfer \in {"none", "idle", "inflight", "freed"}
    /\ cancelling \in BOOLEAN /\ blocking \in BOOLEAN

(* Types of what the readers keep. *)
ReaderTypeOK ==
    /\ reader \in [Readers -> ReaderStates]
    /\ mode \in [Readers -> Modes]
    /\ result \in [Readers -> Nat \cup {Error}]
    /\ mutex \in Readers \cup {NoOwner}
    /\ read_error \in BOOLEAN

(* The queue never holds more than Limit + 2 reports: read_callback counts *)
(* the links it walks, not the reports, and pops after it appended.        *)
QueueTypeOK ==
    /\ sent \in Nat
    /\ input_reports \in Seq(Nat) /\ Len(input_reports) <= Limit + 2

(* Every variable has its type, and the queue is bounded. *)
TypeOK == LibTypeOK /\ ReaderTypeOK /\ QueueTypeOK

(* hid_close frees the transfer only when nobody can touch it any more:    *)
(* the read thread is gone, the transfer is not in flight and no thread is *)
(* inside its callback, whichever thread handles the events.               *)
TransferQuietWhenFreed ==
    app \in {"free", "drain", "closed"} =>
        /\ rt = "exited"
        /\ transfer = IF app = "free" THEN "idle" ELSE "freed"
        /\ callback = "none"

(* The barrier's purpose: when hid_close (or anything after the open)      *)
(* cancels dev->transfer, the read thread has set dev->transfer.           *)
CancelHasTransfer == app = "cancel" => transfer # "none"

(* After the read thread's broadcast nobody sleeps: a reader that saw no   *)
(* shutdown goes to sleep before the broadcast, or does not go to sleep.   *)
NoSleeperAfterExit ==
    rt = "exited" => \A r \in Readers : reader[r] # "wait"

(* With a single reader a report never waits beside a sleeping reader, in  *)
(* spite of the signal being sent only when the list was empty.            *)
NoLostWakeup ==
    \A r \in Readers : reader[r] = "wait" => input_reports = <<>>

(* A blocking read that returned -1 to a lone reader left its reason in    *)
(* hid_read_error, whenever the shutdown happened.                         *)
BlockingErrorExplained ==
    \A r \in Readers :
        reader[r] = "out" /\ mode[r] = "blocking" /\ result[r] = Error => read_error

(* hidapi.h on hid_read_timeout: -1 on error, "Call hid_read_error(dev) to *)
(* get the failure reason."  The same for a read of any mode.  No run      *)
(* checks this: a timed read that finds shutdown_thread set only at its    *)
(* loop test registers nothing.                                            *)
ErrorExplained ==
    \A r \in Readers : reader[r] = "out" /\ result[r] = Error => read_error

(* A reader that is inside a call while a report is queued leaves the call *)
(* (or the device is closed under it): no sleep outlasts the data.         *)
BlockedReaderServed ==
    \A r \in Readers :
        (reader[r] # "out" /\ input_reports # <<>>) ~> (reader[r] = "out" \/ app = "closed")

(* Whatever stops the read thread (disconnect, fatal event error, failed   *)
(* submission, hid_close), every reader that was waiting leaves its call.  *)
ShutdownReleasesReaders ==
    \A r \in Readers :
        (reader[r] # "out" /\ shutdown_thread) ~> (reader[r] = "out" \/ app = "closed")

(* hid_close returns, although it races the callback's resubmission: a     *)
(* transfer resubmitted after both cancellations ends by its timeout.      *)
CloseCompletes == (app = "cancel") ~> (app = "closed")

(* hid_open_path: returns a device, or NULL, but returns.                  *)
OpenCompletes == (app = "arrive") ~> (app = "open")

(***************************************************************************)
(* The promise of InputQueue is kept.  A call is over for the promise when *)
(* the result is decided, which happens under the mutex.                   *)
(***************************************************************************)
Decided(r) == reader[r] \in {"out", "unlock"}

Abstract == INSTANCE InputQueue WITH
    Capacity <- Limit + 2,
    ErrorOvertakes <- FALSE,
    queue <- input_reports,
    running <- ~shutdown_thread,
    call <- [r \in Readers |-> IF Decided(r) THEN "none" ELSE mode[r]],
    result <- [r \in Readers |-> IF Decided(r) THEN result[r] ELSE Empty]

ImplementsInputQueue == Abstract!Spec

(* No report is returned twice or out of order. *)
HandedOutOnce == Abstract!HandedOutOnce
=============================================================================
