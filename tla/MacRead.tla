------------------------------- MODULE MacRead -------------------------------
(***************************************************************************)
(* The input path of one open device of the macOS backend (mac/hid.c): the *)
(* end of hid_open_path with its barrier, read_thread and the three        *)
(* callbacks its run loop calls, hid_read_timeout by any number of         *)
(* threads, and hid_close with its own barrier.                            *)
(*                                                                         *)
(* Threads: "app" opens and closes, "rt" is the read thread, the Readers   *)
(* read.  The callbacks run inside CFRunLoopRunInMode, in rt.  The flags   *)
(* shutdown_thread and disconnected are written and read without the       *)
(* mutex.  Of the results of CFRunLoopRunInMode those that exist here are  *)
(* Stopped and TimedOut: the mode always has dev->source, and nobody asked *)
(* to return after a source was handled.                                   *)
(***************************************************************************)
EXTENDS Integers, Sequences, FiniteSets

CONSTANTS
    Readers,     \* threads that call hid_read / hid_read_timeout
    NoOwner,     \* "the mutex is free", not a reader
    Limit,       \* the 30 of hid_report_callback
    MaxReports,  \* bound: reports the device sends
    is_macos_10_10_or_greater

ASSUME ReadersAssumption == NoOwner \notin Readers /\ IsFiniteSet(Readers)
ASSUME LimitAssumption == Limit \in Nat
ASSUME MaxReportsAssumption == MaxReports \in Nat
ASSUME VersionAssumption == is_macos_10_10_or_greater \in BOOLEAN

VARIABLES
    app,              \* pc of the thread that opens and closes
    rt,               \* pc of read_thread
    count,            \* the count of each barrier
    run_loop,         \* are dev->run_loop and dev->source set?
    source,           \* dev->source is signalled
    stopped,          \* CFRunLoopStop was called during this run
    registered,       \* the report and removal callbacks are registered
    plugged,          \* the device is there
    os_open,          \* IOHIDDeviceOpen without IOHIDDeviceClose so far
    shutdown_thread,  \* dev->shutdown_thread
    disconnected,     \* dev->disconnected
    reader,           \* pc of each reader in hid_read_timeout
    mode,             \* its milliseconds argument, as a mode
    result,           \* the bytes_read of its last or current call
    mutex,            \* owner of dev->mutex
    input_reports,    \* dev->input_reports, oldest first
    sent,             \* reports received so far (their numbers)
    read_error,       \* dev->last_read_error_str is set
    blocking          \* dev->blocking

flags == <<shutdown_thread, disconnected>>
loopVars == <<run_loop, source, stopped>>
device == <<registered, plugged, os_open>>
queue == <<input_reports, sent>>
readerVars == <<reader, mode, result, mutex, read_error>>

vars == <<app, rt, count, loopVars, device, flags, readerVars, queue, blocking>>

Modes == {"blocking", "timeout", "nonblocking"}
Empty == 0
Error == -1
Barriers == {"barrier", "shutdown_barrier"}

AppStates == {"create", "arrive", "wait", "open", "shutdown", "signal", "wakeup",
              "shut_arrive", "shut_wait", "join", "close", "drain", "closed"}
ThreadStates == {"none", "setup", "arrive", "wait", "loop", "run", "callback",
                 "broadcast", "shut_arrive", "shut_wait", "exited"}
ReaderStates == {"out", "enter", "locked", "test", "sleep", "wait", "woken",
                 "expired", "recheck", "unlock"}

Init ==
    /\ app = "create" /\ rt = "none"
    /\ count = [b \in Barriers |-> 0]
    /\ run_loop = FALSE /\ source = FALSE /\ stopped = FALSE
    /\ registered = TRUE /\ plugged = TRUE /\ os_open = TRUE
    /\ shutdown_thread = FALSE /\ disconnected = FALSE
    /\ reader = [r \in Readers |-> "out"]
    /\ mode = [r \in Readers |-> "blocking"]
    /\ result = [r \in Readers |-> Empty]
    /\ mutex = NoOwner /\ input_reports = <<>> /\ sent = 0
    /\ read_error = FALSE /\ blocking = TRUE

(***************************************************************************)
(* pthread_barrier_wait, for two threads: pc' is "through" the barrier at  *)
(* once for the second to arrive, the first waits.  Woken by the broadcast *)
(* or spuriously, it goes on only when it finds the count back at zero.    *)
(***************************************************************************)
Arrives(b) == count' = [count EXCEPT ![b] = IF @ + 1 >= 2 THEN 0 ELSE @ + 1]
AfterArrival(b, wait, through) == IF count[b] + 1 >= 2 THEN through ELSE wait

(* Mutant: the waiting thread believes any wakeup. *)
Leaves_AnyWakeup(b) == UNCHANGED count

Leaves(b) == count[b] = 0 /\ UNCHANGED count

(***************************************************************************)
(* The end of hid_open_path.  Its earlier failures own what LibusbOpen     *)
(* shows for its sibling; here the device is open and registered.          *)
(***************************************************************************)
ThreadCreate ==
    /\ app = "create" /\ app' = "arrive" /\ rt' = "setup"
    /\ UNCHANGED <<count, loopVars, device, flags, readerVars, queue, blocking>>

OpenArrives ==
    /\ app = "arrive" /\ app' = AfterArrival("barrier", "wait", "open")
    /\ Arrives("barrier")
    /\ UNCHANGED <<rt, loopVars, device, flags, readerVars, queue, blocking>>

OpenReturns ==
    /\ app = "wait" /\ app' = "open"
    /\ Leaves("barrier")
    /\ UNCHANGED <<rt, loopVars, device, flags, readerVars, queue, blocking>>

(***************************************************************************)
(* read_thread.                                                            *)
(***************************************************************************)
RtSetup ==
    /\ rt = "setup" /\ rt' = "arrive"
    /\ run_loop' = TRUE
    /\ UNCHANGED <<app, count, source, stopped, device, flags, readerVars, queue, blocking>>

RtArrives ==
    /\ rt = "arrive" /\ rt' = AfterArrival("barrier", "wait", "loop")
    /\ Arrives("barrier")
    /\ UNCHANGED <<app, loopVars, device, flags, readerVars, queue, blocking>>

RtLeavesBarrier ==
    /\ rt = "wait" /\ rt' = "loop"
    /\ Leaves("barrier")
    /\ UNCHANGED <<app, loopVars, device, flags, readerVars, queue, blocking>>

RtLoop ==
    /\ rt = "loop"
    /\ rt' = IF shutdown_thread \/ disconnected THEN "broadcast" ELSE "run"
    /\ UNCHANGED <<app, count, loopVars, device, flags, readerVars, queue, blocking>>

RemovalPending == ~plugged /\ registered /\ ~disconnected

(* The 1000 s passed; the run loop serves what is ready before it gives up. *)
RtTimesOut ==
    /\ rt = "run" /\ ~stopped /\ ~source /\ ~RemovalPending
    /\ rt' = "loop"
    /\ UNCHANGED <<app, count, loopVars, device, flags, readerVars, queue, blocking>>

(* kCFRunLoopRunStopped, for whatever reason the loop was stopped. *)
RtStopped ==
    /\ rt = "run" /\ stopped
    /\ rt' = "broadcast"
    /\ stopped' = FALSE
    /\ disconnected' = TRUE
    /\ UNCHANGED <<app, count, run_loop, source, device, shutdown_thread, readerVars, queue, blocking>>

(* Mutants: the broadcast wakes nobody, or one thread only. *)
RtBroadcast_Silent ==
    /\ rt = "broadcast" /\ rt' = "shut_arrive"
    /\ UNCHANGED <<app, count, loopVars, device, flags, readerVars, queue, blocking>>

RtBroadcast_One ==
    /\ rt = "broadcast" /\ mutex = NoOwner /\ rt' = "shut_arrive"
    /\ LET waiting == {r \in Readers : reader[r] = "wait"}
       IN IF waiting = {} THEN UNCHANGED reader
          ELSE \E r \in waiting : reader' = [reader EXCEPT ![r] = "woken"]
    /\ UNCHANGED <<app, count, loopVars, device, flags, mode, result, mutex,
                   read_error, queue, blocking>>

RtBroadcast ==
    /\ rt = "broadcast" /\ mutex = NoOwner /\ rt' = "shut_arrive"
    /\ reader' = [r \in Readers |-> IF reader[r] = "wait" THEN "woken" ELSE reader[r]]
    /\ UNCHANGED <<app, count, loopVars, device, flags, mode, result, mutex,
                   read_error, queue, blocking>>

(* Mutants: the thread ends without the barrier, or arrives and goes on. *)
RtShutArrives_Never ==
    /\ rt = "shut_arrive" /\ rt' = "exited"
    /\ UNCHANGED <<app, count, loopVars, device, flags, readerVars, queue, blocking>>

RtShutArrives_Exits ==
    /\ rt = "shut_arrive" /\ rt' = "exited"
    /\ Arrives("shutdown_barrier")
    /\ UNCHANGED <<app, loopVars, device, flags, readerVars, queue, blocking>>

RtShutArrives ==
    /\ rt = "shut_arrive" /\ rt' = AfterArrival("shutdown_barrier", "shut_wait", "exited")
    /\ Arrives("shutdown_barrier")
    /\ UNCHANGED <<app, loopVars, device, flags, readerVars, queue, blocking>>

RtExits ==
    /\ rt = "shut_wait" /\ rt' = "exited"
    /\ Leaves("shutdown_barrier")
    /\ UNCHANGED <<app, loopVars, device, flags, readerVars, queue, blocking>>

(***************************************************************************)
(* The callbacks of the run loop.                                          *)
(***************************************************************************)
Unplug ==
    /\ plugged /\ plugged' = FALSE
    /\ UNCHANGED <<app, rt, count, loopVars, registered, os_open, flags, readerVars, queue, blocking>>

hid_device_removal_callback ==
    /\ rt = "run" /\ RemovalPending
    /\ disconnected' = TRUE
    /\ stopped' = TRUE
    /\ UNCHANGED <<app, rt, count, run_loop, source, device, shutdown_thread, readerVars, queue, blocking>>

perform_signal_callback ==
    /\ rt = "run" /\ source
    /\ source' = FALSE /\ stopped' = TRUE
    /\ UNCHANGED <<app, rt, count, run_loop, device, flags, readerVars, queue, blocking>>

(* A report is dispatched: from here the callback runs to its end, even if *)
(* hid_close unregisters it meanwhile.                                     *)
ReportDispatched ==
    /\ rt = "run" /\ registered /\ plugged /\ sent < MaxReports
    /\ rt' = "callback"
    /\ UNCHANGED <<app, count, loopVars, device, flags, readerVars, queue, blocking>>

(* return_data: unlink the oldest report. *)
ReturnData(q) == Tail(q)

(* As in the libusb backend: the walk counts links, the pop comes last. *)
Enqueued(q, rpt) ==
    LET num_queued == Len(q) - 1
    IN IF q # <<>> /\ num_queued > Limit
       THEN ReturnData(Append(q, rpt))
       ELSE Append(q, rpt)

(* Mutant: as in the libusb backend, signal only when the list was empty. *)
Signal_WhenEmpty ==
    LET waiting == {r \in Readers : reader[r] = "wait"}
    IN IF waiting = {} \/ input_reports # <<>>
       THEN UNCHANGED reader
       ELSE \E r \in waiting : reader' = [reader EXCEPT ![r] = "woken"]

Signal ==
    LET waiting == {r \in Readers : reader[r] = "wait"}
    IN IF waiting = {}
       THEN UNCHANGED reader
       ELSE \E r \in waiting : reader' = [reader EXCEPT ![r] = "woken"]

hid_report_callback ==
    /\ rt = "callback" /\ mutex = NoOwner /\ rt' = "run"
    /\ sent' = sent + 1
    /\ input_reports' = Enqueued(input_reports, sent + 1)
    /\ Signal
    /\ UNCHANGED <<app, count, loopVars, device, flags, mode, result, mutex, read_error, blocking>>

(***************************************************************************)
(* hid_read_timeout.  A reader takes steps only while the device exists.   *)
(***************************************************************************)
backVars == <<app, rt, count, loopVars, device, flags, sent, blocking>>

Exists == app \notin {"create", "arrive", "wait", "closed"}

Moves(r, from, to) ==
    /\ Exists
    /\ reader[r] = from
    /\ reader' = [reader EXCEPT ![r] = to]

(* A call without a buffer or with length 0. *)
ReadRefused(r) ==
    /\ app = "open" /\ reader[r] = "out"
    /\ result' = [result EXCEPT ![r] = Error]
    /\ read_error' = TRUE
    /\ UNCHANGED <<reader, mode, mutex, input_reports, backVars>>

ReadBegins(r, m) ==
    /\ app = "open"
    /\ Moves(r, "out", "enter")
    /\ mode' = [mode EXCEPT ![r] = m]
    /\ result' = [result EXCEPT ![r] = Error]
    /\ read_error' = FALSE
    /\ UNCHANGED <<mutex, input_reports, backVars>>

hid_read(r) == ReadBegins(r, IF blocking THEN "blocking" ELSE "nonblocking")
hid_read_timeout(r) == \E m \in Modes : ReadBegins(r, m)

ReadLocks(r) ==
    /\ mutex = NoOwner /\ mutex' = r
    /\ Moves(r, "enter", "locked")
    /\ UNCHANGED <<mode, result, read_error, input_reports, backVars>>

(* Mutant: the report stays in the list. *)
TakeReport_Keeps(r) ==
    /\ result' = [result EXCEPT ![r] = Head(input_reports)]
    /\ UNCHANGED input_reports

TakeReport(r) ==
    /\ result' = [result EXCEPT ![r] = Head(input_reports)]
    /\ input_reports' = ReturnData(input_reports)

(* The device is gone or being closed: -1, and why. *)
Fails(r, from) ==
    /\ shutdown_thread \/ disconnected
    /\ Moves(r, from, "unlock")
    /\ read_error' = TRUE
    /\ UNCHANGED <<result, input_reports>>

ReadFirstLook(r) ==
    /\ \/ /\ input_reports # <<>>
          /\ Moves(r, "locked", "unlock")
          /\ TakeReport(r)
          /\ UNCHANGED read_error
       \/ /\ input_reports = <<>>
          /\ Fails(r, "locked")
       \/ /\ input_reports = <<>> /\ ~shutdown_thread /\ ~disconnected
          /\ IF mode[r] = "nonblocking"
             THEN /\ Moves(r, "locked", "unlock")
                  /\ result' = [result EXCEPT ![r] = Empty]
             ELSE Moves(r, "locked", "test") /\ UNCHANGED result
          /\ UNCHANGED <<read_error, input_reports>>
    /\ UNCHANGED <<mode, mutex, backVars>>

(* The condition of the loop of cond_wait and cond_timedwait: the list.    *)
ReadTest(r) ==
    /\ \/ /\ input_reports = <<>>
          /\ Moves(r, "test", "sleep")
          /\ UNCHANGED <<result, input_reports>>
       \/ /\ input_reports # <<>>
          /\ Moves(r, "test", "unlock")
          /\ TakeReport(r)
    /\ UNCHANGED <<mode, mutex, read_error, backVars>>

ReadSleeps(r) ==
    /\ Moves(r, "sleep", "wait")
    /\ mutex' = NoOwner
    /\ UNCHANGED <<mode, result, read_error, input_reports, backVars>>

SpuriousWakeup(r) ==
    /\ Moves(r, "wait", "woken")
    /\ UNCHANGED <<mode, result, mutex, read_error, input_reports, backVars>>

ReadExpires(r) ==
    /\ mode[r] = "timeout"
    /\ Moves(r, "wait", "expired")
    /\ UNCHANGED <<mode, result, mutex, read_error, input_reports, backVars>>

(* The wait returns with the mutex: ETIMEDOUT ends the call with 0.        *)
ReadWakes(r) ==
    /\ mutex = NoOwner /\ mutex' = r
    /\ \/ /\ Moves(r, "woken", "recheck")
          /\ UNCHANGED result
       \/ /\ Moves(r, "expired", "unlock")
          /\ result' = [result EXCEPT ![r] = Empty]
    /\ UNCHANGED <<mode, read_error, input_reports, backVars>>

(* Woken, cond_wait looks at the flags before it looks at the list.        *)
ReadRecheck(r) ==
    /\ \/ Fails(r, "recheck")
       \/ /\ ~shutdown_thread /\ ~disconnected
          /\ Moves(r, "recheck", "test")
          /\ UNCHANGED <<result, read_error, input_reports>>
    /\ UNCHANGED <<mode, mutex, backVars>>

ReadUnlocks(r) ==
    /\ Moves(r, "unlock", "out")
    /\ mutex' = NoOwner
    /\ UNCHANGED <<mode, result, read_error, input_reports, backVars>>

hid_set_nonblocking ==
    /\ app = "open"
    /\ \E nonblock \in BOOLEAN : blocking' = ~nonblock
    /\ UNCHANGED <<app, rt, count, loopVars, device, flags, readerVars, queue>>

(***************************************************************************)
(* hid_close.  Nothing in it waits for readers.                            *)
(***************************************************************************)
HandleUsable == is_macos_10_10_or_greater \/ ~disconnected

CloseUnregisters ==
    /\ app = "open" /\ app' = "shutdown"
    /\ registered' = (registered /\ ~HandleUsable)
    /\ UNCHANGED <<rt, count, loopVars, plugged, os_open, flags, readerVars, queue, blocking>>

CloseShutsDown ==
    /\ app = "shutdown" /\ app' = "signal"
    /\ shutdown_thread' = TRUE
    /\ UNCHANGED <<rt, count, loopVars, device, disconnected, readerVars, queue, blocking>>

CloseSignals ==
    /\ app = "signal" /\ app' = "wakeup"
    /\ source' = TRUE
    /\ UNCHANGED <<rt, count, run_loop, stopped, device, flags, readerVars, queue, blocking>>

(* CFRunLoopWakeUp: the signalled source is served by the next pass. *)
CloseWakesUp ==
    /\ app = "wakeup" /\ app' = "shut_arrive"
    /\ UNCHANGED <<rt, count, loopVars, device, flags, readerVars, queue, blocking>>

CloseArrives ==
    /\ app = "shut_arrive" /\ app' = AfterArrival("shutdown_barrier", "shut_wait", "join")
    /\ Arrives("shutdown_barrier")
    /\ UNCHANGED <<rt, loopVars, device, flags, readerVars, queue, blocking>>

CloseLeavesBarrier ==
    /\ app = "shut_wait" /\ app' = "join"
    /\ Leaves("shutdown_barrier")
    /\ UNCHANGED <<rt, loopVars, device, flags, readerVars, queue, blocking>>

CloseJoins ==
    /\ app = "join" /\ rt = "exited" /\ app' = "close"
    /\ UNCHANGED <<rt, count, loopVars, device, flags, readerVars, queue, blocking>>

CloseHandle ==
    /\ app = "close" /\ app' = "drain"
    /\ os_open' = (os_open /\ ~HandleUsable)
    /\ UNCHANGED <<rt, count, loopVars, registered, plugged, flags, readerVars, queue, blocking>>

(* Drops what nobody read, then frees the device itself. *)
CloseDrains ==
    /\ app = "drain" /\ mutex = NoOwner /\ app' = "closed"
    /\ input_reports' = <<>>
    /\ UNCHANGED <<rt, count, loopVars, device, flags, readerVars, sent, blocking>>
-----------------------------------------------------------------------------
Open == ThreadCreate \/ OpenArrives \/ OpenReturns

RunLoop ==
    \/ hid_device_removal_callback \/ perform_signal_callback
    \/ ReportDispatched \/ hid_report_callback

read_thread ==
    \/ RtSetup \/ RtArrives \/ RtLeavesBarrier \/ RtLoop \/ RtTimesOut \/ RtStopped
    \/ RtBroadcast \/ RtShutArrives \/ RtExits \/ RunLoop

InCall(r) ==
    \/ ReadLocks(r) \/ ReadFirstLook(r) \/ ReadTest(r) \/ ReadSleeps(r)
    \/ ReadExpires(r) \/ ReadWakes(r) \/ ReadRecheck(r) \/ ReadUnlocks(r)

Read(r) ==
    \/ hid_read(r) \/ hid_read_timeout(r) \/ ReadRefused(r)
    \/ SpuriousWakeup(r) \/ InCall(r)

CloseUnderWay ==
    \/ CloseShutsDown \/ CloseSignals \/ CloseWakesUp \/ CloseArrives
    \/ CloseLeavesBarrier \/ CloseJoins \/ CloseHandle \/ CloseDrains

hid_close == CloseUnregisters \/ CloseUnderWay

Next ==
    \/ Open \/ read_thread \/ Unplug \/ hid_set_nonblocking \/ hid_close
    \/ \E r \in Readers : Read(r)

Spec == Init /\ [][Next]_vars

(***************************************************************************)
(* Every thread that can run does run.  Nothing is assumed of the          *)
(* application and of the device: nobody need read, close or unplug.       *)
(***************************************************************************)
Fairness ==
    /\ WF_vars(OpenArrives \/ OpenReturns)
    /\ WF_vars(read_thread)
    /\ WF_vars(CloseUnderWay)
    /\ \A r \in Readers : WF_vars(InCall(r))

FairSpec == Spec /\ Fairness

(***************************************************************************)
(* Properties.                                                             *)
(***************************************************************************)

(* Every variable has its type, and the queue is bounded by Limit + 2.     *)
TypeOK ==
    /\ app \in AppStates /\ rt \in ThreadStates
    /\ count \in [Barriers -> 0..1]
    /\ {run_loop, source, stopped, registered, plugged, os_open} \subseteq BOOLEAN
    /\ {shutdown_thread, disconnected, read_error, blocking} \subseteq BOOLEAN
    /\ reader \in [Readers -> ReaderStates] /\ mode \in [Readers -> Modes]
    /\ result \in [Readers -> Nat \cup {Error}]
    /\ mutex \in Readers \cup {NoOwner}
    /\ sent \in Nat /\ input_reports \in Seq(Nat) /\ Len(input_reports) <= Limit + 2

(* The purpose of the first barrier: whoever has the device finds the run  *)
(* loop and the source that hid_close signals; a spurious wakeup of the    *)
(* emulated barrier does not let the opener through.                       *)
ThreadReadyWhenOpen == app \notin {"create", "arrive", "wait"} => run_loop

(* The purpose of the second barrier (read_thread: "This thread still      *)
(* needs to be valid when that function is called on the other thread"):   *)
(* the run loop's thread is alive when hid_close signals and wakes it.     *)
RunLoopAliveWhenWoken == app \in {"signal", "wakeup", "shut_arrive"} => rt # "exited"

(* No reader sleeps while more reports are queued than woken readers are   *)
(* on their way to take: with a signal for each report no wakeup is lost,  *)
(* for any number of readers.  (Once the device goes, the broadcast wakes  *)
(* everybody.)                                                             *)
NoReportStranded ==
    ~shutdown_thread /\ ~disconnected /\ (\E r \in Readers : reader[r] = "wait") =>
        Len(input_reports) <=
            Cardinality({r \in Readers : reader[r] \in {"woken", "recheck", "test"}})

(* Nobody sleeps once the read thread has sent its broadcast. *)
NoSleeperAfterBroadcast ==
    rt \in {"shut_arrive", "shut_wait", "exited"} => \A r \in Readers : reader[r] # "wait"

(* However the device goes, every reader that was waiting leaves its call. *)
ShutdownReleasesReaders ==
    \A r \in Readers :
        (reader[r] # "out" /\ (shutdown_thread \/ disconnected))
            ~> (reader[r] = "out" \/ app = "closed")

(* hid_close returns, past its barrier and the join, whatever the read     *)
(* thread was doing and even if it had ended long before, with the OS      *)
(* handle closed.  The read thread marks a device as disconnected whenever *)
(* its run loop is stopped, also when it is hid_close that stops it, and   *)
(* hid_close must not take that for an unplugged device.  (Before macOS    *)
(* 10.10 it did.)                                                          *)
CloseCompletes ==
    (app = "shutdown") ~>
        (app = "closed" /\ (is_macos_10_10_or_greater => ~os_open))

(***************************************************************************)
(* The promise of InputQueue, with errors that may overtake reports.       *)
(***************************************************************************)
Decided(r) == reader[r] \in {"out", "unlock"}

Abstract == INSTANCE InputQueue WITH
    Capacity <- Limit + 2,
    ErrorOvertakes <- TRUE,
    queue <- input_reports,
    running <- ~shutdown_thread /\ ~disconnected,
    call <- [r \in Readers |-> IF Decided(r) THEN "none" ELSE mode[r]],
    result <- [r \in Readers |-> IF Decided(r) THEN result[r] ELSE Empty]

ImplementsInputQueue == Abstract!Spec

(* No report is returned twice or out of order. *)
HandedOutOnce == Abstract!HandedOutOnce
=============================================================================
