-------------------------------- MODULE WinIO --------------------------------
(***************************************************************************)
(* Overlapped I/O of the Windows backend (windows/hid.c): hid_read_timeout *)
(* and hid_write, called by one reading and one writing thread, with the   *)
(* kernel's side of the two OVERLAPPED structures and their auto-reset     *)
(* events.  A read that times out leaves its operation running for the     *)
(* next call to pick up; a write that times out leaves it running too, but *)
(* the next write starts another one on the same OVERLAPPED.               *)
(*                                                                         *)
(* A report is its number.  The kernel's own queue (64 reports) does not   *)
(* overflow within MaxReports; what hid_close cancels is left out.         *)
(***************************************************************************)
EXTENDS Integers, Sequences, FiniteSets

CONSTANTS
    MaxReports,       \* bound: reports the device sends
    MaxWrites         \* bound: calls of hid_write

ASSUME BoundsAssumption == MaxReports \in Nat /\ MaxWrites \in Nat

VARIABLES
    plugged,       \* the device is there
    kernel_queue,  \* reports the kernel holds, oldest first
    sent,          \* reports received so far
    ol,            \* the state of dev->ol: "idle", "pending", "ok", "failed"
    ol_event,      \* dev->ol.hEvent is signalled
    read_buf,      \* the report in dev->read_buf, 0 when zeroed
    read_pending,  \* dev->read_pending
    reading,       \* pc of hid_read_timeout: "out", "wait", "result"
    mode,          \* its milliseconds argument, as a mode
    read_result,   \* what it returned last, Empty while it runs
    read_error,    \* dev->last_read_error_str is set
    blocking,      \* dev->blocking
    write_ol,      \* the state of dev->write_ol
    write_event,   \* dev->write_ol.hEvent is signalled
    in_flight,     \* writes the kernel has not completed, oldest first
    written,       \* writes that completed with success
    timed_out,     \* writes that hid_write gave up waiting for
    writing,       \* pc of hid_write: "out", "wait", "result"
    this_write,    \* the number of the last or current write
    write_result   \* what the last hid_write returned: "ok" or "error"

kernelVars == <<plugged, kernel_queue, sent>>
readVars == <<ol, ol_event, read_buf, read_pending, reading, mode, read_result, read_error, blocking>>
writeVars == <<write_ol, write_event, in_flight, written, timed_out, writing, this_write,
               write_result>>
vars == <<kernelVars, readVars, writeVars>>

Modes == {"blocking", "timeout", "nonblocking"}
Empty == 0
Error == -1

Init ==
    /\ plugged = TRUE /\ kernel_queue = <<>> /\ sent = 0
    /\ ol = "idle" /\ ol_event = FALSE /\ read_buf = 0 /\ read_pending = FALSE
    /\ reading = "out" /\ mode = "blocking" /\ read_result = Empty /\ read_error = FALSE
    /\ blocking = TRUE
    /\ write_ol = "idle" /\ write_event = FALSE /\ in_flight = <<>> /\ written = {} /\ timed_out = {}
    /\ writing = "out" /\ this_write = 0 /\ write_result = "ok"

(***************************************************************************)
(* The kernel.                                                             *)
(***************************************************************************)
ReportArrives ==
    /\ plugged /\ sent < MaxReports
    /\ sent' = sent + 1
    /\ IF ol = "pending"
       THEN /\ read_buf' = sent + 1 /\ ol' = "ok" /\ ol_event' = TRUE
            /\ UNCHANGED kernel_queue
       ELSE /\ kernel_queue' = Append(kernel_queue, sent + 1)
            /\ UNCHANGED <<ol, ol_event, read_buf>>
    /\ UNCHANGED <<plugged, read_pending, reading, mode, read_result, read_error, blocking, writeVars>>

(* The device goes: a pending read fails, pending writes fail below. *)
Unplug ==
    /\ plugged /\ plugged' = FALSE
    /\ ol' = IF ol = "pending" THEN "failed" ELSE ol
    /\ ol_event' = (ol_event \/ ol = "pending")
    /\ UNCHANGED <<kernel_queue, sent, read_buf, read_pending, reading, mode, read_result,
                   read_error, blocking, writeVars>>

(* The oldest write completes, and says so in the OVERLAPPED it was given. *)
WriteCompletes ==
    /\ in_flight # <<>> /\ in_flight' = Tail(in_flight)
    /\ write_event' = TRUE
    /\ \/ /\ plugged /\ write_ol' = "ok" /\ written' = written \cup {Head(in_flight)}
       \/ write_ol' = "failed" /\ UNCHANGED written
    /\ UNCHANGED <<kernelVars, readVars, timed_out, writing, this_write, write_result>>

(***************************************************************************)
(* hid_read_timeout.                                                       *)
(***************************************************************************)
Returns(value) == reading' = "out" /\ read_result' = value

(* ReadFile on a zeroed buffer and a reset event: done at once, pending,   *)
(* or failed.  What it means for the call is told by ReadResult.           *)
ReadFile ==
    \/ /\ plugged /\ kernel_queue # <<>>
       /\ ol' = "ok" /\ ol_event' = TRUE /\ reading' = "result"
       /\ read_buf' = Head(kernel_queue) /\ kernel_queue' = Tail(kernel_queue)
    \/ /\ plugged /\ kernel_queue = <<>>
       /\ ol' = "pending" /\ ol_event' = FALSE /\ reading' = "wait"
       /\ read_buf' = 0 /\ UNCHANGED kernel_queue
    \/ /\ ~plugged
       /\ ol' = "failed" /\ ol_event' = FALSE /\ reading' = "result"
       /\ read_buf' = 0 /\ UNCHANGED kernel_queue

(* No operation of an earlier call is running: start one. *)
StartsRead(m) ==
    /\ reading = "out" /\ ~read_pending
    /\ mode' = m /\ read_result' = Empty /\ read_error' = FALSE
    /\ read_pending' = TRUE
    /\ ReadFile
    /\ UNCHANGED <<plugged, sent, blocking, writeVars>>

(* An earlier call left its operation running: wait for that one. *)
ResumesRead(m) ==
    /\ reading = "out" /\ read_pending
    /\ mode' = m
    /\ reading' = "wait" /\ read_result' = Empty /\ read_error' = FALSE
    /\ UNCHANGED <<kernelVars, ol, ol_event, read_buf, read_pending, blocking, writeVars>>

ReadBegins(m) == StartsRead(m) \/ ResumesRead(m)

hid_read_timeout == \E m \in Modes : ReadBegins(m)
hid_read == ReadBegins(IF blocking THEN "blocking" ELSE "nonblocking")

(* A call without a buffer or with length 0. *)
ReadRefused ==
    /\ reading = "out"
    /\ Returns(Error) /\ read_error' = TRUE
    /\ UNCHANGED <<kernelVars, ol, ol_event, read_buf, read_pending, mode, blocking, writeVars>>

(* WaitForSingleObject takes the auto-reset event ...                      *)
ReadWakes ==
    /\ reading = "wait" /\ ol_event
    /\ ol_event' = FALSE /\ reading' = "result"
    /\ UNCHANGED <<kernelVars, ol, read_buf, read_pending, mode, read_result, read_error, blocking, writeVars>>

(* Mutant: the next call starts an operation of its own. *)
ReadTimesOut_Forgets ==
    /\ reading = "wait" /\ mode # "blocking" /\ ~ol_event
    /\ Returns(Empty) /\ read_pending' = FALSE
    /\ UNCHANGED <<kernelVars, ol, ol_event, read_buf, mode, read_error, blocking, writeVars>>

(* ... or gives up and leaves the operation running. *)
ReadTimesOut ==
    /\ reading = "wait" /\ mode # "blocking" /\ ~ol_event
    /\ Returns(Empty)
    /\ UNCHANGED <<kernelVars, ol, ol_event, read_buf, read_pending, mode, read_error, blocking, writeVars>>

(* Mutants: no reason is registered; the buffer is handed out again later. *)
ReadResult_Silent ==
    /\ reading = "result"
    /\ Returns(IF ol = "ok" THEN read_buf ELSE Error)
    /\ read_pending' = FALSE /\ UNCHANGED read_error
    /\ UNCHANGED <<kernelVars, ol, ol_event, read_buf, mode, blocking, writeVars>>

ReadResult_KeepsPending ==
    /\ reading = "result"
    /\ Returns(IF ol = "ok" THEN read_buf ELSE Error)
    /\ read_error' = (ol # "ok")
    /\ UNCHANGED <<kernelVars, ol, ol_event, read_buf, read_pending, mode, blocking, writeVars>>

(* The call ends with the result of ReadFile, or of GetOverlappedResult;   *)
(* the buffer is copied out when it says yes.                              *)
ReadResult ==
    /\ reading = "result"
    /\ Returns(IF ol = "ok" THEN read_buf ELSE Error)
    /\ read_pending' = FALSE /\ read_error' = (ol # "ok")
    /\ UNCHANGED <<kernelVars, ol, ol_event, read_buf, mode, blocking, writeVars>>

hid_set_nonblocking ==
    /\ reading = "out"
    /\ \E nonblock \in BOOLEAN : blocking' = ~nonblock
    /\ UNCHANGED <<kernelVars, ol, ol_event, read_buf, read_pending, reading, mode,
                   read_result, read_error, writeVars>>

(***************************************************************************)
(* hid_write.                                                              *)
(***************************************************************************)
WriteReturns(value) == writing' = "out" /\ write_result' = value

(* The operation is pending: wait for it. *)
Overlapped == writing' = "wait" /\ UNCHANGED write_result

(* WriteFile, which resets the event: done at once, pending, or failed.    *)
hid_write ==
    /\ writing = "out" /\ this_write < MaxWrites
    /\ this_write' = this_write + 1
    /\ \/ /\ plugged /\ in_flight = <<>> /\ WriteReturns("ok")
          /\ write_ol' = "ok" /\ write_event' = TRUE
          /\ written' = written \cup {this_write + 1} /\ UNCHANGED in_flight
       \/ /\ plugged /\ Overlapped
          /\ write_ol' = "pending" /\ write_event' = FALSE
          /\ in_flight' = Append(in_flight, this_write + 1) /\ UNCHANGED written
       \/ /\ WriteReturns("error")
          /\ write_ol' = "failed" /\ write_event' = FALSE
          /\ UNCHANGED <<in_flight, written>>
    /\ UNCHANGED <<kernelVars, readVars, timed_out>>

WriteWakes ==
    /\ writing = "wait" /\ write_event
    /\ write_event' = FALSE /\ writing' = "result"
    /\ UNCHANGED <<kernelVars, readVars, write_ol, in_flight, written, timed_out, this_write, write_result>>

(* The operation is left running, and write_ol with it. *)
WriteTimesOut ==
    /\ writing = "wait" /\ ~write_event
    /\ WriteReturns("error")
    /\ timed_out' = timed_out \cup {this_write}
    /\ UNCHANGED <<kernelVars, readVars, write_ol, write_event, in_flight, written, this_write>>

(* Mutant: the wait succeeded, so the write did. *)
WriteResult_Assumed ==
    /\ writing = "result"
    /\ WriteReturns("ok")
    /\ UNCHANGED <<kernelVars, readVars, write_ol, write_event, in_flight, written, timed_out, this_write>>

WriteResult ==
    /\ writing = "result"
    /\ WriteReturns(IF write_ol = "ok" THEN "ok" ELSE "error")
    /\ UNCHANGED <<kernelVars, readVars, write_ol, write_event, in_flight, written, timed_out, this_write>>
-----------------------------------------------------------------------------
InRead == ReadWakes \/ ReadTimesOut \/ ReadResult
Read == hid_read_timeout \/ hid_read \/ ReadRefused \/ InRead
Write == hid_write \/ WriteWakes \/ WriteTimesOut \/ WriteResult

Next ==
    \/ ReportArrives \/ Unplug \/ WriteCompletes
    \/ Read \/ Write \/ hid_set_nonblocking

(* The threads run.  Nothing is assumed of the device and the application. *)
Spec == Init /\ [][Next]_vars /\ WF_vars(InRead)

(***************************************************************************)
(* Properties.                                                             *)
(***************************************************************************)

(* Every variable has its type, and hid_write waits: no more writes are in *)
(* flight than it gave up waiting for, and the current one.                *)
TypeOK ==
    /\ Len(in_flight) <= Cardinality(timed_out) + 1
    /\ Len(in_flight) > Cardinality(timed_out) => writing # "out"
    /\ plugged \in BOOLEAN /\ kernel_queue \in Seq(1..MaxReports) /\ sent \in 0..MaxReports
    /\ {ol, write_ol} \subseteq {"idle", "pending", "ok", "failed"}
    /\ {ol_event, write_event, read_pending, read_error, blocking} \subseteq BOOLEAN
    /\ read_buf \in 0..MaxReports /\ read_result \in -1..MaxReports
    /\ {reading, writing} \subseteq {"out", "wait", "result"} /\ mode \in Modes
    /\ in_flight \in Seq(1..MaxWrites) /\ written \cup timed_out \subseteq 1..MaxWrites
    /\ this_write \in 0..MaxWrites /\ write_result \in {"ok", "error"}

(* read_pending is the truth about dev->ol: while an operation is pending, *)
(* or done and not collected, no call starts another one on the same       *)
(* OVERLAPPED and the same buffer.                                         *)
PendingIsKnown ==
    /\ ol = "pending" => read_pending
    /\ read_pending => ol # "idle" /\ (reading # "result" /\ ol # "pending" => ol_event)

(* A read that returned -1 has left its reason in hid_read_error. *)
ErrorExplained == reading = "out" /\ read_result = Error => read_error

Succeeded == writing = "out" /\ this_write > 0 /\ write_result = "ok"

(* hid_write: "Wait for the transaction to complete.  This makes           *)
(* hid_write() synchronous."  A write that reports success was completed   *)
(* by the device.                                                          *)
WriteSynchronous == Succeeded => this_write \in written

(* The same as long as no write has timed out. *)
WriteSynchronousBeforeTimeout == Succeeded /\ timed_out = {} => this_write \in written

(* A read returns when its operation is done, however many calls before    *)
(* gave up waiting for that operation.                                     *)
ReadServed == (reading = "wait" /\ ol # "pending") ~> (reading = "out")

(***************************************************************************)
(* Across calls that give up, the reader sees the FIFO queue of InputQueue *)
(* (what the kernel still holds when the device goes is lost).             *)
(***************************************************************************)
InBuffer == IF read_pending /\ ol = "ok" THEN <<read_buf>> ELSE <<>>

Abstract == INSTANCE InputQueue WITH
    Readers <- {"reader"},
    Capacity <- MaxReports + 1,
    ErrorOvertakes <- TRUE,
    queue <- InBuffer \o kernel_queue,
    running <- plugged,
    call <- [r \in {"reader"} |-> IF reading = "out" THEN "none" ELSE mode],
    result <- [r \in {"reader"} |-> read_result]

ImplementsInputQueue == Abstract!Spec

(* No report is returned twice or out of order. *)
HandedOutOnce == Abstract!HandedOutOnce
=============================================================================
