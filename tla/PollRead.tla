------------------------------ MODULE PollRead ------------------------------
(***************************************************************************)
(* hid_read, hid_read_timeout and hid_set_nonblocking of the Linux and the *)
(* NetBSD backend, which leave the queue of input reports to the kernel:   *)
(* they poll, and read if there is something.  The descriptors themselves  *)
(* are blocking, so what poll chose must really be readable.               *)
(*                                                                         *)
(* Linux has one descriptor, /dev/hidrawN, and does not poll at all when   *)
(* there is no time limit; NetBSD always polls, over one descriptor for    *)
(* each report ID, and reads the first that is ready.  One thread reads;   *)
(* a report is the number of its arrival; no signal interrupts a call and  *)
(* the kernel's queue does not fill up.                                    *)
(***************************************************************************)
EXTENDS Integers, Sequences, FiniteSetsExt

CONSTANTS
    Backends,     \* the backends to look at
    MaxHandles,   \* bound: descriptors of a NetBSD device
    MaxReports    \* bound: reports that arrive

ASSUME PollAssumption ==
    /\ Backends \subseteq {"linux", "netbsd"}
    /\ MaxHandles \in Nat \ {0} /\ MaxReports \in Nat

VARIABLES
    backend,      \* the backend in use
    queues,       \* the kernel's queue of each descriptor, oldest report first
    gone,         \* the descriptors whose device has gone
    arrived,      \* the number of reports that arrived
    blocking,     \* dev->blocking
    open,         \* FALSE after hid_close
    pc,           \* where the reader is: outside, in poll or in read
    function,     \* the function called last
    milliseconds, \* the time limit of the call
    ph,           \* the descriptor to read
    answer,       \* what the last call returned: a report, Empty or Error
    read_error    \* dev->last_read_error_str

kernelVars == <<backend, queues, gone, arrived>>
devVars == <<blocking, open>>
callVars == <<pc, function, milliseconds, ph, answer, read_error>>
vars == <<kernelVars, devVars, callVars>>

Handles == DOMAIN queues
Empty == 0
Error == -1
NoError == "Success"
Forever == -1
Limits == {Forever, 0, 1}    \* 1 stands for every positive time

Readable(h) == queues[h] # <<>>
Ready(h) == Readable(h) \/ h \in gone

Init ==
    /\ backend \in Backends
    /\ \E n \in 1..MaxHandles :
           (backend = "linux" => n = 1) /\ queues = [h \in 1..n |-> <<>>]
    /\ gone = {} /\ arrived = 0 /\ blocking = TRUE /\ open = TRUE
    /\ pc = "out" /\ function = "none" /\ milliseconds = 0 /\ ph = 1
    /\ answer = Empty /\ read_error = NoError

(* The kernel queues a report, or takes a descriptor's device away. *)
Arrive(h) ==
    /\ h \notin gone /\ arrived < MaxReports /\ arrived' = arrived + 1
    /\ queues' = [queues EXCEPT ![h] = Append(@, arrived')]
    /\ UNCHANGED <<backend, gone, devVars, callVars>>

Unplug(h) ==
    /\ h \notin gone /\ gone' = gone \cup {h}
    /\ UNCHANGED <<backend, queues, arrived, devVars, callVars>>

hid_set_nonblocking(nonblock) ==
    /\ open /\ pc = "out" /\ blocking' = ~nonblock
    /\ UNCHANGED <<kernelVars, open, callVars>>

hid_close ==
    /\ open /\ pc = "out" /\ open' = FALSE
    /\ UNCHANGED <<kernelVars, blocking, callVars>>

(* A call begins without an error. *)
Reads(limit) ==
    /\ open /\ pc = "out" /\ milliseconds' = limit /\ answer' = Empty
    /\ pc' = IF backend = "linux" /\ limit = Forever THEN "read" ELSE "poll"
    /\ ph' = 1 /\ read_error' = NoError
    /\ UNCHANGED <<kernelVars, devVars>>

hid_read_timeout(limit) == Reads(limit) /\ function' = "hid_read_timeout"

(* Linux refuses a call without a buffer. *)
ZeroBuffer ==
    /\ backend = "linux" /\ open /\ pc = "out"
    /\ answer' = Error /\ read_error' = "Zero buffer/length"
    /\ UNCHANGED <<kernelVars, devVars, pc, function, milliseconds, ph>>

(* Mutant: the two cases are swapped. *)
Limit_Swapped == IF blocking THEN 0 ELSE Forever

Limit == IF blocking THEN Forever ELSE 0

hid_read == Reads(Limit) /\ function' = "hid_read"

Returns(value, err) ==
    /\ pc' = "out" /\ answer' = value /\ read_error' = err
    /\ UNCHANGED <<backend, gone, arrived, devVars, function, milliseconds, ph>>

poll_times_out ==
    /\ pc = "poll" /\ milliseconds # Forever /\ ~\E h \in Handles : Ready(h)
    /\ Returns(Empty, read_error) /\ UNCHANGED queues

(* Mutant: the search does not stop at the first. *)
Chosen_Last == Max(Handles)

(* The first descriptor with an event, where an error goes before a report. *)
Chosen == Min({h \in Handles : Ready(h)})

poll_returns ==
    /\ pc = "poll" /\ \E h \in Handles : Ready(h)
    /\ \/ /\ Chosen \in gone
          /\ Returns(Error, "device IO error while polling") /\ UNCHANGED queues
       \/ /\ Chosen \notin gone
          /\ ph' = Chosen /\ pc' = "read"
          /\ UNCHANGED <<kernelVars, devVars, function, milliseconds, answer, read_error>>

(* The oldest report; an error once the device has gone, which on NetBSD   *)
(* may come before the reports.                                            *)
read ==
    /\ pc = "read"
    /\ \/ /\ Readable(ph) /\ queues' = [queues EXCEPT ![ph] = Tail(@)]
          /\ Returns(Head(queues[ph]), read_error)
       \/ /\ ph \in gone /\ (backend = "netbsd" \/ ~Readable(ph))
          /\ Returns(Error, "EIO") /\ UNCHANGED queues
-----------------------------------------------------------------------------
Reading == poll_times_out \/ poll_returns \/ read

Next ==
    \/ \E h \in Handles : Arrive(h) \/ Unplug(h)
    \/ \E nonblock \in BOOLEAN : hid_set_nonblocking(nonblock)
    \/ \E limit \in Limits : hid_read_timeout(limit)
    \/ hid_read \/ ZeroBuffer \/ hid_close
    \/ Reading

(* The kernel lets time limits expire and returns from calls that can end. *)
Spec == Init /\ [][Next]_vars /\ WF_vars(Reading)

(***************************************************************************)
(* Properties.                                                             *)
(***************************************************************************)
(* A read with a time limit always returns: the blocking read() that       *)
(* follows the poll never waits.  A read without one returns when there is *)
(* a report for any of the descriptors, or when the device goes, which on  *)
(* Linux only the read itself can tell.                                    *)
ReadReturns ==
    /\ (pc # "out" /\ milliseconds # Forever) ~> (pc = "out")
    /\ (pc # "out" /\ \E h \in Handles : Ready(h)) ~> (pc = "out")

(***************************************************************************)
(* With one descriptor, reads keep the promise of InputQueue, where errors *)
(* may overtake reports; an error counts only if hid_read_error knows why. *)
(* With several descriptors there is no one order of reports to promise.   *)
(***************************************************************************)
OfOne(value, otherwise) == IF Handles = {1} THEN value ELSE otherwise

(* What the caller was promised. *)
Mode == IF pc = "out" THEN "none"
        ELSE IF function = "hid_read" THEN IF blocking THEN "blocking" ELSE "nonblocking"
        ELSE IF milliseconds = Forever THEN "blocking"
        ELSE IF milliseconds = 0 THEN "nonblocking" ELSE "timeout"

Result == IF answer = Error /\ read_error = NoError THEN -2 ELSE answer

Abstract == INSTANCE InputQueue WITH
    Readers <- {"reader"},
    Capacity <- MaxReports + 1,
    ErrorOvertakes <- TRUE,
    queue <- OfOne(queues[1], <<>>),
    sent <- OfOne(arrived, 0),
    running <- OfOne(gone = {}, TRUE),
    call <- [r \in {"reader"} |-> OfOne(Mode, "none")],
    result <- [r \in {"reader"} |-> OfOne(Result, Empty)]

ImplementsInputQueue == Abstract!Spec
=============================================================================
