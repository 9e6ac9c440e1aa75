---------------------------- MODULE WinIO_proofs ----------------------------
(***************************************************************************)
(* Proofs about WinIO, for any number of reports and writes.               *)
(***************************************************************************)
EXTENDS WinIO, TLAPS, SequenceTheorems

(* Reports are numbers, so none is taken for Error. *)
ReportTypes ==
    /\ read_buf \in Nat /\ sent \in Nat
    /\ kernel_queue \in Seq(Nat)

(* How dev->ol, its event, read_pending and the progress of a read move    *)
(* together: the event is never set for an operation still pending, so a   *)
(* read that woke up has its result.                                       *)
ReadInv ==
    /\ ol_event => ol # "pending"
    /\ reading = "result" => ol # "pending"
    /\ reading # "out" => read_pending

IInv == ReportTypes /\ PendingIsKnown /\ ReadInv /\ ErrorExplained

LEMMA InitInvariant == Init => IInv
BY BoundsAssumption DEF Init, IInv, ReportTypes, PendingIsKnown, ReadInv, ErrorExplained, Empty, Error

(* The writer and its completions leave the reader alone. *)
LEMMA WritesLeaveReads ==
    ASSUME WriteCompletes \/ Write PROVE UNCHANGED <<kernelVars, readVars>>
BY DEF WriteCompletes, Write, hid_write, WriteWakes, WriteTimesOut, WriteResult, kernelVars, readVars

(* A call that starts or resumes. *)
LEMMA BeginsStep ==
    ASSUME IInv, NEW m \in Modes, ReadBegins(m) PROVE IInv'
<1>1. CASE StartsRead(m)
  <2>1. read_buf' \in Nat /\ kernel_queue' \in Seq(Nat)
    BY <1>1, SMTT(30) DEF StartsRead, ReadFile, IInv, ReportTypes
  <2>2. ReadInv' /\ PendingIsKnown' /\ ErrorExplained'
    BY <1>1 DEF StartsRead, ReadFile, ReadInv, PendingIsKnown, ErrorExplained
  <2>. QED BY <1>1, <2>1, <2>2 DEF StartsRead, IInv, ReportTypes
<1>2. CASE ResumesRead(m)
  BY <1>2 DEF ResumesRead, IInv, ReportTypes, PendingIsKnown, ReadInv, ErrorExplained, kernelVars
<1>. QED BY <1>1, <1>2 DEF ReadBegins

LEMMA StepInvariant == IInv /\ [Next]_vars => IInv'
<1>. SUFFICES ASSUME IInv, [Next]_vars PROVE IInv'
  OBVIOUS
<1>. USE DEF IInv, ReportTypes, PendingIsKnown, ReadInv, ErrorExplained
<1>1. CASE ReportArrives
  <2>1. kernel_queue' \in Seq(Nat)
    <3>1. CASE ol = "pending"
      BY <1>1, <3>1 DEF ReportArrives
    <3>2. CASE ol # "pending"
      BY <1>1, <3>2 DEF ReportArrives
    <3>. QED BY <3>1, <3>2
  <2>2. read_buf' \in Nat /\ sent' \in Nat
    BY <1>1 DEF ReportArrives
  <2>3. PendingIsKnown' /\ ReadInv' /\ ErrorExplained'
    BY <1>1 DEF ReportArrives
  <2>. QED BY <2>1, <2>2, <2>3
<1>2. CASE Unplug
  BY <1>2 DEF Unplug
<1>3. CASE WriteCompletes \/ Write
  BY <1>3, WritesLeaveReads DEF kernelVars, readVars
<1>4. CASE hid_read_timeout
  BY <1>4, BeginsStep DEF hid_read_timeout
<1>5. CASE hid_read
  BY <1>5, BeginsStep DEF hid_read, Modes
<1>6. CASE ReadRefused
  BY <1>6 DEF ReadRefused, Returns, kernelVars
<1>7. CASE ReadWakes
  BY <1>7 DEF ReadWakes, kernelVars
<1>8. CASE ReadTimesOut
  BY <1>8 DEF ReadTimesOut, Returns, kernelVars, Empty, Error
<1>9. CASE ReadResult
  <2>1. read_result' = Error => ol # "ok"
    BY <1>9 DEF ReadResult, Returns, Error
  <2>2. read_error' = (ol # "ok")
    BY <1>9 DEF ReadResult
  <2>3. ErrorExplained'
    BY <2>1, <2>2, Zenon
  <2>4. ReportTypes' /\ PendingIsKnown' /\ ReadInv'
    BY <1>9 DEF ReadResult, Returns, kernelVars
  <2>. QED BY <2>3, <2>4
<1>10. CASE hid_set_nonblocking
  BY <1>10 DEF hid_set_nonblocking, kernelVars
<1>11. CASE UNCHANGED vars
  BY <1>11 DEF vars, kernelVars, readVars
<1>. QED BY <1>1, <1>2, <1>3, <1>4, <1>5, <1>6, <1>7, <1>8, <1>9, <1>10, <1>11 DEF Next, Read, InRead

(* The facts about ol, its event, read_pending and the reason of an error, *)
(* in every state of windows/hid.c, hid_read_timeout.                      *)
THEOREM Invariance == Spec => []IInv
<1>. QED BY InitInvariant, StepInvariant, PTL DEF Spec

(* windows/hid.c, hid_read_timeout: read_pending tells the truth, so no    *)
(* read is ever started over one that a call before gave up waiting for.   *)
THEOREM NoReadOverAnother == Spec => []PendingIsKnown
<1>1. IInv => PendingIsKnown
  BY DEF IInv
<1>. QED BY <1>1, Invariance, PTL

(* windows/hid.c, hid_read_timeout: every -1 has its text in               *)
(* hid_read_error.                                                         *)
THEOREM ErrorHasReason == Spec => []ErrorExplained
<1>1. IInv => ErrorExplained
  BY DEF IInv
<1>. QED BY <1>1, Invariance, PTL

(***************************************************************************)
(* Writes.                                                                 *)
(***************************************************************************)

(* Until a write times out there is at most one in flight, the one that    *)
(* hid_write waits for, and the OVERLAPPED and the event are about it.     *)
WriteInv ==
    timed_out = {} =>
        /\ writing # "wait" => in_flight = <<>>
        /\ writing = "wait" /\ in_flight # <<>> =>
              in_flight = <<this_write>> /\ ~write_event
        /\ (writing = "wait" /\ in_flight = <<>>) \/ writing = "result" =>
              (write_ol = "ok" => this_write \in written)

WriteIInv == WriteInv /\ WriteSynchronousBeforeTimeout

LEMMA WriteStep == WriteIInv /\ [Next]_vars => WriteIInv'
<1>. SUFFICES ASSUME WriteIInv, [Next]_vars, timed_out' = {}
     PROVE  WriteIInv'
  BY DEF WriteIInv, WriteInv, WriteSynchronousBeforeTimeout
<1>. USE DEF WriteIInv, WriteInv, WriteSynchronousBeforeTimeout, Succeeded
<1>1. CASE WriteCompletes
  BY <1>1 DEF WriteCompletes
<1>2. CASE hid_write
  <2>1. timed_out = {} /\ in_flight = <<>> /\ writing = "out"
    BY <1>2 DEF hid_write
  <2>2. CASE Overlapped
    <3>1. writing' = "wait" /\ ~write_event' /\ this_write' = this_write + 1
      BY <1>2, <2>2, <2>1 DEF hid_write, WriteReturns, Overlapped
    <3>2. in_flight' = Append(in_flight, this_write + 1)
      BY <1>2, <2>2, <2>1 DEF hid_write, WriteReturns, Overlapped
    <3>3. in_flight' = <<this_write'>>
      BY <2>1, <3>1, <3>2
    <3>4. in_flight' # <<>>
      BY <3>3
    <3>. QED BY <3>1, <3>3, <3>4
  <2>3. CASE ~Overlapped
    BY <1>2, <2>1, <2>3 DEF hid_write, WriteReturns
  <2>. QED BY <2>2, <2>3
<1>3. CASE WriteWakes
  BY <1>3 DEF WriteWakes
<1>4. CASE WriteTimesOut
  BY <1>4 DEF WriteTimesOut, WriteReturns
<1>5. CASE WriteResult
  BY <1>5 DEF WriteResult, WriteReturns
<1>6. CASE UNCHANGED writeVars
  BY <1>6 DEF writeVars
<1>7. ReportArrives \/ Unplug \/ Read \/ hid_set_nonblocking \/ UNCHANGED vars
        => UNCHANGED writeVars
  BY DEF ReportArrives, Unplug, Read, hid_read_timeout, hid_read, ReadBegins, StartsRead,
    ResumesRead, ReadRefused, InRead, ReadWakes, ReadTimesOut, ReadResult, hid_set_nonblocking, vars
<1>. QED BY <1>1, <1>2, <1>3, <1>4, <1>5, <1>6, <1>7 DEF Next, Write

(* windows/hid.c, hid_write, "This makes hid_write() synchronous": it does *)
(* until a write times out.                                                *)
THEOREM SynchronousBeforeTimeout == Spec => []WriteSynchronousBeforeTimeout
<1>1. Init => WriteIInv
  BY DEF Init, WriteIInv, WriteInv, WriteSynchronousBeforeTimeout, Succeeded
<1>2. WriteIInv => WriteSynchronousBeforeTimeout
  BY DEF WriteIInv
<1>. QED BY <1>1, <1>2, WriteStep, PTL DEF Spec

(***************************************************************************)
(* The queue of InputQueue.                                                *)
(***************************************************************************)

(* What the reader will see is no more than what arrived; while a read is  *)
(* pending nothing is kept for it; a read fails only when the device has   *)
(* gone.                                                                   *)
KernelInv ==
    /\ ol \in {"idle", "pending", "ok", "failed"}
    /\ ol = "pending" => kernel_queue = <<>>
    /\ ol = "failed" => ~plugged
    /\ Len(InBuffer) + Len(kernel_queue) <= sent
    /\ reading \in {"out", "wait", "result"} /\ mode \in Modes

LEMMA InBufferFacts ==
    ASSUME ReportTypes
    PROVE  /\ InBuffer \in Seq(Nat) /\ InBuffer \o kernel_queue \in Seq(Nat)
           /\ Len(InBuffer \o kernel_queue) = Len(InBuffer) + Len(kernel_queue)
           /\ InBuffer = <<>> => InBuffer \o kernel_queue = kernel_queue
           /\ InBuffer # <<>> => /\ Len(InBuffer) = 1 
                                 /\ Head(InBuffer \o kernel_queue) = read_buf
                                 /\ Tail(InBuffer \o kernel_queue) = kernel_queue
BY DEF ReportTypes, InBuffer

LEMMA KernelInit == Init => KernelInv
BY DEF Init, KernelInv, InBuffer, Modes

LEMMA KernelStep == IInv /\ KernelInv /\ [Next]_vars => KernelInv'
<1>. SUFFICES ASSUME IInv, KernelInv, [Next]_vars PROVE KernelInv'
  OBVIOUS
<1>. USE DEF KernelInv, InBuffer
<1>t. ReportTypes /\ PendingIsKnown /\ ReadInv
  BY DEF IInv
<1>1. CASE ReportArrives
  BY <1>1, <1>t DEF ReportArrives, ReportTypes, PendingIsKnown
<1>2. CASE Unplug
  BY <1>2, <1>t DEF Unplug, ReportTypes
<1>3. CASE WriteCompletes \/ Write
  BY <1>3, WritesLeaveReads DEF kernelVars, readVars
<1>4. ASSUME NEW m \in Modes, StartsRead(m) PROVE KernelInv'
  BY <1>4, <1>t DEF StartsRead, ReadFile, ReportTypes, PendingIsKnown
<1>5. ASSUME NEW m \in Modes, ResumesRead(m) PROVE KernelInv'
  BY <1>5 DEF ResumesRead, kernelVars
<1>6. CASE ReadRefused
  BY <1>6 DEF ReadRefused, Returns, kernelVars
<1>7. CASE ReadWakes
  BY <1>7 DEF ReadWakes, kernelVars
<1>8. CASE ReadTimesOut
  BY <1>8 DEF ReadTimesOut, Returns, kernelVars
<1>9. CASE ReadResult
  BY <1>9, <1>t DEF ReadResult, Returns, kernelVars, ReportTypes
<1>10. CASE hid_set_nonblocking
  BY <1>10 DEF hid_set_nonblocking, kernelVars
<1>11. CASE UNCHANGED vars
  BY <1>11 DEF vars, kernelVars, readVars
<1>12. CASE hid_read_timeout \/ hid_read
  BY <1>4, <1>5, <1>12 DEF hid_read_timeout, hid_read, ReadBegins, Modes
<1>. QED BY <1>1, <1>2, <1>3, <1>6, <1>7, <1>8, <1>9, <1>10, <1>11, <1>12 DEF Next, Read, InRead

queueSeen == InBuffer \o kernel_queue
callSeen == [r \in {"reader"} |-> IF reading = "out" THEN "none" ELSE mode]
resultSeen == [r \in {"reader"} |-> read_result]

LEMMA SeenFacts ==
    /\ Abstract!vars = <<queueSeen, sent, plugged, callSeen, resultSeen>>
    /\ Abstract!Empty = Empty /\ Abstract!Error = Error /\ Abstract!Modes = Modes
BY DEF Abstract!vars, Abstract!Empty, Abstract!Error, Abstract!Modes, queueSeen, callSeen,
       resultSeen, Empty, Error, Modes

(* Reports that arrive, and the device that goes. *)
LEMMA DeviceImplements ==
    ASSUME IInv, KernelInv, ReportArrives \/ Unplug
    PROVE  [Abstract!Next]_(Abstract!vars)
<1>t. ReportTypes /\ PendingIsKnown
  BY DEF IInv
<1>c. UNCHANGED <<callSeen, resultSeen>>
  BY DEF ReportArrives, Unplug, callSeen, resultSeen
<1>1. CASE ReportArrives
  <2>1. Len(queueSeen) < MaxReports + 1
    BY <1>1, <1>t, InBufferFacts, BoundsAssumption DEF ReportArrives, KernelInv, queueSeen, ReportTypes
  <2>2. queueSeen' = Append(queueSeen, sent + 1)
    <3>1. CASE ol = "pending"
      <4>1. queueSeen = <<>>
        BY <3>1 DEF KernelInv, queueSeen, InBuffer
      <4>2. InBuffer' = <<sent + 1>> /\ kernel_queue' = <<>>
        BY <1>1, <1>t, <3>1 DEF ReportArrives, KernelInv, InBuffer, PendingIsKnown
      <4>. QED BY <1>t, <4>1, <4>2 DEF queueSeen, ReportTypes
    <3>2. CASE ol # "pending"
      <4>1. InBuffer' = InBuffer /\ kernel_queue' = Append(kernel_queue, sent + 1)
        BY <1>1, <3>2 DEF ReportArrives, InBuffer
      <4>2. InBuffer \o Append(kernel_queue, sent + 1) = Append(InBuffer \o kernel_queue, sent + 1)
        <5>1. InBuffer \in Seq(Nat) /\ kernel_queue \in Seq(Nat) /\ sent + 1 \in Nat
              /\ InBuffer \o kernel_queue \in Seq(Nat) /\ <<sent + 1>> \in Seq(Nat)
          BY <1>t, InBufferFacts DEF ReportTypes
        <5>. QED BY <5>1, AppendIsConcat, ConcatAssociative
      <4>. QED BY <4>1, <4>2 DEF queueSeen
    <3>. QED BY <3>1, <3>2
  <2>3. Abstract!Arrive
    BY <1>1, <1>c, <2>1, <2>2 DEF Abstract!Arrive, ReportArrives, queueSeen, callSeen, resultSeen
  <2>. QED BY <2>3 DEF Abstract!Next
<1>2. CASE Unplug
  <2>1. InBuffer' = InBuffer
    BY <1>2 DEF Unplug, InBuffer
  <2>2. Abstract!Stop
    BY <1>2, <1>c, <2>1 DEF Abstract!Stop, Unplug, callSeen, resultSeen
  <2>. QED BY <2>2 DEF Abstract!Next
<1>. QED BY <1>1, <1>2

(* A read that starts an operation moves at most the oldest report into    *)
(* the buffer.                                                             *)
LEMMA BeginsImplements ==
    ASSUME IInv, KernelInv, NEW m \in Modes, ReadBegins(m)
    PROVE  [Abstract!Next]_(Abstract!vars)
<1>t. ReportTypes
  BY DEF IInv
<1>1. queueSeen' = queueSeen
  <2>1. CASE StartsRead(m)
    <3>1. InBuffer = <<>> /\ queueSeen = kernel_queue
      BY <2>1, <1>t, InBufferFacts DEF StartsRead, InBuffer, queueSeen
    <3>2. CASE kernel_queue' = Tail(kernel_queue) /\ ol' = "ok" /\ kernel_queue # <<>>
               /\ read_buf' = Head(kernel_queue)
      <4>1. InBuffer' = <<Head(kernel_queue)>>
        BY <2>1, <3>2 DEF StartsRead, InBuffer
      <4>2. <<Head(kernel_queue)>> \o Tail(kernel_queue) = kernel_queue
        BY <1>t, <3>2 DEF ReportTypes
      <4>3. queueSeen' = <<Head(kernel_queue)>> \o Tail(kernel_queue)
        BY <3>2, <4>1 DEF queueSeen
      <4>. QED BY <3>1, <4>2, <4>3
    <3>3. CASE UNCHANGED kernel_queue /\ ol' # "ok"
      BY <3>1, <3>3 DEF InBuffer, queueSeen
    <3>. QED BY <2>1, <3>2, <3>3 DEF StartsRead, ReadFile
  <2>2. CASE ResumesRead(m)
    BY <2>2 DEF ResumesRead, queueSeen, InBuffer, kernelVars
  <2>. QED BY <2>1, <2>2 DEF ReadBegins
<1>2. /\ reading = "out" /\ reading' # "out" /\ mode' = m /\ read_result' = Empty
      /\ UNCHANGED <<sent, plugged>>
  BY DEF ReadBegins, StartsRead, ReadFile, ResumesRead, kernelVars
<1>3. Abstract!Begin("reader", m)
  BY <1>1, <1>2, SeenFacts DEF Abstract!Begin, queueSeen, callSeen, resultSeen
<1>. QED BY <1>3, SeenFacts DEF Abstract!Next

(* The end of a read.                                                      *)
LEMMA ReturnsImplements ==
    ASSUME IInv, KernelInv, ReadTimesOut \/ ReadResult
    PROVE  [Abstract!Next]_(Abstract!vars)
<1>t. ReportTypes /\ PendingIsKnown /\ ReadInv
  BY DEF IInv
<1>c. /\ reading # "out" /\ read_pending /\ reading' = "out"
      /\ UNCHANGED <<kernel_queue, sent, plugged, ol, read_buf>>
  BY <1>t DEF ReadTimesOut, ReadResult, Returns, kernelVars, ReadInv
<1>d. /\ callSeen["reader"] = mode /\ mode # "none"
      /\ callSeen' = [callSeen EXCEPT !["reader"] = "none"]
      /\ resultSeen' = [resultSeen EXCEPT !["reader"] = read_result']
  BY <1>c DEF callSeen, resultSeen, KernelInv, Modes
<1>1. CASE ReadTimesOut
  <2>1. /\ mode # "blocking" /\ read_result' = Empty /\ UNCHANGED read_pending
        /\ ol = "pending"
    BY <1>1, <1>t DEF ReadTimesOut, Returns, PendingIsKnown, ReadInv, KernelInv
  <2>2. queueSeen = <<>> /\ UNCHANGED queueSeen
    BY <1>c, <2>1 DEF KernelInv, queueSeen, InBuffer
  <2>3. Abstract!ReturnEmpty("reader")
    BY <1>c, <1>d, <2>1, <2>2, SeenFacts
    DEF Abstract!ReturnEmpty, Abstract!Return, queueSeen, callSeen, resultSeen
  <2>. QED BY <2>3 DEF Abstract!Next
<1>2. CASE ReadResult /\ ol = "ok"
  <2>1. read_result' = read_buf /\ read_pending' = FALSE
    BY <1>2 DEF ReadResult, Returns
  <2>2. InBuffer = <<read_buf>> /\ InBuffer' = <<>>
    BY <1>2, <1>c, <2>1 DEF InBuffer
  <2>3. /\ queueSeen # <<>> /\ Head(queueSeen) = read_buf
        /\ Tail(queueSeen) = kernel_queue
    BY <1>t, <2>2, InBufferFacts DEF queueSeen, KernelInv, ReportTypes
  <2>4. queueSeen' = kernel_queue
    BY <1>t, <1>c, <2>2 DEF queueSeen, ReportTypes
  <2>5. Abstract!ReturnReport("reader")
    BY <1>c, <1>d, <2>1, <2>3, <2>4
    DEF Abstract!ReturnReport, Abstract!Return, queueSeen, callSeen, resultSeen
  <2>. QED BY <2>5 DEF Abstract!Next
<1>3. CASE ReadResult /\ ol # "ok"
  <2>1. read_result' = Error /\ ~plugged
    BY <1>3, <1>c, <1>t DEF ReadResult, Returns, ReadInv, PendingIsKnown, KernelInv
  <2>2. InBuffer = <<>> /\ InBuffer' = <<>>
    BY <1>3, <1>c DEF InBuffer
  <2>3. UNCHANGED queueSeen
    BY <1>c, <2>2 DEF queueSeen
  <2>4. Abstract!ReturnError("reader")
    BY <1>c, <1>d, <2>1, <2>3, SeenFacts
    DEF Abstract!ReturnError, Abstract!Return, queueSeen, callSeen, resultSeen
  <2>. QED BY <2>4 DEF Abstract!Next
<1>. QED BY <1>1, <1>2, <1>3

LEMMA StepImplements ==
    ASSUME IInv, KernelInv, [Next]_vars
    PROVE  [Abstract!Next]_(Abstract!vars)
<1>1. CASE UNCHANGED <<kernelVars, ol, read_buf, read_pending, mode, read_result>>
           /\ (reading' = "out" <=> reading = "out")
  <2>1. UNCHANGED <<InBuffer, sent, plugged>> /\ UNCHANGED kernel_queue
    BY <1>1 DEF kernelVars, InBuffer
  <2>2. UNCHANGED <<callSeen, resultSeen>>
    BY <1>1 DEF callSeen, resultSeen
  <2>. QED BY <2>1, <2>2, SeenFacts DEF queueSeen, Abstract!vars, callSeen, resultSeen
<1>2. CASE ReadWakes \/ hid_set_nonblocking \/ WriteCompletes \/ Write \/ UNCHANGED vars
  BY <1>1, <1>2, WritesLeaveReads DEF ReadWakes, hid_set_nonblocking, kernelVars, readVars, vars
<1>3. CASE ReadRefused
  <2>1. UNCHANGED <<queueSeen, callSeen>>
    BY <1>3 DEF ReadRefused, Returns, queueSeen, callSeen, InBuffer, kernelVars
  <2>2. Abstract!Refuse("reader")
    BY <1>3, <2>1, SeenFacts
    DEF Abstract!Refuse, ReadRefused, Returns, queueSeen, callSeen, resultSeen, kernelVars
  <2>. QED BY <2>2 DEF Abstract!Next
<1>4. CASE hid_read_timeout \/ hid_read
  BY <1>4, BeginsImplements DEF hid_read_timeout, hid_read, Modes
<1>. QED BY <1>2, <1>3, <1>4, DeviceImplements, ReturnsImplements DEF Next, Read, InRead

(* Across calls that give up, the reader sees the FIFO queue of            *)
(* InputQueue, for any number of reports: none is lost, doubled or         *)
(* reordered while the device is there.                                    *)
THEOREM Refinement == Spec => ImplementsInputQueue
<1>1. Init => Abstract!Init
  BY DEF Init, Abstract!Init, Abstract!Empty, Empty, InBuffer
<1>. QED BY <1>1, KernelInit, KernelStep, StepImplements, Invariance, PTL
     DEF Spec, ImplementsInputQueue, Abstract!Spec

(***************************************************************************)
(* What follows from the promise: no report is handed out twice or out of  *)
(* order.  The queue holds reports that arrived, each newer than the one   *)
(* before it.                                                              *)
(***************************************************************************)
Increasing(q, n) ==
    /\ n \in Nat /\ q \in Seq(1..n)
    /\ \A i, j \in 1..Len(q) : i < j => q[i] < q[j]

OldestOf(q, n) == IF q = <<>> THEN n + 1 ELSE Head(q)

(* A report that arrives is the newest one, in a queue that may be empty.  *)
LEMMA AppendOrder ==
    ASSUME NEW n, NEW q, Increasing(q, n)
    PROVE  /\ Increasing(Append(q, n + 1), n + 1)
           /\ OldestOf(q, n) <= OldestOf(Append(q, n + 1), n + 1)
           /\ OldestOf(q, n) \in Nat
<1>1. n \in Nat /\ q \in Seq(1..n) /\ Len(q) \in Nat
  BY DEF Increasing
<1>2. \A i \in 1..Len(q) : q[i] \in 1..n
  BY <1>1
<1>3. DEFINE a == Append(q, n + 1)
<1>4. a \in Seq(1..(n + 1)) /\ Len(a) = Len(q) + 1 /\ a[Len(q) + 1] = n + 1
      /\ \A i \in 1..Len(q) : a[i] = q[i]
  BY <1>1, <1>2
<1>5. \A i, j \in 1..Len(a) : i < j => a[i] < a[j]
  <2>1. TAKE i, j \in 1..Len(a)
  <2>2. HAVE i < j
  <2>3. i \in 1..Len(q) /\ a[i] = q[i] /\ q[i] \in 1..n
    BY <1>1, <1>2, <1>4, <2>2
  <2>4. CASE j = Len(q) + 1
    BY <1>1, <1>4, <2>3, <2>4
  <2>5. CASE j \in 1..Len(q)
    BY <1>4, <2>2, <2>3, <2>5 DEF Increasing
  <2>. QED BY <1>1, <1>4, <2>4, <2>5
<1>6. Increasing(a, n + 1)
  <2>1. n + 1 \in Nat
    BY <1>1
  <2>. HIDE DEF a
  <2>. QED BY <2>1, <1>4, <1>5 DEF Increasing
<1>7. OldestOf(q, n) \in Nat /\ OldestOf(q, n) <= OldestOf(a, n + 1)
  <2>1. CASE q = <<>>
    <3>1. a # <<>> /\ Head(a) = n + 1
      BY <1>1, <1>4, <2>1
    <3>. QED BY <1>1, <2>1, <3>1 DEF OldestOf
  <2>2. CASE q # <<>>
    <3>1. a # <<>> /\ Head(a) = Head(q) /\ Head(q) \in 1..n
      BY <1>1, <1>2, <1>4, <2>2
    <3>. QED BY <1>1, <2>2, <3>1 DEF OldestOf
  <2>. QED BY <2>1, <2>2
<1>. QED BY <1>6, <1>7

(* Without its first report the queue begins with a newer one.             *)
LEMMA TailOrder ==
    ASSUME NEW n, NEW q, Increasing(q, n), q # <<>>
    PROVE  /\ Increasing(Tail(q), n)
           /\ OldestOf(q, n) = Head(q) /\ Head(q) \in Nat
           /\ Head(q) < OldestOf(Tail(q), n)
           /\ OldestOf(Tail(q), n) \in Nat
<1>1. n \in Nat /\ q \in Seq(1..n) /\ Len(q) \in Nat \ {0}
  BY DEF Increasing
<1>2. Tail(q) \in Seq(1..n) /\ Len(Tail(q)) = Len(q) - 1
      /\ \A i \in 1..Len(Tail(q)) : Tail(q)[i] = q[i + 1]
  BY <1>1
<1>3. Head(q) = q[1] /\ q[1] \in 1..n
  BY <1>1
<1>4. Increasing(Tail(q), n)
  BY <1>1, <1>2 DEF Increasing
<1>5. CASE Tail(q) = <<>>
  BY <1>1, <1>3, <1>4, <1>5 DEF OldestOf
<1>6. CASE Tail(q) # <<>>
  <2>1. Len(Tail(q)) \in Nat \ {0}
    BY <1>2, <1>6
  <2>2. Head(Tail(q)) = q[2] /\ 2 \in 1..Len(q) /\ 1 \in 1..Len(q) /\ q[2] \in 1..n
    BY <1>1, <1>2, <2>1
  <2>3. q[1] < q[2]
    BY <2>2 DEF Increasing
  <2>. QED BY <1>1, <1>3, <1>4, <1>6, <2>2, <2>3, SMTT(30) DEF OldestOf
<1>. QED BY <1>5, <1>6

OrderInv == Increasing(queueSeen, sent)

(* An arrival, even one that gives up the oldest report.                   *)
LEMMA ArriveInOrder ==
    ASSUME OrderInv, Abstract!Arrive
    PROVE  OrderInv' /\ Abstract!Oldest <= Abstract!Oldest'
<1>1. Abstract!Oldest = OldestOf(queueSeen, sent)
  BY DEF queueSeen, Abstract!Oldest, OldestOf
<1>2. Abstract!Oldest' = OldestOf(queueSeen', sent')
  BY DEF queueSeen, Abstract!Oldest, OldestOf
<1>3. CASE queueSeen' = Append(queueSeen, sent + 1)
  BY <1>1, <1>2, <1>3, AppendOrder DEF OrderInv, queueSeen, Abstract!Arrive
<1>4. CASE queueSeen' = Append(Tail(queueSeen), sent + 1) /\ queueSeen # <<>>
  <2>1. /\ Increasing(Tail(queueSeen), sent)
        /\ OldestOf(queueSeen, sent) = Head(queueSeen)
        /\ Head(queueSeen) \in Nat
        /\ Head(queueSeen) < OldestOf(Tail(queueSeen), sent)
        /\ OldestOf(Tail(queueSeen), sent) \in Nat
    BY <1>4, TailOrder DEF OrderInv
  <2>2. Increasing(queueSeen', sent')
        /\ OldestOf(Tail(queueSeen), sent) <= OldestOf(queueSeen', sent')
    BY <1>4, <2>1, AppendOrder DEF queueSeen, Abstract!Arrive
  <2>3. OldestOf(queueSeen', sent') \in Nat
    BY <2>2, AppendOrder
  <2>. QED BY <1>1, <1>2, <2>1, <2>2, <2>3 DEF OrderInv
<1>5. queueSeen = <<>> => Len(queueSeen) < MaxReports + 1
  BY BoundsAssumption
<1>. QED BY <1>3, <1>4, <1>5 DEF queueSeen, Abstract!Arrive

(* The readers of the promise, as functions.                               *)
LEMMA HandedOutSeen ==
    ASSUME NEW r \in {"reader"}
    PROVE  /\ Abstract!HandedOut(r) <=>
                callSeen[r] # "none" /\ callSeen'[r] = "none" /\ resultSeen'[r] > 0
           /\ DOMAIN callSeen = {"reader"} /\ DOMAIN resultSeen = {"reader"}
           /\ [s \in {"reader"} |-> read_result]'[r] = resultSeen'[r]
BY DEF Abstract!HandedOut, callSeen, resultSeen

(* The report that is handed out is older than all that are left.          *)
LEMMA ReturnInOrder ==
    ASSUME OrderInv, NEW r \in {"reader"}, Abstract!ReturnReport(r)
    PROVE  OrderInv' /\ Abstract!HandsOutInOrder
<1>1. Abstract!Oldest = OldestOf(queueSeen, sent)
  BY DEF queueSeen, Abstract!Oldest, OldestOf
<1>2. Abstract!Oldest' = OldestOf(queueSeen', sent')
  BY DEF queueSeen, Abstract!Oldest, OldestOf
<1>3. /\ Increasing(queueSeen', sent')
      /\ Abstract!Oldest = Head(queueSeen) /\ Head(queueSeen) \in Nat
      /\ Head(queueSeen) < Abstract!Oldest' /\ Abstract!Oldest' \in Nat
  BY <1>1, <1>2, TailOrder DEF OrderInv, queueSeen, Abstract!ReturnReport, Abstract!Return
<1>4. /\ callSeen' = [callSeen EXCEPT ![r] = "none"]
      /\ resultSeen' = [resultSeen EXCEPT ![r] = Head(queueSeen)]
  BY DEF queueSeen, Abstract!ReturnReport, Abstract!Return, callSeen, resultSeen
<1>5. ASSUME NEW s \in {"reader"}, Abstract!HandedOut(s)
      PROVE  s = r
  BY <1>4, <1>5, HandedOutSeen
<1>6. resultSeen'[r] = Head(queueSeen)
  BY <1>4, HandedOutSeen
<1>7. ASSUME NEW s \in {"reader"}, Abstract!HandedOut(s)
      PROVE  /\ Abstract!Oldest <= [t \in {"reader"} |-> read_result]'[s]
             /\ [t \in {"reader"} |-> read_result]'[s] < Abstract!Oldest'
             /\ \A t \in {"reader"} \ {s} : ~Abstract!HandedOut(t)
  BY <1>3, <1>5, <1>6, <1>7, HandedOutSeen
<1>8. Abstract!Oldest <= Abstract!Oldest'
  BY <1>3
<1>. QED BY <1>3, <1>7, <1>8 DEF OrderInv, Abstract!HandsOutInOrder

(* Nobody gets a report by the other steps of readers. *)
LEMMA NothingHandedOut ==
    ASSUME NEW r \in {"reader"},
           \/ \E m \in Abstract!Modes : Abstract!Begin(r, m)
           \/ Abstract!Refuse(r) \/ Abstract!ReturnEmpty(r) \/ Abstract!ReturnError(r)
    PROVE  \A s \in {"reader"} : ~Abstract!HandedOut(s)
<1>. SUFFICES ASSUME NEW s \in {"reader"}, callSeen[s] # "none", callSeen'[s] = "none"
              PROVE  ~(resultSeen'[s] > 0)
  BY HandedOutSeen
<1>1. ASSUME NEW m \in Abstract!Modes, Abstract!Begin(r, m) PROVE FALSE
  <2>1. callSeen[r] = "none" /\ callSeen' = [callSeen EXCEPT ![r] = m]
    BY <1>1 DEF Abstract!Begin, callSeen
  <2>. QED BY <2>1, HandedOutSeen
<1>2. CASE Abstract!Refuse(r)
  <2>1. callSeen' = callSeen
    BY <1>2 DEF Abstract!Refuse, callSeen
  <2>. QED BY <2>1
<1>3. ASSUME NEW v \in {Empty, Error}, Abstract!Return(r, v) PROVE ~(resultSeen'[s] > 0)
  <2>1. /\ callSeen' = [callSeen EXCEPT ![r] = "none"]
        /\ resultSeen' = [resultSeen EXCEPT ![r] = v]
    BY <1>3 DEF Abstract!Return, callSeen, resultSeen
  <2>2. s = r /\ resultSeen'[s] = v
    BY <2>1, HandedOutSeen
  <2>. QED BY <2>2 DEF Empty, Error
<1>. QED BY <1>1, <1>2, <1>3, SeenFacts DEF Abstract!ReturnEmpty, Abstract!ReturnError

(* Steps that hand out nothing leave the queue or empty it.                *)
LEMMA OthersInOrder ==
    ASSUME OrderInv, sent' = sent, queueSeen' \in {queueSeen, <<>>},
           \A s \in {"reader"} : ~Abstract!HandedOut(s)
    PROVE  OrderInv' /\ Abstract!HandsOutInOrder
<1>1. OldestOf(queueSeen, sent) \in Nat /\ sent \in Nat /\ OldestOf(queueSeen, sent) <= sent + 1
  <2>1. CASE queueSeen = <<>>
    BY <2>1 DEF OrderInv, Increasing, OldestOf
  <2>2. CASE queueSeen # <<>>
    <3>1. Head(queueSeen) \in 1..sent
      BY <2>2 DEF OrderInv, Increasing
    <3>. QED BY <2>2, <3>1 DEF OrderInv, Increasing, OldestOf
  <2>. QED BY <2>1, <2>2
<1>2. Abstract!Oldest <= Abstract!Oldest'
  BY <1>1 DEF queueSeen, Abstract!Oldest, OldestOf
<1>3. Increasing(<<>>, sent)
  BY <1>1 DEF Increasing
<1>. QED BY <1>2, <1>3 DEF OrderInv, Abstract!HandsOutInOrder

(* The order of the queue is inductive, and every step hands out in order. *)
LEMMA OrderStep ==
    OrderInv /\ [Abstract!Next]_(Abstract!vars)
        => OrderInv' /\ [Abstract!HandsOutInOrder]_(Abstract!vars)
<1>. SUFFICES ASSUME OrderInv, [Abstract!Next]_(Abstract!vars)
              PROVE  OrderInv' /\ [Abstract!HandsOutInOrder]_(Abstract!vars)
  OBVIOUS
<1>1. CASE UNCHANGED Abstract!vars
  BY <1>1 DEF queueSeen, Abstract!vars, OrderInv
<1>2. CASE Abstract!Arrive
  <2>1. \A s \in {"reader"} : ~Abstract!HandedOut(s)
    <3>1. callSeen' = callSeen
      BY <1>2 DEF Abstract!Arrive, callSeen
    <3>. QED BY <3>1, HandedOutSeen
  <2>. QED BY <1>2, <2>1, ArriveInOrder DEF Abstract!HandsOutInOrder
<1>3. CASE Abstract!Stop \/ Abstract!Discard
  <2>1. \A s \in {"reader"} : ~Abstract!HandedOut(s)
    <3>1. callSeen' = callSeen
      BY <1>3 DEF Abstract!Stop, Abstract!Discard, callSeen
    <3>. QED BY <3>1, HandedOutSeen
  <2>. QED BY <1>3, <2>1, OthersInOrder DEF queueSeen, Abstract!Stop, Abstract!Discard
<1>4. ASSUME NEW r \in {"reader"}, Abstract!ReturnReport(r)
      PROVE  OrderInv' /\ [Abstract!HandsOutInOrder]_(Abstract!vars)
  BY <1>4, ReturnInOrder
<1>5. ASSUME NEW r \in {"reader"},
             \/ \E m \in Abstract!Modes : Abstract!Begin(r, m)
             \/ Abstract!Refuse(r) \/ Abstract!ReturnEmpty(r) \/ Abstract!ReturnError(r)
      PROVE  OrderInv' /\ [Abstract!HandsOutInOrder]_(Abstract!vars)
  <2>1. sent' = sent /\ queueSeen' = queueSeen
    BY <1>5 DEF queueSeen, Abstract!Begin, Abstract!Refuse, Abstract!ReturnEmpty,
                Abstract!ReturnError, Abstract!Return
  <2>. QED BY <1>5, <2>1, NothingHandedOut, OthersInOrder
<1>. QED BY <1>1, <1>2, <1>3, <1>4, <1>5 DEF Abstract!Next

(* hid_read returns reports in the order of their arrival and none twice,  *)
(* however many calls give up in between, for any number of reports.       *)
THEOREM HandsOutOnce == Spec => HandedOutOnce
<1>1. Abstract!Init => OrderInv
  BY DEF queueSeen, Abstract!Init, OrderInv, Increasing
<1>2. Abstract!Spec => HandedOutOnce
  BY <1>1, OrderStep, PTL DEF Abstract!Spec, HandedOutOnce, Abstract!HandedOutOnce
<1>. QED BY <1>2, Refinement, PTL DEF ImplementsInputQueue
=============================================================================
