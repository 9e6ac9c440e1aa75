---------------------------- MODULE MacRead_proofs ----------------------------
(***************************************************************************)
(* Proofs about MacRead, for any finite set of readers, any Limit, any     *)
(* number of reports and either generation of the system.                  *)
(***************************************************************************)
EXTENDS MacRead, FiniteSetTheorems, TLAPS

(***************************************************************************)
(* The inductive invariant, in named parts.                                *)
(***************************************************************************)

(* The type invariant of the module, by who owns the variables. *)
ThreadTypeOK ==
    app \in AppStates /\ rt \in ThreadStates /\ count \in [Barriers -> 0..1]
FlagTypeOK ==
    /\ run_loop \in BOOLEAN /\ source \in BOOLEAN /\ stopped \in BOOLEAN
    /\ registered \in BOOLEAN /\ plugged \in BOOLEAN /\ os_open \in BOOLEAN
    /\ shutdown_thread \in BOOLEAN /\ disconnected \in BOOLEAN /\ blocking \in BOOLEAN
ReaderTypeOK ==
    /\ reader \in [Readers -> ReaderStates] /\ mode \in [Readers -> Modes]
    /\ result \in [Readers -> Nat \cup {Error}]
    /\ mutex \in Readers \cup {NoOwner} /\ read_error \in BOOLEAN
QueueTypeOK ==
    sent \in Nat /\ input_reports \in Seq(Nat) /\ Len(input_reports) <= Limit + 2

(* A reader holds the mutex exactly in the part of hid_read_timeout that   *)
(* runs between taking it and giving it up.                                *)
Holding == {"locked", "test", "sleep", "recheck", "unlock"}
MutexInv == \A r \in Readers : reader[r] \in Holding <=> mutex = r

(* The barrier of hid_open_path: its count is one exactly while one of the *)
(* two threads waits there for the other.  Nobody passes before both have  *)
(* arrived, the read thread not before it has its run loop.                *)
Opening == {"create", "arrive", "wait"}
Starting == {"none", "setup", "arrive"}
OpenBarrierInv ==
    /\ app = "create" <=> rt = "none"
    /\ count["barrier"] = 1 <=>
         \/ app = "wait" /\ rt \in Starting
         \/ app = "arrive" /\ rt = "wait"
    /\ app \notin Opening => rt \notin Starting
    /\ rt \notin Starting \cup {"wait"} => app \notin {"create", "arrive"}
    /\ run_loop <=> rt \notin {"none", "setup"}

(* The barrier of hid_close, likewise. *)
Leaving == {"shut_wait", "join", "close", "drain", "closed"}
ShutBarrierInv ==
    /\ count["shutdown_barrier"] = 1 <=>
         \/ app = "shut_wait" /\ rt \notin {"shut_wait", "exited"}
         \/ app \notin Leaving /\ rt = "shut_wait"
    /\ app \in Leaving \ {"shut_wait"} => rt \in {"shut_wait", "exited"}
    /\ rt = "exited" => app \in Leaving

(* The read thread leaves its loop only when it was told to or the device  *)
(* has gone, and hid_close says so before anything else.                   *)
Over == shutdown_thread \/ disconnected
Ending == {"broadcast", "shut_arrive", "shut_wait", "exited"}
FlagInv ==
    /\ rt \in Ending => Over
    /\ app \notin Opening \cup {"open", "shutdown"} => shutdown_thread

(* After the broadcast nobody sleeps or is on the way to sleep. *)
SleepInv ==
    rt \in Ending \ {"broadcast"} =>
        \A r \in Readers : reader[r] \notin {"test", "sleep", "wait"}

(* Who is about to sleep found the list empty, and holds the mutex since.  *)
EmptyInv == \A r \in Readers : reader[r] = "sleep" => input_reports = <<>>

BarrierInv == OpenBarrierInv /\ ShutBarrierInv /\ FlagInv

IInv == TypeOK /\ MutexInv /\ BarrierInv /\ SleepInv /\ EmptyInv

(***************************************************************************)
(* The queue.                                                              *)
(***************************************************************************)

(* What hid_report_callback leaves in the list, and how it compares with   *)
(* the bounded queue of the promise.                                       *)
LEMMA EnqueuedFacts ==
    ASSUME NEW q \in Seq(Nat), Len(q) <= Limit + 2, NEW rpt \in Nat
    PROVE  /\ Enqueued(q, rpt) \in Seq(Nat)
           /\ Len(Enqueued(q, rpt)) <= Limit + 2 /\ Len(Enqueued(q, rpt)) <= Len(q) + 1
           /\ Enqueued(q, rpt) = IF Len(q) < Limit + 2
                                 THEN Append(q, rpt)
                                 ELSE Append(Tail(q), rpt)
<1>. USE LimitAssumption
<1>1. CASE Len(q) < Limit + 2
  <2>1. Enqueued(q, rpt) = Append(q, rpt)
    BY <1>1 DEF Enqueued
  <2>. QED BY <1>1, <2>1
<1>2. CASE Len(q) = Limit + 2
  <2>1. q # <<>> /\ Len(q) - 1 > Limit
    BY <1>2
  <2>2. Enqueued(q, rpt) = Tail(Append(q, rpt))
    BY <2>1 DEF Enqueued, ReturnData
  <2>3. Tail(Append(q, rpt)) = Append(Tail(q), rpt)
    BY <2>1
  <2>. QED BY <1>2, <2>1, <2>2, <2>3
<1>. QED BY <1>1, <1>2

LEMMA BarrierNames == "barrier" \in Barriers /\ "shutdown_barrier" \in Barriers
BY DEF Barriers

(* What a thread that arrives at a barrier makes of its count, and where   *)
(* it goes.                                                                *)
LEMMA ArrivesFacts ==
    ASSUME NEW b \in Barriers, count \in [Barriers -> 0..1], Arrives(b), NEW w, NEW t
    PROVE  /\ count' \in [Barriers -> 0..1]
           /\ count'[b] = 1 <=> count[b] = 0
           /\ \A c \in Barriers \ {b} : count'[c] = count[c]
           /\ AfterArrival(b, w, t) = IF count[b] = 1 THEN t ELSE w
BY DEF Arrives, AfterArrival

(* The type invariant, taken apart. *)
LEMMA TypeParts == TypeOK <=> ThreadTypeOK /\ FlagTypeOK /\ ReaderTypeOK /\ QueueTypeOK
BY DEF TypeOK, ThreadTypeOK, FlagTypeOK, ReaderTypeOK, QueueTypeOK

(***************************************************************************)
(* Who leaves what alone.                                                  *)
(***************************************************************************)

(* A reader's steps leave everything of the other threads alone. *)
LEMMA ReaderLeavesBack ==
    ASSUME NEW r \in Readers, Read(r) PROVE UNCHANGED backVars
BY DEF Read, InCall, hid_read, hid_read_timeout, ReadRefused, ReadBegins,
  SpuriousWakeup, ReadLocks, ReadFirstLook, ReadTest, ReadSleeps, ReadExpires, ReadWakes,
  ReadRecheck, ReadUnlocks

(* The other threads leave the readers alone, except for the broadcast and *)
(* the signal.                                                             *)
LEMMA ReaderVarsFrame ==
    ASSUME [Next]_vars
    PROVE  \/ UNCHANGED readerVars \/ RtBroadcast \/ hid_report_callback
           \/ \E r \in Readers : Read(r)
<1>1. CASE Open
  BY <1>1 DEF Open, ThreadCreate, OpenArrives, OpenReturns
<1>2. CASE read_thread
  BY <1>2 DEF read_thread, RtSetup, RtArrives, RtLeavesBarrier, RtLoop, RtTimesOut, RtStopped,
    RtShutArrives, RtExits, RunLoop,
    hid_device_removal_callback, perform_signal_callback, ReportDispatched
<1>3. CASE Unplug \/ hid_set_nonblocking
  BY <1>3 DEF Unplug, hid_set_nonblocking
<1>4. CASE hid_close
  BY <1>4 DEF hid_close, CloseUnderWay, CloseUnregisters, CloseShutsDown, CloseSignals, CloseWakesUp,
    CloseArrives, CloseLeavesBarrier, CloseJoins, CloseHandle, CloseDrains
<1>5. CASE UNCHANGED vars
  BY <1>5 DEF vars, readerVars
<1>. QED BY <1>1, <1>2, <1>3, <1>4, <1>5 DEF Next

(* Who touches the queue: hid_report_callback, a reader that takes a       *)
(* report, and hid_close.                                                  *)
LEMMA QueueFrame ==
    ASSUME [Next]_vars
    PROVE  \/ UNCHANGED queue
           \/ hid_report_callback
           \/ CloseDrains
           \/ \E r \in Readers : Read(r) /\ TakeReport(r) /\ input_reports # <<>> /\ UNCHANGED sent
<1>. USE DEF queue
<1>1. CASE Open
  BY <1>1 DEF Open, ThreadCreate, OpenArrives, OpenReturns
<1>2. CASE read_thread
  BY <1>2 DEF read_thread, RtSetup, RtArrives, RtLeavesBarrier, RtLoop, RtTimesOut, RtStopped,
    RtBroadcast, RtShutArrives, RtExits, RunLoop,
    hid_device_removal_callback, perform_signal_callback, ReportDispatched
<1>3. CASE Unplug \/ hid_set_nonblocking
  BY <1>3 DEF Unplug, hid_set_nonblocking
<1>4. CASE hid_close
  BY <1>4 DEF hid_close, CloseUnderWay, CloseUnregisters, CloseShutsDown, CloseSignals, CloseWakesUp,
    CloseArrives, CloseLeavesBarrier, CloseJoins, CloseHandle
<1>5. ASSUME NEW r \in Readers, Read(r)
      PROVE  /\ UNCHANGED sent
             /\ UNCHANGED input_reports \/ (TakeReport(r) /\ input_reports # <<>>)
  <2>1. UNCHANGED sent
    BY <1>5, ReaderLeavesBack DEF backVars
  <2>2. UNCHANGED input_reports \/ (TakeReport(r) /\ input_reports # <<>>)
    BY <1>5 DEF Read, InCall, hid_read, hid_read_timeout, ReadRefused, ReadBegins,
      SpuriousWakeup, ReadLocks, ReadFirstLook, ReadTest, ReadSleeps, ReadExpires, ReadWakes,
      ReadRecheck, ReadUnlocks, Fails
  <2>. QED BY <2>1, <2>2
<1>6. CASE UNCHANGED vars
  BY <1>6 DEF vars
<1>. QED BY <1>1, <1>2, <1>3, <1>4, <1>5, <1>6 DEF Next

(***************************************************************************)
(* Type correctness: the threads around the device, the readers and the    *)
(* queue, each on its own.                                                 *)
(***************************************************************************)
LEMMA ThreadTypeStep == ThreadTypeOK /\ [Next]_vars => ThreadTypeOK'
<1>. SUFFICES ASSUME ThreadTypeOK, [Next]_vars PROVE ThreadTypeOK'
  OBVIOUS
<1>. USE DEF ThreadTypeOK, AppStates, ThreadStates
<1>1. CASE Open
  BY <1>1, ArrivesFacts, BarrierNames DEF Open, ThreadCreate, OpenArrives, OpenReturns, Leaves
<1>2. CASE read_thread
  <2>1. CASE RtSetup \/ RtArrives \/ RtLeavesBarrier \/ RtShutArrives \/ RtExits
    BY <2>1, ArrivesFacts, BarrierNames DEF RtSetup, RtArrives, RtLeavesBarrier, RtShutArrives, RtExits, Leaves
  <2>2. CASE RtLoop \/ RtTimesOut \/ RtStopped \/ RtBroadcast
    BY <2>2 DEF RtLoop, RtTimesOut, RtStopped, RtBroadcast
  <2>3. CASE RunLoop
    BY <2>3 DEF RunLoop, hid_device_removal_callback, perform_signal_callback, ReportDispatched,
      hid_report_callback
  <2>. QED BY <1>2, <2>1, <2>2, <2>3 DEF read_thread
<1>3. CASE Unplug \/ hid_set_nonblocking
  BY <1>3 DEF Unplug, hid_set_nonblocking
<1>4. CASE hid_close
  <2>1. CASE CloseArrives \/ CloseLeavesBarrier
    BY <2>1, ArrivesFacts, BarrierNames DEF CloseArrives, CloseLeavesBarrier, Leaves
  <2>2. CASE CloseUnregisters \/ CloseShutsDown \/ CloseSignals \/ CloseWakesUp
    BY <2>2 DEF CloseUnregisters, CloseShutsDown, CloseSignals, CloseWakesUp
  <2>3. CASE CloseJoins \/ CloseHandle \/ CloseDrains
    BY <2>3 DEF CloseJoins, CloseHandle, CloseDrains
  <2>. QED BY <1>4, <2>1, <2>2, <2>3 DEF hid_close, CloseUnderWay
<1>5. ASSUME NEW r \in Readers, Read(r) PROVE UNCHANGED backVars
  BY <1>5, ReaderLeavesBack
<1>6. CASE UNCHANGED vars
  BY <1>6 DEF vars
<1>. QED BY <1>1, <1>2, <1>3, <1>4, <1>5, <1>6 DEF Next, backVars

LEMMA FlagTypeStep == FlagTypeOK /\ [Next]_vars => FlagTypeOK'
<1>. SUFFICES ASSUME FlagTypeOK, [Next]_vars PROVE FlagTypeOK'
  OBVIOUS
<1>. USE DEF FlagTypeOK, flags, loopVars, device
<1>1. CASE Open
  BY <1>1, Zenon DEF Open, ThreadCreate, OpenArrives, OpenReturns
<1>2. CASE read_thread
  BY <1>2, ZenonT(40) DEF read_thread, RtSetup, RtArrives, RtLeavesBarrier, RtLoop, RtTimesOut, RtStopped,
    RtBroadcast, RtShutArrives, RtExits, RunLoop,
    hid_device_removal_callback, perform_signal_callback, ReportDispatched, hid_report_callback
<1>3. CASE Unplug \/ hid_set_nonblocking
  BY <1>3, Zenon DEF Unplug, hid_set_nonblocking
<1>4. CASE hid_close
  <2>1. CASE CloseUnregisters \/ CloseHandle
    BY <2>1, Zenon DEF CloseUnregisters, CloseHandle
  <2>2. CASE CloseUnderWay /\ ~CloseHandle
    BY <2>2, Zenon DEF CloseUnderWay, CloseShutsDown, CloseSignals, CloseWakesUp, CloseArrives,
      CloseLeavesBarrier, CloseJoins, CloseDrains
  <2>. QED BY <1>4, <2>1, <2>2 DEF hid_close
<1>5. ASSUME NEW r \in Readers, Read(r) PROVE UNCHANGED backVars
  BY <1>5, ReaderLeavesBack
<1>6. CASE UNCHANGED vars
  BY <1>6, Zenon DEF vars
<1>. QED BY <1>1, <1>2, <1>3, <1>4, <1>5, <1>6, Zenon DEF Next, backVars

LEMMA ReaderTypeStep == TypeOK /\ [Next]_vars => ReaderTypeOK'
<1>. SUFFICES ASSUME ReaderTypeOK, QueueTypeOK, [Next]_vars PROVE ReaderTypeOK'
  BY TypeParts
<1>. USE DEF ReaderTypeOK, ReaderStates
<1>1. CASE UNCHANGED readerVars
  BY <1>1 DEF readerVars
<1>2. CASE RtBroadcast
  BY <1>2 DEF RtBroadcast
<1>3. CASE hid_report_callback
  BY <1>3 DEF hid_report_callback, Signal
<1>4. ASSUME NEW r \in Readers, Read(r) PROVE ReaderTypeOK'
  <2>1. input_reports # <<>> => Head(input_reports) \in Nat
    BY DEF QueueTypeOK
  <2>2. reader' \in [Readers -> ReaderStates]
    BY <1>4 DEF Read, InCall, hid_read, hid_read_timeout, ReadRefused, ReadBegins,
      SpuriousWakeup, ReadLocks, ReadFirstLook, ReadTest, ReadSleeps, ReadExpires, ReadWakes,
      ReadRecheck, ReadUnlocks, Moves, Fails
  <2>3. mode' \in [Readers -> Modes]
    BY <1>4 DEF Read, InCall, hid_read, hid_read_timeout, ReadRefused, ReadBegins,
      SpuriousWakeup, ReadLocks, ReadFirstLook, ReadTest, ReadSleeps, ReadExpires, ReadWakes,
      ReadRecheck, ReadUnlocks, Modes
  <2>4. result' \in [Readers -> Nat \cup {Error}]
    BY <1>4, <2>1 DEF Read, InCall, hid_read, hid_read_timeout, ReadRefused, ReadBegins,
      SpuriousWakeup, ReadLocks, ReadFirstLook, ReadTest, ReadSleeps, ReadExpires, ReadWakes,
      ReadRecheck, ReadUnlocks, TakeReport, Fails, Error, Empty
  <2>5. mutex' \in Readers \cup {NoOwner}
    BY <1>4 DEF Read, InCall, hid_read, hid_read_timeout, ReadRefused, ReadBegins,
      SpuriousWakeup, ReadLocks, ReadFirstLook, ReadTest, ReadSleeps, ReadExpires, ReadWakes,
      ReadRecheck, ReadUnlocks
  <2>6. read_error' \in BOOLEAN
    BY <1>4 DEF Read, InCall, hid_read, hid_read_timeout, ReadRefused, ReadBegins,
      SpuriousWakeup, ReadLocks, ReadFirstLook, ReadTest, ReadSleeps, ReadExpires, ReadWakes,
      ReadRecheck, ReadUnlocks, Fails
  <2>. QED BY <2>2, <2>3, <2>4, <2>5, <2>6
<1>. QED BY <1>1, <1>2, <1>3, <1>4, ReaderVarsFrame

LEMMA QueueTypeStep == QueueTypeOK /\ [Next]_vars => QueueTypeOK'
<1>. SUFFICES ASSUME QueueTypeOK, [Next]_vars PROVE QueueTypeOK'
  OBVIOUS
<1>. USE LimitAssumption DEF QueueTypeOK
<1>1. CASE hid_report_callback
  BY <1>1, EnqueuedFacts DEF hid_report_callback
<1>2. CASE CloseDrains
  BY <1>2 DEF CloseDrains
<1>3. ASSUME NEW r \in Readers, TakeReport(r), input_reports # <<>>, UNCHANGED sent
      PROVE  QueueTypeOK'
  BY <1>3 DEF TakeReport, ReturnData
<1>. QED BY <1>1, <1>2, <1>3, QueueFrame DEF queue

(***************************************************************************)
(* The mutex.                                                              *)
(***************************************************************************)
LEMMA MutexStep == TypeOK /\ MutexInv /\ [Next]_vars => MutexInv'
<1>. SUFFICES ASSUME ReaderTypeOK, MutexInv, [Next]_vars PROVE MutexInv'
  BY TypeParts
<1>. USE DEF MutexInv, Holding, ReaderTypeOK
<1>1. CASE UNCHANGED readerVars
  BY <1>1 DEF readerVars
<1>2. CASE RtBroadcast
  BY <1>2 DEF RtBroadcast
<1>3. CASE hid_report_callback
  BY <1>3 DEF hid_report_callback, Signal
<1>4. ASSUME NEW r \in Readers, Read(r) PROVE MutexInv'
  <2>1. CASE hid_read(r) \/ hid_read_timeout(r) \/ ReadRefused(r)
    BY <2>1 DEF hid_read, hid_read_timeout, ReadRefused, ReadBegins, Moves
  <2>2. CASE SpuriousWakeup(r) \/ ReadExpires(r)
    BY <2>2 DEF SpuriousWakeup, ReadExpires, Moves
  <2>3. CASE ReadLocks(r) \/ ReadWakes(r)
    BY <2>3, ReadersAssumption DEF ReadLocks, ReadWakes, Moves
  <2>4. CASE ReadSleeps(r) \/ ReadUnlocks(r)
    BY <2>4, ReadersAssumption DEF ReadSleeps, ReadUnlocks, Moves
  <2>5. CASE ReadFirstLook(r) \/ ReadTest(r) \/ ReadRecheck(r)
    BY <2>5 DEF ReadFirstLook, ReadTest, ReadRecheck, Fails, Moves
  <2>. QED BY <1>4, <2>1, <2>2, <2>3, <2>4, <2>5 DEF Read, InCall
<1>. QED BY <1>1, <1>2, <1>3, <1>4, ReaderVarsFrame

(***************************************************************************)
(* The two barriers.                                                       *)
(***************************************************************************)
LEMMA BarrierStep == ThreadTypeOK /\ BarrierInv /\ [Next]_vars => BarrierInv'
<1>. SUFFICES ASSUME ThreadTypeOK, BarrierInv, [Next]_vars PROVE BarrierInv'
  OBVIOUS
<1>. USE DEF BarrierInv, OpenBarrierInv, ShutBarrierInv, FlagInv, Opening, Starting, Leaving,
         Ending, Over, ThreadTypeOK, AppStates, ThreadStates, Barriers, flags, loopVars, device
<1>1. CASE Open
  BY <1>1, ArrivesFacts DEF Open, ThreadCreate, OpenArrives, OpenReturns, Leaves
<1>2. CASE read_thread
  <2>1. CASE RtSetup \/ RtArrives \/ RtLeavesBarrier
    BY <2>1, ArrivesFacts DEF RtSetup, RtArrives, RtLeavesBarrier, Leaves
  <2>2. CASE RtShutArrives \/ RtExits
    BY <2>2, ArrivesFacts DEF RtShutArrives, RtExits, Leaves
  <2>3. CASE RtLoop \/ RtTimesOut \/ RtStopped \/ RtBroadcast
    BY <2>3 DEF RtLoop, RtTimesOut, RtStopped, RtBroadcast
  <2>4. CASE RunLoop
    BY <2>4 DEF RunLoop, hid_device_removal_callback, perform_signal_callback, ReportDispatched,
      hid_report_callback
  <2>. QED BY <1>2, <2>1, <2>2, <2>3, <2>4 DEF read_thread
<1>3. CASE Unplug \/ hid_set_nonblocking
  BY <1>3 DEF Unplug, hid_set_nonblocking
<1>4. CASE hid_close
  <2>1. CASE CloseArrives \/ CloseLeavesBarrier
    BY <2>1, ArrivesFacts DEF CloseArrives, CloseLeavesBarrier, Leaves
  <2>2. CASE CloseUnregisters \/ CloseShutsDown \/ CloseSignals \/ CloseWakesUp
    BY <2>2 DEF CloseUnregisters, CloseShutsDown, CloseSignals, CloseWakesUp
  <2>3. CASE CloseJoins \/ CloseHandle \/ CloseDrains
    BY <2>3 DEF CloseJoins, CloseHandle, CloseDrains
  <2>. QED BY <1>4, <2>1, <2>2, <2>3 DEF hid_close, CloseUnderWay
<1>5. ASSUME NEW r \in Readers, Read(r) PROVE UNCHANGED backVars
  BY <1>5, ReaderLeavesBack
<1>6. CASE UNCHANGED vars
  BY <1>6 DEF vars
<1>. QED BY <1>1, <1>2, <1>3, <1>4, <1>5, <1>6 DEF Next, backVars

(***************************************************************************)
(* Sleeping readers.                                                       *)
(***************************************************************************)
BroadcastSent == rt \in Ending \ {"broadcast"}

(* Only the broadcast takes the read thread past its broadcast. *)
LEMMA RtFrame ==
    ASSUME [Next]_vars, BroadcastSent'
    PROVE  BroadcastSent \/ RtBroadcast
<1>. USE DEF BroadcastSent, Ending
<1>1. CASE Open
  BY <1>1 DEF Open, ThreadCreate, OpenArrives, OpenReturns
<1>2. CASE read_thread
  <2>1. CASE RtSetup \/ RtArrives \/ RtLeavesBarrier \/ RtShutArrives \/ RtExits
    BY <2>1 DEF RtSetup, RtArrives, RtLeavesBarrier, RtShutArrives, RtExits, AfterArrival
  <2>2. CASE RtLoop \/ RtTimesOut \/ RtStopped \/ RtBroadcast
    BY <2>2 DEF RtLoop, RtTimesOut, RtStopped
  <2>3. CASE RunLoop
    BY <2>3 DEF RunLoop, hid_device_removal_callback, perform_signal_callback, ReportDispatched,
      hid_report_callback
  <2>. QED BY <1>2, <2>1, <2>2, <2>3 DEF read_thread
<1>3. CASE Unplug \/ hid_set_nonblocking
  BY <1>3 DEF Unplug, hid_set_nonblocking
<1>4. CASE hid_close
  BY <1>4 DEF hid_close, CloseUnderWay, CloseUnregisters, CloseShutsDown, CloseSignals, CloseWakesUp,
    CloseArrives, CloseLeavesBarrier, CloseJoins, CloseHandle, CloseDrains
<1>5. ASSUME NEW r \in Readers, Read(r) PROVE UNCHANGED rt
  BY <1>5, ReaderLeavesBack DEF backVars
<1>6. CASE UNCHANGED vars
  BY <1>6 DEF vars
<1>. QED BY <1>1, <1>2, <1>3, <1>4, <1>5, <1>6 DEF Next

(* A reader goes to sleep in three steps of its own: the first sees that   *)
(* reading has not ended, the second that there is no report.              *)
LEMMA GoingToSleep ==
    ASSUME ReaderTypeOK, NEW r \in Readers, Read(r), NEW s \in Readers
    PROVE  /\ reader'[s] = "test" => reader[s] = "test" \/ (s = r /\ ~Over)
           /\ reader'[s] = "sleep" => reader[s] = "sleep" \/ (s = r /\ ReadTest(r))
           /\ reader'[s] = "wait" => reader[s] = "wait" \/ (s = r /\ reader[s] = "sleep")
<1>. USE DEF ReaderTypeOK, Over
<1>1. CASE hid_read(r) \/ hid_read_timeout(r) \/ ReadRefused(r)
  BY <1>1 DEF hid_read, hid_read_timeout, ReadRefused, ReadBegins, Moves
<1>2. CASE SpuriousWakeup(r) \/ ReadExpires(r) \/ ReadLocks(r) \/ ReadWakes(r)
  BY <1>2 DEF SpuriousWakeup, ReadExpires, ReadLocks, ReadWakes, Moves
<1>3. CASE ReadSleeps(r) \/ ReadUnlocks(r)
  BY <1>3 DEF ReadSleeps, ReadUnlocks, Moves
<1>4. CASE ReadFirstLook(r) \/ ReadRecheck(r)
  BY <1>4 DEF ReadFirstLook, ReadRecheck, Fails, Moves
<1>5. CASE ReadTest(r)
  BY <1>5 DEF ReadTest, Moves
<1>. QED BY <1>1, <1>2, <1>3, <1>4, <1>5 DEF Read, InCall

LEMMA SleepStep == IInv /\ [Next]_vars => SleepInv'
<1>. SUFFICES ASSUME IInv, [Next]_vars, BroadcastSent', NEW s \in Readers,
                     reader'[s] \in {"test", "sleep", "wait"}
              PROVE  FALSE
  BY DEF SleepInv, BroadcastSent
<1>1. ReaderTypeOK /\ MutexInv /\ SleepInv /\ FlagInv
  BY TypeParts DEF IInv, BarrierInv
<1>2. CASE RtBroadcast
  <2>1. reader[s] \in {"test", "sleep"}
    BY <1>1, <1>2 DEF RtBroadcast, ReaderTypeOK
  <2>2. mutex = s
    BY <1>1, <2>1 DEF MutexInv, Holding
  <2>. QED BY <1>2, <2>2, ReadersAssumption DEF RtBroadcast
<1>3. CASE BroadcastSent /\ ~RtBroadcast
  <2>1. Over /\ reader[s] \notin {"test", "sleep", "wait"} /\ rt # "callback"
    BY <1>1, <1>3 DEF SleepInv, FlagInv, BroadcastSent, Ending
  <2>2. CASE UNCHANGED readerVars
    BY <2>1, <2>2 DEF readerVars
  <2>3. CASE hid_report_callback
    BY <2>1, <2>3 DEF hid_report_callback
  <2>4. ASSUME NEW r \in Readers, Read(r) PROVE FALSE
    <3>1. reader'[s] \notin {"test", "wait"}
      BY <1>1, <2>1, <2>4, GoingToSleep
    <3>2. s = r /\ ReadTest(r)
      BY <1>1, <2>1, <2>4, <3>1, GoingToSleep
    <3>. QED BY <2>1, <3>2 DEF ReadTest, Moves
  <2>. QED BY <1>3, <2>2, <2>3, <2>4, ReaderVarsFrame
<1>. QED BY <1>2, <1>3, RtFrame

LEMMA EmptyStep == IInv /\ [Next]_vars => EmptyInv'
<1>. SUFFICES ASSUME IInv, [Next]_vars, NEW s \in Readers, reader'[s] = "sleep"
              PROVE  input_reports' = <<>>
  BY DEF EmptyInv
<1>1. ReaderTypeOK /\ MutexInv /\ EmptyInv
  BY TypeParts DEF IInv
<1>2. CASE hid_report_callback
  <2>1. reader[s] = "sleep"
    BY <1>1, <1>2 DEF hid_report_callback, Signal, ReaderTypeOK
  <2>. QED BY <1>1, <1>2, <2>1, ReadersAssumption DEF MutexInv, Holding, hid_report_callback
<1>3. CASE CloseDrains
  BY <1>3 DEF CloseDrains
<1>4. ASSUME NEW r \in Readers, Read(r) PROVE input_reports' = <<>>
  <2>1. CASE s = r /\ ReadTest(r)
    BY <1>1, <2>1 DEF ReadTest, Moves, ReaderTypeOK
  <2>2. CASE reader[s] = "sleep"
    <3>1. input_reports = <<>>
      BY <1>1, <2>2 DEF EmptyInv
    <3>. QED BY <1>4, <3>1 DEF Read, InCall, hid_read, hid_read_timeout, ReadRefused, ReadBegins,
      SpuriousWakeup, ReadLocks, ReadFirstLook, ReadTest, ReadSleeps, ReadExpires, ReadWakes,
      ReadRecheck, ReadUnlocks, Fails
  <2>. QED BY <1>1, <1>4, <2>1, <2>2, GoingToSleep
<1>5. CASE RtBroadcast
  BY <1>1, <1>5 DEF RtBroadcast, EmptyInv, ReaderTypeOK, queue
<1>6. CASE UNCHANGED readerVars /\ UNCHANGED queue
  BY <1>1, <1>6 DEF readerVars, queue, EmptyInv
<1>. QED BY <1>2, <1>3, <1>4, <1>5, <1>6, QueueFrame, ReaderVarsFrame

(***************************************************************************)
(* The invariant.                                                          *)
(***************************************************************************)
LEMMA InitInvariant == Init => IInv
<1>. SUFFICES ASSUME Init PROVE IInv
  OBVIOUS
<1>. USE DEF Init
<1>1. ThreadTypeOK
  BY DEF ThreadTypeOK, AppStates, ThreadStates
<1>2. FlagTypeOK
  BY DEF FlagTypeOK
<1>3. ReaderTypeOK
  BY DEF ReaderTypeOK, ReaderStates, Modes, Empty
<1>4. QueueTypeOK
  BY LimitAssumption DEF QueueTypeOK
<1>5. MutexInv
  BY ReadersAssumption DEF MutexInv, Holding
<1>6. BarrierInv
  BY DEF BarrierInv, OpenBarrierInv, ShutBarrierInv, FlagInv, Barriers, Opening, Starting,
    Leaving, Ending
<1>7. SleepInv /\ EmptyInv
  BY DEF SleepInv, EmptyInv, Ending
<1>. QED BY <1>1, <1>2, <1>3, <1>4, <1>5, <1>6, <1>7, TypeParts DEF IInv

LEMMA StepInvariant == IInv /\ [Next]_vars => IInv'
<1>. SUFFICES ASSUME IInv, [Next]_vars PROVE IInv'
  OBVIOUS
<1>1. ThreadTypeOK /\ FlagTypeOK /\ QueueTypeOK
  BY TypeParts DEF IInv
<1>2. ThreadTypeOK' /\ FlagTypeOK' /\ ReaderTypeOK' /\ QueueTypeOK'
  BY <1>1, ThreadTypeStep, FlagTypeStep, ReaderTypeStep, QueueTypeStep DEF IInv
<1>3. TypeOK'
  BY <1>2 DEF TypeOK, ThreadTypeOK, FlagTypeOK, ReaderTypeOK, QueueTypeOK
<1>4. MutexInv'
  BY MutexStep DEF IInv
<1>5. BarrierInv'
  BY <1>1, BarrierStep DEF IInv
<1>6. SleepInv' /\ EmptyInv'
  BY SleepStep, EmptyStep
<1>. QED BY <1>3, <1>4, <1>5, <1>6 DEF IInv

(* The inductive invariant holds in every reachable state. *)
THEOREM Invariance == Spec => []IInv
BY InitInvariant, StepInvariant, PTL DEF Spec

(* Type correctness, and with it the bound of the queue.                   *)
THEOREM TypeCorrect == Spec => []TypeOK
<1>1. IInv => TypeOK
  BY DEF IInv
<1>. QED BY <1>1, Invariance, PTL

(* The barrier of hid_open_path does its work: who has the device finds    *)
(* the run loop and the source that hid_close needs.                       *)
THEOREM OpenFindsRunLoop == Spec => []ThreadReadyWhenOpen
<1>1. IInv => ThreadReadyWhenOpen
  BY DEF IInv, BarrierInv, OpenBarrierInv, Opening, Starting, ThreadReadyWhenOpen
<1>. QED BY <1>1, Invariance, PTL

(* The barrier of hid_close does its work: the read thread is alive when   *)
(* hid_close signals its source and wakes its run loop.                    *)
THEOREM WokenRunLoopAlive == Spec => []RunLoopAliveWhenWoken
<1>1. IInv => RunLoopAliveWhenWoken
  BY DEF IInv, BarrierInv, ShutBarrierInv, Leaving, RunLoopAliveWhenWoken
<1>. QED BY <1>1, Invariance, PTL

(* No reader sleeps after the read thread's broadcast. *)
THEOREM NobodySleeps == Spec => []NoSleeperAfterBroadcast
<1>1. IInv => NoSleeperAfterBroadcast
  BY DEF IInv, SleepInv, Ending, NoSleeperAfterBroadcast
<1>. QED BY <1>1, Invariance, PTL

(***************************************************************************)
(* Reports and the readers that are on their way to take them.             *)
(***************************************************************************)
Awake == {"woken", "recheck", "test"}
OnTheWay == {r \in Readers : reader[r] \in Awake}
Sleeping == \E r \in Readers : reader[r] = "wait"
StrandedInv == ~Over /\ Sleeping => Len(input_reports) <= Cardinality(OnTheWay)

(* When one reader moves, the number on the way changes with it alone. *)
LEMMA CountMoved ==
    ASSUME ReaderTypeOK, NEW r \in Readers, NEW pc \in ReaderStates,
           reader' = [reader EXCEPT ![r] = pc]
    PROVE  /\ Cardinality(OnTheWay) \in Nat /\ Cardinality(OnTheWay)' \in Nat
           /\ (reader[r] \in Awake <=> pc \in Awake) =>
                Cardinality(OnTheWay)' = Cardinality(OnTheWay)
           /\ reader[r] \notin Awake /\ pc \in Awake =>
                Cardinality(OnTheWay)' = Cardinality(OnTheWay) + 1
           /\ reader[r] \in Awake /\ pc \notin Awake =>
                Cardinality(OnTheWay)' = Cardinality(OnTheWay) - 1
<1>1. IsFiniteSet(OnTheWay) /\ Cardinality(OnTheWay) \in Nat
  BY ReadersAssumption, FS_Subset, FS_CardinalityType DEF OnTheWay
<1>2. CASE reader[r] \in Awake <=> pc \in Awake
  <2>1. OnTheWay' = OnTheWay
    BY <1>2 DEF ReaderTypeOK, OnTheWay
  <2>. QED BY <1>1, <1>2, <2>1
<1>3. CASE reader[r] \notin Awake /\ pc \in Awake
  <2>1. OnTheWay' = OnTheWay \cup {r} /\ r \notin OnTheWay
    BY <1>3 DEF ReaderTypeOK, OnTheWay
  <2>2. Cardinality(OnTheWay)' = Cardinality(OnTheWay) + 1
    BY <1>1, <2>1, FS_AddElement
  <2>. QED BY <1>1, <1>3, <2>2
<1>4. CASE reader[r] \in Awake /\ pc \notin Awake
  <2>1. OnTheWay' = OnTheWay \ {r} /\ r \in OnTheWay
    BY <1>4 DEF ReaderTypeOK, OnTheWay
  <2>2. Cardinality(OnTheWay)' = Cardinality(OnTheWay) - 1 /\ Cardinality(OnTheWay)' \in Nat
    BY <1>1, <2>1, FS_RemoveElement, FS_CardinalityType
  <2>. QED BY <1>1, <1>4, <2>2
<1>. QED BY <1>2, <1>3, <1>4

(* Nothing revives a device that is being closed or gone. *)
LEMMA FlagsStay == TypeOK /\ [Next]_vars => (Over => Over')
<1>. SUFFICES ASSUME FlagTypeOK, [Next]_vars, Over PROVE Over'
  BY TypeParts
<1>. USE DEF Over, FlagTypeOK, flags
<1>1. CASE Open
  BY <1>1 DEF Open, ThreadCreate, OpenArrives, OpenReturns
<1>2. CASE read_thread
  BY <1>2 DEF read_thread, RtSetup, RtArrives, RtLeavesBarrier, RtLoop, RtTimesOut, RtStopped,
    RtBroadcast, RtShutArrives, RtExits, RunLoop,
    hid_device_removal_callback, perform_signal_callback, ReportDispatched, hid_report_callback
<1>3. CASE Unplug \/ hid_set_nonblocking
  BY <1>3 DEF Unplug, hid_set_nonblocking
<1>4. CASE hid_close
  BY <1>4 DEF hid_close, CloseUnderWay, CloseUnregisters, CloseShutsDown, CloseSignals, CloseWakesUp,
    CloseArrives, CloseLeavesBarrier, CloseJoins, CloseHandle, CloseDrains
<1>5. ASSUME NEW r \in Readers, Read(r) PROVE UNCHANGED flags
  BY <1>5, ReaderLeavesBack DEF backVars
<1>6. CASE UNCHANGED vars
  BY <1>6 DEF vars
<1>. QED BY <1>1, <1>2, <1>3, <1>4, <1>5, <1>6 DEF Next

(* What a reader's step means for the count: it leaves the way, and the    *)
(* list, alone or only adds to the way; it takes a report; or the list is  *)
(* empty.                                                                  *)
LEMMA ReadMoves ==
    ASSUME ReaderTypeOK, EmptyInv, ~Over, NEW r \in Readers, Read(r)
    PROVE  \/ UNCHANGED <<reader, input_reports>>
           \/ \E pc \in ReaderStates \ {"wait"} :
                /\ reader' = [reader EXCEPT ![r] = pc] /\ UNCHANGED input_reports
                /\ reader[r] \in Awake => pc \in Awake
           \/ /\ input_reports # <<>> /\ input_reports' = Tail(input_reports)
              /\ reader' = [reader EXCEPT ![r] = "unlock"]
           \/ /\ input_reports = <<>> /\ input_reports' = <<>>
              /\ \E pc \in {"sleep", "wait"} : reader' = [reader EXCEPT ![r] = pc]
<1>. USE DEF ReaderTypeOK, ReaderStates, Over, Awake
<1>1. CASE hid_read(r) \/ hid_read_timeout(r) \/ ReadRefused(r)
  BY <1>1 DEF hid_read, hid_read_timeout, ReadRefused, ReadBegins, Moves
<1>2. CASE SpuriousWakeup(r) \/ ReadExpires(r) \/ ReadLocks(r) \/ ReadWakes(r)
  BY <1>2 DEF SpuriousWakeup, ReadExpires, ReadLocks, ReadWakes, Moves
<1>3. CASE ReadSleeps(r) \/ ReadUnlocks(r)
  BY <1>3 DEF ReadSleeps, ReadUnlocks, Moves, EmptyInv
<1>4. CASE ReadFirstLook(r)
  BY <1>4 DEF ReadFirstLook, TakeReport, ReturnData, Fails, Moves
<1>5. CASE ReadRecheck(r)
  BY <1>5 DEF ReadRecheck, Fails, Moves
<1>6. CASE ReadTest(r)
  BY <1>6 DEF ReadTest, TakeReport, ReturnData, Moves
<1>. QED BY <1>1, <1>2, <1>3, <1>4, <1>5, <1>6 DEF Read, InCall

LEMMA StrandedStep == IInv /\ StrandedInv /\ [Next]_vars => StrandedInv'
<1>. SUFFICES ASSUME IInv, StrandedInv, [Next]_vars, ~Over', Sleeping'
              PROVE  Len(input_reports)' <= Cardinality(OnTheWay)'
  BY DEF StrandedInv
<1>1. ~Over
  BY FlagsStay DEF IInv
<1>2. /\ TypeOK /\ ReaderTypeOK /\ QueueTypeOK /\ EmptyInv /\ FlagInv
      /\ Len(input_reports) \in Nat /\ Cardinality(OnTheWay) \in Nat
  BY TypeParts, ReadersAssumption, FS_Subset, FS_CardinalityType
  DEF IInv, BarrierInv, OnTheWay, QueueTypeOK
<1>3. CASE UNCHANGED <<reader, input_reports>>
  <2>1. OnTheWay' = OnTheWay /\ Sleeping
    BY <1>3 DEF OnTheWay, Sleeping
  <2>. QED BY <1>1, <1>3, <2>1 DEF StrandedInv
<1>4. CASE RtBroadcast
  BY <1>1, <1>2, <1>4 DEF RtBroadcast, FlagInv, Ending
<1>5. CASE hid_report_callback
  <2>1. PICK r \in Readers : reader[r] = "wait" /\ reader' = [reader EXCEPT ![r] = "woken"]
    BY <1>5 DEF hid_report_callback, Signal, Sleeping
  <2>2. Cardinality(OnTheWay)' = Cardinality(OnTheWay) + 1
    BY <1>2, <2>1, CountMoved DEF ReaderStates, Awake
  <2>3. Len(input_reports) <= Cardinality(OnTheWay)
    BY <1>1, <2>1 DEF StrandedInv, Sleeping
  <2>4. Len(input_reports)' <= Len(input_reports) + 1 /\ Len(input_reports)' \in Nat
    BY <1>2, <1>5, EnqueuedFacts DEF hid_report_callback, QueueTypeOK
  <2>. QED BY <1>2, <2>2, <2>3, <2>4
<1>6. CASE CloseDrains
  <2>1. input_reports' = <<>> /\ OnTheWay' = OnTheWay
    BY <1>6 DEF CloseDrains, OnTheWay, readerVars
  <2>. QED BY <1>2, <2>1
<1>7. ASSUME NEW r \in Readers, Read(r)
      PROVE  Len(input_reports)' <= Cardinality(OnTheWay)'
  <2>1. CASE \E pc \in ReaderStates \ {"wait"} :
                /\ reader' = [reader EXCEPT ![r] = pc] /\ UNCHANGED input_reports
                /\ reader[r] \in Awake => pc \in Awake
    <3>1. PICK pc \in ReaderStates \ {"wait"} :
                /\ reader' = [reader EXCEPT ![r] = pc] /\ UNCHANGED input_reports
                /\ reader[r] \in Awake => pc \in Awake
      BY <2>1
    <3>2. Sleeping
      BY <1>2, <3>1 DEF Sleeping, ReaderTypeOK
    <3>3. Cardinality(OnTheWay)' >= Cardinality(OnTheWay) /\ Cardinality(OnTheWay)' \in Nat
      <4>1. /\ Cardinality(OnTheWay)' \in Nat
            /\ \/ Cardinality(OnTheWay)' = Cardinality(OnTheWay)
               \/ Cardinality(OnTheWay)' = Cardinality(OnTheWay) + 1
        BY <1>2, <3>1, CountMoved
      <4>. QED BY <1>2, <4>1
    <3>. QED BY <1>1, <1>2, <3>1, <3>2, <3>3 DEF StrandedInv
  <2>2. CASE /\ input_reports # <<>> /\ input_reports' = Tail(input_reports)
             /\ reader' = [reader EXCEPT ![r] = "unlock"]
    <3>1. Sleeping
      BY <1>2, <2>2 DEF Sleeping, ReaderTypeOK
    <3>2. Cardinality(OnTheWay)' >= Cardinality(OnTheWay) - 1 /\ Cardinality(OnTheWay)' \in Nat
      <4>1. /\ Cardinality(OnTheWay)' \in Nat
            /\ \/ Cardinality(OnTheWay)' = Cardinality(OnTheWay)
               \/ Cardinality(OnTheWay)' = Cardinality(OnTheWay) - 1
        BY <1>2, <2>2, CountMoved DEF ReaderStates, Awake
      <4>. QED BY <1>2, <4>1
    <3>3. Len(input_reports)' = Len(input_reports) - 1
      BY <1>2, <2>2 DEF QueueTypeOK
    <3>. QED BY <1>1, <1>2, <3>1, <3>2, <3>3 DEF StrandedInv
  <2>3. CASE /\ input_reports = <<>> /\ input_reports' = <<>>
             /\ \E pc \in {"sleep", "wait"} : reader' = [reader EXCEPT ![r] = pc]
    <3>1. Cardinality(OnTheWay)' \in Nat
      BY <1>2, <2>3, CountMoved DEF ReaderStates, Awake
    <3>. QED BY <2>3, <3>1
  <2>. QED BY <1>1, <1>2, <1>3, <1>7, <2>1, <2>2, <2>3, ReadMoves
<1>. QED BY <1>3, <1>4, <1>5, <1>6, <1>7, QueueFrame, ReaderVarsFrame DEF readerVars, queue

(* With a signal for each report no wakeup is lost: while a reader sleeps, *)
(* there is a woken reader for every report in the list.                   *)
THEOREM NobodyStranded == Spec => []NoReportStranded
<1>1. Init => StrandedInv
  BY DEF Init, StrandedInv, Sleeping
<1>2. IInv /\ StrandedInv /\ [Next]_vars => StrandedInv'
  BY StrandedStep
<1>3. StrandedInv => NoReportStranded
  BY DEF StrandedInv, NoReportStranded, Sleeping, OnTheWay, Awake, Over
<1>. QED BY <1>1, <1>2, <1>3, Invariance, PTL DEF Spec

(***************************************************************************)
(* The refinement of InputQueue.                                           *)
(***************************************************************************)

(* Inside a call bytes_read is still -1, and only timed waits expire. *)
CallInv == \A r \in Readers :
    /\ ~Decided(r) => result[r] = Error
    /\ reader[r] = "expired" => mode[r] = "timeout"

LEMMA CallStep == TypeOK /\ CallInv /\ [Next]_vars => CallInv'
<1>. SUFFICES ASSUME ReaderTypeOK, CallInv, [Next]_vars PROVE CallInv'
  BY TypeParts
<1>. USE DEF CallInv, ReaderTypeOK, Decided
<1>1. CASE UNCHANGED readerVars
  BY <1>1 DEF readerVars
<1>2. CASE RtBroadcast
  BY <1>2 DEF RtBroadcast
<1>3. CASE hid_report_callback
  BY <1>3 DEF hid_report_callback, Signal
<1>4. ASSUME NEW r \in Readers, Read(r) PROVE CallInv'
  <2>1. CASE hid_read(r) \/ hid_read_timeout(r) \/ ReadRefused(r)
    BY <2>1 DEF hid_read, hid_read_timeout, ReadRefused, ReadBegins, Moves
  <2>2. CASE SpuriousWakeup(r) \/ ReadExpires(r) \/ ReadLocks(r) \/ ReadWakes(r)
    BY <2>2 DEF SpuriousWakeup, ReadExpires, ReadLocks, ReadWakes, Moves
  <2>3. CASE ReadSleeps(r) \/ ReadUnlocks(r)
    BY <2>3 DEF ReadSleeps, ReadUnlocks, Moves
  <2>4. CASE ReadFirstLook(r)
    BY <2>4 DEF ReadFirstLook, TakeReport, Fails, Moves
  <2>5. CASE ReadTest(r)
    BY <2>5 DEF ReadTest, TakeReport, Moves
  <2>6. CASE ReadRecheck(r)
    BY <2>6 DEF ReadRecheck, Fails, Moves
  <2>. QED BY <1>4, <2>1, <2>2, <2>3, <2>4, <2>5, <2>6 DEF Read, InCall
<1>. QED BY <1>1, <1>2, <1>3, <1>4, ReaderVarsFrame

(* The state of the promise. *)
absRunning == ~shutdown_thread /\ ~disconnected
absCall == [r \in Readers |-> IF Decided(r) THEN "none" ELSE mode[r]]
absResult == [r \in Readers |-> IF Decided(r) THEN result[r] ELSE Empty]

LEMMA AbsFacts ==
    /\ Abstract!vars = <<input_reports, sent, absRunning, absCall, absResult>>
    /\ Abstract!Empty = Empty /\ Abstract!Error = Error /\ Abstract!Modes = Modes
BY DEF Abstract!vars, Abstract!Empty, Abstract!Error, Abstract!Modes, absRunning, absCall,
       absResult, Empty, Error, Modes

(* Steps of the threads other than the readers. *)
LEMMA OthersImplement ==
    ASSUME IInv, [Next]_vars, \A r \in Readers : ~Read(r)
    PROVE  [Abstract!Next]_(Abstract!vars)
<1>1. /\ TypeOK /\ ReaderTypeOK /\ QueueTypeOK
      /\ OpenBarrierInv /\ ShutBarrierInv /\ FlagInv
  BY TypeParts DEF IInv, BarrierInv
<1>2. CASE hid_report_callback
  <2>1. UNCHANGED <<absCall, absResult, flags>>
    BY <1>1, <1>2 DEF hid_report_callback, Signal, absCall, absResult, Decided, ReaderTypeOK
  <2>2. /\ sent' = sent + 1
        /\ input_reports' = IF Len(input_reports) < Limit + 2
                            THEN Append(input_reports, sent + 1)
                            ELSE Append(Tail(input_reports), sent + 1)
    <3>1. /\ input_reports \in Seq(Nat) /\ Len(input_reports) <= Limit + 2
          /\ sent + 1 \in Nat
      BY <1>1 DEF QueueTypeOK
    <3>2. Enqueued(input_reports, sent + 1) = IF Len(input_reports) < Limit + 2
                                              THEN Append(input_reports, sent + 1)
                                              ELSE Append(Tail(input_reports), sent + 1)
      BY <3>1, EnqueuedFacts
    <3>. QED BY <1>2, <3>2 DEF hid_report_callback
  <2>3. Abstract!Arrive
    BY <2>1, <2>2 DEF Abstract!Arrive, absCall, absResult, flags
  <2>. QED BY <2>3 DEF Abstract!Next
<1>3. CASE RtBroadcast
  <2>1. UNCHANGED <<absCall, absResult, flags, input_reports, sent>>
    BY <1>1, <1>3 DEF RtBroadcast, absCall, absResult, Decided, ReaderTypeOK, queue
  <2>. QED BY <2>1, AbsFacts DEF Abstract!vars, absCall, absResult, flags
<1>4. CASE CloseDrains
  <2>1. shutdown_thread
    BY <1>1, <1>4 DEF CloseDrains, FlagInv, Opening
  <2>2. UNCHANGED <<absCall, absResult, flags, sent>> /\ input_reports' = <<>>
    BY <1>4 DEF CloseDrains, absCall, absResult, Decided, readerVars
  <2>3. Abstract!Discard
    BY <2>1, <2>2 DEF Abstract!Discard, absCall, absResult, flags
  <2>. QED BY <2>3 DEF Abstract!Next
<1>5. CASE UNCHANGED readerVars /\ UNCHANGED queue
  <2>1. UNCHANGED <<absCall, absResult, input_reports, sent>>
    BY <1>5 DEF absCall, absResult, Decided, readerVars, queue
  <2>2. CASE ~absRunning'
    <3>1. Abstract!Stop
      BY <2>1, <2>2 DEF Abstract!Stop, absRunning, absCall, absResult
    <3>. QED BY <3>1 DEF Abstract!Next
  <2>3. CASE absRunning'
    <3>1. absRunning' = absRunning
      BY <1>1, <2>3, FlagsStay DEF absRunning, Over
    <3>. QED BY <2>1, <3>1, AbsFacts DEF Abstract!vars, absRunning, absCall, absResult
  <2>. QED BY <2>2, <2>3
<1>. QED BY <1>2, <1>3, <1>4, <1>5, QueueFrame, ReaderVarsFrame

(* The three ways a call is decided, and the steps that decide nothing,    *)
(* as steps on the state of the promise.                                   *)
Undecided(r) ==
    /\ Decided(r)' <=> Decided(r)
    /\ UNCHANGED <<mode, result, input_reports>>
    /\ \E pc \in ReaderStates : reader' = [reader EXCEPT ![r] = pc]

Decides(r, v) ==
    /\ ~Decided(r) /\ reader' = [reader EXCEPT ![r] = "unlock"]
    /\ result' = [result EXCEPT ![r] = v]
    /\ UNCHANGED mode

LEMMA ReadStepKinds ==
    ASSUME ReaderTypeOK, CallInv, NEW r \in Readers, InCall(r) \/ SpuriousWakeup(r)
    PROVE  \/ Undecided(r)
           \/ /\ input_reports # <<>> /\ input_reports' = Tail(input_reports)
              /\ Decides(r, Head(input_reports))
           \/ /\ mode[r] # "blocking"
              /\ mode[r] = "nonblocking" => input_reports = <<>>
              /\ UNCHANGED input_reports /\ Decides(r, Empty)
           \/ /\ Over /\ UNCHANGED input_reports /\ Decides(r, Error)
<1>. USE DEF ReaderTypeOK, CallInv, Undecided, Decides, Decided, Moves, ReaderStates
<1>1. CASE ReadLocks(r)
  BY <1>1 DEF ReadLocks
<1>2. CASE ReadFirstLook(r)
  BY <1>2 DEF ReadFirstLook, TakeReport, ReturnData, Fails, Modes, Over
<1>3. CASE ReadTest(r)
  BY <1>3 DEF ReadTest, TakeReport, ReturnData
<1>4. CASE ReadSleeps(r)
  BY <1>4 DEF ReadSleeps
<1>5. CASE ReadExpires(r)
  BY <1>5 DEF ReadExpires
<1>6. CASE ReadWakes(r)
  BY <1>6 DEF ReadWakes
<1>7. CASE ReadRecheck(r)
  BY <1>7 DEF ReadRecheck, Fails, Over
<1>8. CASE ReadUnlocks(r)
  BY <1>8 DEF ReadUnlocks
<1>9. CASE SpuriousWakeup(r)
  BY <1>9 DEF SpuriousWakeup
<1>. QED BY <1>1, <1>2, <1>3, <1>4, <1>5, <1>6, <1>7, <1>8, <1>9 DEF InCall

LEMMA DecidesAbstract ==
    ASSUME ReaderTypeOK, NEW r \in Readers, NEW v, Decides(r, v)
    PROVE  /\ absCall[r] # "none"
           /\ absCall' = [absCall EXCEPT ![r] = "none"]
           /\ absResult' = [absResult EXCEPT ![r] = v]
           /\ absCall[r] = mode[r]
BY DEF ReaderTypeOK, Decides, Decided, absCall, absResult, Modes

LEMMA ReadersImplement ==
    ASSUME IInv, CallInv, NEW r \in Readers, Read(r)
    PROVE  [Abstract!Next]_(Abstract!vars)
<1>1. ReaderTypeOK
  BY TypeParts DEF IInv
<1>2. UNCHANGED <<sent, shutdown_thread, disconnected>>
  BY ReaderLeavesBack DEF backVars, flags
<1>3. ASSUME NEW m \in Modes, ReadBegins(r, m) PROVE Abstract!Begin(r, m)
  BY <1>1, <1>2, <1>3 DEF Abstract!Begin, Abstract!Empty, Empty, ReadBegins, Moves, Decided, ReaderTypeOK
<1>4. CASE hid_read(r) \/ hid_read_timeout(r)
  <2>1. PICK m \in Modes : ReadBegins(r, m)
    BY <1>4 DEF hid_read, hid_read_timeout, Modes
  <2>2. Abstract!Begin(r, m)
    BY <1>3, <2>1
  <2>. QED BY <2>2 DEF Abstract!Next, Abstract!Modes, Modes
<1>5. CASE ReadRefused(r)
  <2>1. Abstract!Refuse(r)
    BY <1>1, <1>2, <1>5 DEF Abstract!Refuse, Abstract!Error, Error, ReadRefused, Decided, ReaderTypeOK
  <2>. QED BY <2>1 DEF Abstract!Next
<1>6. CASE InCall(r) \/ SpuriousWakeup(r)
  <2>1. CASE Undecided(r)
    <3>1. UNCHANGED <<absCall, absResult, input_reports>>
      BY <1>1, <2>1 DEF Undecided, Decided, absCall, absResult, ReaderTypeOK
    <3>. QED BY <1>2, <3>1, AbsFacts DEF Abstract!vars, absRunning, absCall, absResult
  <2>2. CASE /\ input_reports # <<>> /\ input_reports' = Tail(input_reports)
             /\ Decides(r, Head(input_reports))
    <3>1. Abstract!ReturnReport(r)
      BY <1>1, <1>2, <2>2, DecidesAbstract
      DEF Abstract!ReturnReport, Abstract!Return, absCall, absResult
    <3>. QED BY <3>1 DEF Abstract!Next
  <2>3. CASE /\ mode[r] # "blocking"
             /\ mode[r] = "nonblocking" => input_reports = <<>>
             /\ UNCHANGED input_reports /\ Decides(r, Empty)
    <3>1. Abstract!ReturnEmpty(r)
      BY <1>1, <1>2, <2>3, DecidesAbstract
      DEF Abstract!ReturnEmpty, Abstract!Return, Abstract!Empty, Empty, absCall, absResult
    <3>. QED BY <3>1 DEF Abstract!Next
  <2>4. CASE Over /\ UNCHANGED input_reports /\ Decides(r, Error)
    <3>1. Abstract!ReturnError(r)
      BY <1>1, <1>2, <2>4, DecidesAbstract
      DEF Abstract!ReturnError, Abstract!Return, Abstract!Error, Error, Over, absCall, absResult
    <3>. QED BY <3>1 DEF Abstract!Next
  <2>. QED BY <1>1, <1>6, <2>1, <2>2, <2>3, <2>4, ReadStepKinds
<1>. QED BY <1>4, <1>5, <1>6 DEF Read

(* The input path keeps the promise of InputQueue with a capacity of       *)
(* Limit + 2 reports: FIFO, each report to one reader, only the oldest     *)
(* given up and only when full, and -1 only once the device is gone or     *)
(* being closed (which on this backend may overtake reports).              *)
THEOREM Refinement == Spec => ImplementsInputQueue
<1>1. Init => Abstract!Init
  BY DEF Init, Abstract!Init, Abstract!Empty, Empty, Decided
<1>2. Init => CallInv
  BY DEF Init, CallInv, Decided
<1>3. IInv /\ CallInv /\ [Next]_vars => CallInv'
  BY CallStep DEF IInv
<1>4. IInv /\ CallInv /\ [Next]_vars => [Abstract!Next]_(Abstract!vars)
  BY OthersImplement, ReadersImplement
<1>. QED BY <1>1, <1>2, <1>3, <1>4, Invariance, PTL
     DEF Spec, ImplementsInputQueue, Abstract!Spec

(***************************************************************************)
(* What follows from the promise: no report is handed out twice or out of  *)
(* order.  The queue holds reports that arrived, each newer than the one   *)
(* before it.                                                              *)
(***************************************************************************)
Increasing(q, n) ==
    /\ n \in Nat /\ q \in Seq(1..n)
    /\ \A i, j \in 1..Len(q) : i < j => q[i] < q[j]

OldestOf(q, n) == IF q = <<>> THEN n + 1 ELSE Head(q)

(* A report that arrives is the newest one, in a queue that may be empty.  *)
LEMMA AppendOrder ==
    ASSUME NEW n, NEW q, Increasing(q, n)
    PROVE  /\ Increasing(Append(q, n + 1), n + 1)
           /\ OldestOf(q, n) <= OldestOf(Append(q, n + 1), n + 1)
           /\ OldestOf(q, n) \in Nat
<1>1. n \in Nat /\ q \in Seq(1..n) /\ Len(q) \in Nat
  BY DEF Increasing
<1>2. \A i \in 1..Len(q) : q[i] \in 1..n
  BY <1>1
<1>3. DEFINE a == Append(q, n + 1)
<1>4. a \in Seq(1..(n + 1)) /\ Len(a) = Len(q) + 1 /\ a[Len(q) + 1] = n + 1
      /\ \A i \in 1..Len(q) : a[i] = q[i]
  BY <1>1, <1>2
<1>5. \A i, j \in 1..Len(a) : i < j => a[i] < a[j]
  <2>1. TAKE i, j \in 1..Len(a)
  <2>2. HAVE i < j
  <2>3. i \in 1..Len(q) /\ a[i] = q[i] /\ q[i] \in 1..n
    BY <1>1, <1>2, <1>4, <2>2
  <2>4. CASE j = Len(q) + 1
    BY <1>1, <1>4, <2>3, <2>4
  <2>5. CASE j \in 1..Len(q)
    BY <1>4, <2>2, <2>3, <2>5 DEF Increasing
  <2>. QED BY <1>1, <1>4, <2>4, <2>5
<1>6. Increasing(a, n + 1)
  <2>1. n + 1 \in Nat
    BY <1>1
  <2>. HIDE DEF a
  <2>. QED BY <2>1, <1>4, <1>5 DEF Increasing
<1>7. OldestOf(q, n) \in Nat /\ OldestOf(q, n) <= OldestOf(a, n + 1)
  <2>1. CASE q = <<>>
    <3>1. a # <<>> /\ Head(a) = n + 1
      BY <1>1, <1>4, <2>1
    <3>. QED BY <1>1, <2>1, <3>1 DEF OldestOf
  <2>2. CASE q # <<>>
    <3>1. a # <<>> /\ Head(a) = Head(q) /\ Head(q) \in 1..n
      BY <1>1, <1>2, <1>4, <2>2
    <3>. QED BY <1>1, <2>2, <3>1 DEF OldestOf
  <2>. QED BY <2>1, <2>2
<1>. QED BY <1>6, <1>7

(* Without its first report the queue begins with a newer one.             *)
LEMMA TailOrder ==
    ASSUME NEW n, NEW q, Increasing(q, n), q # <<>>
    PROVE  /\ Increasing(Tail(q), n)
           /\ OldestOf(q, n) = Head(q) /\ Head(q) \in Nat
           /\ Head(q) < OldestOf(Tail(q), n)
           /\ OldestOf(Tail(q), n) \in Nat
<1>1. n \in Nat /\ q \in Seq(1..n) /\ Len(q) \in Nat \ {0}
  BY DEF Increasing
<1>2. Tail(q) \in Seq(1..n) /\ Len(Tail(q)) = Len(q) - 1
      /\ \A i \in 1..Len(Tail(q)) : Tail(q)[i] = q[i + 1]
  BY <1>1
<1>3. Head(q) = q[1] /\ q[1] \in 1..n
  BY <1>1
<1>4. Increasing(Tail(q), n)
  BY <1>1, <1>2 DEF Increasing
<1>5. CASE Tail(q) = <<>>
  BY <1>1, <1>3, <1>4, <1>5 DEF OldestOf
<1>6. CASE Tail(q) # <<>>
  <2>1. Len(Tail(q)) \in Nat \ {0}
    BY <1>2, <1>6
  <2>2. Head(Tail(q)) = q[2] /\ 2 \in 1..Len(q) /\ 1 \in 1..Len(q) /\ q[2] \in 1..n
    BY <1>1, <1>2, <2>1
  <2>3. q[1] < q[2]
    BY <2>2 DEF Increasing
  <2>. QED BY <1>1, <1>3, <1>4, <1>6, <2>2, <2>3, SMTT(30) DEF OldestOf
<1>. QED BY <1>5, <1>6

OrderInv == Increasing(input_reports, sent)

(* An arrival, even one that gives up the oldest report.                   *)
LEMMA ArriveInOrder ==
    ASSUME OrderInv, Abstract!Arrive
    PROVE  OrderInv' /\ Abstract!Oldest <= Abstract!Oldest'
<1>1. Abstract!Oldest = OldestOf(input_reports, sent)
  BY DEF Abstract!Oldest, OldestOf
<1>2. Abstract!Oldest' = OldestOf(input_reports', sent')
  BY DEF Abstract!Oldest, OldestOf
<1>3. CASE input_reports' = Append(input_reports, sent + 1)
  BY <1>1, <1>2, <1>3, AppendOrder DEF OrderInv, Abstract!Arrive
<1>4. CASE input_reports' = Append(Tail(input_reports), sent + 1) /\ input_reports # <<>>
  <2>1. /\ Increasing(Tail(input_reports), sent)
        /\ OldestOf(input_reports, sent) = Head(input_reports)
        /\ Head(input_reports) \in Nat
        /\ Head(input_reports) < OldestOf(Tail(input_reports), sent)
        /\ OldestOf(Tail(input_reports), sent) \in Nat
    BY <1>4, TailOrder DEF OrderInv
  <2>2. Increasing(input_reports', sent')
        /\ OldestOf(Tail(input_reports), sent) <= OldestOf(input_reports', sent')
    BY <1>4, <2>1, AppendOrder DEF Abstract!Arrive
  <2>3. OldestOf(input_reports', sent') \in Nat
    BY <2>2, AppendOrder
  <2>. QED BY <1>1, <1>2, <2>1, <2>2, <2>3 DEF OrderInv
<1>5. input_reports = <<>> => Len(input_reports) < Limit + 2
  BY LimitAssumption
<1>. QED BY <1>3, <1>4, <1>5 DEF Abstract!Arrive

(* The readers of the promise, as functions.                               *)
LEMMA HandedOutSeen ==
    ASSUME NEW r \in Readers
    PROVE  /\ Abstract!HandedOut(r) <=>
                absCall[r] # "none" /\ absCall'[r] = "none" /\ absResult'[r] > 0
           /\ DOMAIN absCall = Readers /\ DOMAIN absResult = Readers
           /\ [s \in Readers |-> IF Decided(s) THEN result[s] ELSE Empty]'[r] = absResult'[r]
BY DEF Abstract!HandedOut, absCall, absResult

(* The report that is handed out is older than all that are left.          *)
LEMMA ReturnInOrder ==
    ASSUME OrderInv, NEW r \in Readers, Abstract!ReturnReport(r)
    PROVE  OrderInv' /\ Abstract!HandsOutInOrder
<1>1. Abstract!Oldest = OldestOf(input_reports, sent)
  BY DEF Abstract!Oldest, OldestOf
<1>2. Abstract!Oldest' = OldestOf(input_reports', sent')
  BY DEF Abstract!Oldest, OldestOf
<1>3. /\ Increasing(input_reports', sent')
      /\ Abstract!Oldest = Head(input_reports) /\ Head(input_reports) \in Nat
      /\ Head(input_reports) < Abstract!Oldest' /\ Abstract!Oldest' \in Nat
  BY <1>1, <1>2, TailOrder DEF OrderInv, Abstract!ReturnReport, Abstract!Return
<1>4. /\ absCall' = [absCall EXCEPT ![r] = "none"]
      /\ absResult' = [absResult EXCEPT ![r] = Head(input_reports)]
  BY DEF Abstract!ReturnReport, Abstract!Return, absCall, absResult
<1>5. ASSUME NEW s \in Readers, Abstract!HandedOut(s)
      PROVE  s = r
  BY <1>4, <1>5, HandedOutSeen
<1>6. absResult'[r] = Head(input_reports)
  BY <1>4, HandedOutSeen
<1>7. ASSUME NEW s \in Readers, Abstract!HandedOut(s)
      PROVE  /\ Abstract!Oldest <= [t \in Readers |-> IF Decided(t) THEN result[t] ELSE Empty]'[s]
             /\ [t \in Readers |-> IF Decided(t) THEN result[t] ELSE Empty]'[s] < Abstract!Oldest'
             /\ \A t \in Readers \ {s} : ~Abstract!HandedOut(t)
  BY <1>3, <1>5, <1>6, <1>7, HandedOutSeen
<1>8. Abstract!Oldest <= Abstract!Oldest'
  BY <1>3
<1>. QED BY <1>3, <1>7, <1>8 DEF OrderInv, Abstract!HandsOutInOrder

(* Nobody gets a report by the other steps of readers. *)
LEMMA NothingHandedOut ==
    ASSUME NEW r \in Readers,
           \/ \E m \in Abstract!Modes : Abstract!Begin(r, m)
           \/ Abstract!Refuse(r) \/ Abstract!ReturnEmpty(r) \/ Abstract!ReturnError(r)
    PROVE  \A s \in Readers : ~Abstract!HandedOut(s)
<1>. SUFFICES ASSUME NEW s \in Readers, absCall[s] # "none", absCall'[s] = "none"
              PROVE  ~(absResult'[s] > 0)
  BY HandedOutSeen
<1>1. ASSUME NEW m \in Abstract!Modes, Abstract!Begin(r, m) PROVE FALSE
  <2>1. absCall[r] = "none" /\ absCall' = [absCall EXCEPT ![r] = m]
    BY <1>1 DEF Abstract!Begin, absCall
  <2>. QED BY <2>1, HandedOutSeen
<1>2. CASE Abstract!Refuse(r)
  <2>1. absCall' = absCall
    BY <1>2 DEF Abstract!Refuse, absCall
  <2>. QED BY <2>1
<1>3. ASSUME NEW v \in {Empty, Error}, Abstract!Return(r, v) PROVE ~(absResult'[s] > 0)
  <2>1. /\ absCall' = [absCall EXCEPT ![r] = "none"]
        /\ absResult' = [absResult EXCEPT ![r] = v]
    BY <1>3 DEF Abstract!Return, absCall, absResult
  <2>2. s = r /\ absResult'[s] = v
    BY <2>1, HandedOutSeen
  <2>. QED BY <2>2 DEF Empty, Error
<1>. QED BY <1>1, <1>2, <1>3, AbsFacts DEF Abstract!ReturnEmpty, Abstract!ReturnError

(* Steps that hand out nothing leave the queue or empty it.                *)
LEMMA OthersInOrder ==
    ASSUME OrderInv, sent' = sent, input_reports' \in {input_reports, <<>>},
           \A s \in Readers : ~Abstract!HandedOut(s)
    PROVE  OrderInv' /\ Abstract!HandsOutInOrder
<1>1. OldestOf(input_reports, sent) \in Nat /\ sent \in Nat /\ OldestOf(input_reports, sent) <= sent + 1
  <2>1. CASE input_reports = <<>>
    BY <2>1 DEF OrderInv, Increasing, OldestOf
  <2>2. CASE input_reports # <<>>
    <3>1. Head(input_reports) \in 1..sent
      BY <2>2 DEF OrderInv, Increasing
    <3>. QED BY <2>2, <3>1 DEF OrderInv, Increasing, OldestOf
  <2>. QED BY <2>1, <2>2
<1>2. Abstract!Oldest <= Abstract!Oldest'
  BY <1>1 DEF Abstract!Oldest, OldestOf
<1>3. Increasing(<<>>, sent)
  BY <1>1 DEF Increasing
<1>. QED BY <1>2, <1>3 DEF OrderInv, Abstract!HandsOutInOrder

(* The order of the queue is inductive, and every step hands out in order. *)
LEMMA OrderStep ==
    OrderInv /\ [Abstract!Next]_(Abstract!vars)
        => OrderInv' /\ [Abstract!HandsOutInOrder]_(Abstract!vars)
<1>. SUFFICES ASSUME OrderInv, [Abstract!Next]_(Abstract!vars)
              PROVE  OrderInv' /\ [Abstract!HandsOutInOrder]_(Abstract!vars)
  OBVIOUS
<1>1. CASE UNCHANGED Abstract!vars
  BY <1>1 DEF Abstract!vars, OrderInv
<1>2. CASE Abstract!Arrive
  <2>1. \A s \in Readers : ~Abstract!HandedOut(s)
    <3>1. absCall' = absCall
      BY <1>2 DEF Abstract!Arrive, absCall
    <3>. QED BY <3>1, HandedOutSeen
  <2>. QED BY <1>2, <2>1, ArriveInOrder DEF Abstract!HandsOutInOrder
<1>3. CASE Abstract!Stop \/ Abstract!Discard
  <2>1. \A s \in Readers : ~Abstract!HandedOut(s)
    <3>1. absCall' = absCall
      BY <1>3 DEF Abstract!Stop, Abstract!Discard, absCall
    <3>. QED BY <3>1, HandedOutSeen
  <2>. QED BY <1>3, <2>1, OthersInOrder DEF Abstract!Stop, Abstract!Discard
<1>4. ASSUME NEW r \in Readers, Abstract!ReturnReport(r)
      PROVE  OrderInv' /\ [Abstract!HandsOutInOrder]_(Abstract!vars)
  BY <1>4, ReturnInOrder
<1>5. ASSUME NEW r \in Readers,
             \/ \E m \in Abstract!Modes : Abstract!Begin(r, m)
             \/ Abstract!Refuse(r) \/ Abstract!ReturnEmpty(r) \/ Abstract!ReturnError(r)
      PROVE  OrderInv' /\ [Abstract!HandsOutInOrder]_(Abstract!vars)
  <2>1. sent' = sent /\ input_reports' = input_reports
    BY <1>5 DEF Abstract!Begin, Abstract!Refuse, Abstract!ReturnEmpty, Abstract!ReturnError,
                Abstract!Return
  <2>. QED BY <1>5, <2>1, NothingHandedOut, OthersInOrder
<1>. QED BY <1>1, <1>2, <1>3, <1>4, <1>5 DEF Abstract!Next

(* hid_read returns reports in the order of their arrival and none twice,  *)
(* whichever readers get them, for any number of readers and reports.      *)
THEOREM HandsOutOnce == Spec => HandedOutOnce
<1>1. Abstract!Init => OrderInv
  BY DEF Abstract!Init, OrderInv, Increasing
<1>2. Abstract!Spec => HandedOutOnce
  BY <1>1, OrderStep, PTL DEF Abstract!Spec, HandedOutOnce, Abstract!HandedOutOnce
<1>. QED BY <1>2, Refinement, PTL DEF ImplementsInputQueue
=============================================================================
