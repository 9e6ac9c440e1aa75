-------------------------- MODULE LibusbRead_proofs --------------------------
(***************************************************************************)
(* Proofs about LibusbRead, for any set of readers, any Limit and any      *)
(* number of reports.                                                      *)
(***************************************************************************)
EXTENDS LibusbRead, TLAPS

(***************************************************************************)
(* The inductive invariant, in named parts.                                *)
(***************************************************************************)

(* A reader holds the mutex exactly in the part of hid_read_timeout that   *)
(* runs between taking it and giving it up.                                *)
Holding == {"locked", "test", "sleep", "recheck", "unlock"}
MutexInv == \A r \in Readers : reader[r] \in Holding <=> mutex = r

(* How the transfer, its callback, the read thread and hid_close move      *)
(* together.                                                               *)
StartInv ==
    /\ app = "create" => rt = "none"
    /\ rt \in {"none", "alloc"} <=> transfer = "none"
    /\ rt \in {"none", "alloc", "submit"} =>
         ~transfer_loop_finished /\ callback = "none" /\ transfer # "inflight"
FinishedInv ==
    /\ transfer_loop_finished =>
         shutdown_thread /\ callback = "none" /\ transfer \in {"idle", "freed"}
    /\ callback # "none" => transfer = "idle"
    /\ rt \in {"broadcast", "exited"} => transfer_loop_finished
CloseInv ==
    /\ app \in {"free", "drain", "closed"} => rt = "exited"
    /\ transfer = "freed" <=> app \in {"drain", "closed"}

(* Nobody is asleep, or on the way to sleep, after the last broadcast. *)
SleepInv == rt = "exited" => \A r \in Readers : reader[r] \notin {"sleep", "wait"}

IInv == TypeOK /\ MutexInv /\ StartInv /\ FinishedInv /\ CloseInv /\ SleepInv

(***************************************************************************)
(* The queue.                                                              *)
(***************************************************************************)

(* What read_callback leaves in the list, and how it compares with the     *)
(* bounded queue of the promise.                                           *)
LEMMA EnqueuedFacts ==
    ASSUME NEW q \in Seq(Nat), Len(q) <= Limit + 2, NEW rpt \in Nat
    PROVE  /\ Enqueued(q, rpt) \in Seq(Nat)
           /\ Len(Enqueued(q, rpt)) <= Limit + 2
           /\ Enqueued(q, rpt) = IF Len(q) < Limit + 2
                                 THEN Append(q, rpt)
                                 ELSE Append(Tail(q), rpt)
           /\ Enqueued(q, rpt) # <<>>
<1>. USE LimitAssumption
<1>1. CASE Len(q) < Limit + 2
  <2>1. Enqueued(q, rpt) = Append(q, rpt)
    BY <1>1 DEF Enqueued
  <2>. QED BY <1>1, <2>1
<1>2. CASE Len(q) = Limit + 2
  <2>1. q # <<>> /\ Len(q) - 1 > Limit
    BY <1>2
  <2>2. Enqueued(q, rpt) = Tail(Append(q, rpt))
    BY <2>1 DEF Enqueued, ReturnData
  <2>3. Tail(Append(q, rpt)) = Append(Tail(q), rpt)
    BY <2>1
  <2>. QED BY <1>2, <2>1, <2>2, <2>3
<1>. QED BY <1>1, <1>2

(***************************************************************************)
(* Who leaves what alone.                                                  *)
(***************************************************************************)

(* A reader's steps leave everything of the other threads alone. *)
LEMMA ReaderLeavesLib ==
    ASSUME NEW r \in Readers, Read(r) PROVE UNCHANGED libVars
BY DEF Read, InCall, hid_read, hid_read_timeout, ReadRefused, ReadBegins, SpuriousWakeup,
  ReadLocks, ReadFirstLook, ReadTest, ReadSleeps, ReadExpires, ReadWakes, ReadRecheck, ReadUnlocks

(* The other threads leave the readers alone, except for the broadcast and *)
(* the signal.                                                             *)
LEMMA ReaderVarsFrame ==
    ASSUME [Next]_vars
    PROVE  \/ UNCHANGED readerVars \/ RtBroadcast \/ CallbackEnqueue
           \/ \E r \in Readers : Read(r)
<1>1. CASE Open
  BY <1>1 DEF Open, ThreadCreate, ThreadCreateFails, OpenArrives, OpenReturns
<1>2. CASE read_thread
  BY <1>2 DEF read_thread, RtAlloc, RtSubmit, RtSubmitFails, RtLeavesBarrier, RtLoop,
    RtHandled, RtHandleFatal, RtCancel, RtDrained
<1>3. CASE TransferEnds
  BY <1>3 DEF TransferEnds, TransferCompleted, TransferCancelled, TransferNoDevice,
    TransferTimedOut, CallbackStarts
<1>4. CASE read_callback
  BY <1>4 DEF read_callback, CallbackCheck, CallbackResubmit, CallbackResubmitFails
<1>5. CASE hid_set_nonblocking
  BY <1>5 DEF hid_set_nonblocking
<1>6. CASE hid_close
  BY <1>6 DEF hid_close, CloseUnderWay, CloseBegins, CloseCancels, CloseJoins,
    CloseFrees, CloseDrains
<1>7. CASE UNCHANGED vars
  BY <1>7 DEF vars, readerVars
<1>. QED BY <1>1, <1>2, <1>3, <1>4, <1>5, <1>6, <1>7 DEF Next

(***************************************************************************)
(* Type correctness: the two sides and the queue, each on its own.         *)
(***************************************************************************)
LEMMA LibTypeStep == LibTypeOK /\ [Next]_vars => LibTypeOK'
<1>. SUFFICES ASSUME LibTypeOK, [Next]_vars PROVE LibTypeOK'
  OBVIOUS
<1>. USE DEF LibTypeOK, AppStates, ThreadStates, CallbackStates, flags, xfer, libVars
<1>1. CASE Open
  BY <1>1 DEF Open, ThreadCreate, ThreadCreateFails, OpenArrives, OpenReturns
<1>2. CASE read_thread
  BY <1>2 DEF read_thread, RtAlloc, RtSubmit, RtSubmitFails, RtLeavesBarrier, RtLoop,
    RtHandled, RtHandleFatal, RtCancel, CancelTransfer, RtDrained, RtBroadcast
<1>3. CASE TransferEnds
  BY <1>3 DEF TransferEnds, TransferCompleted, TransferCancelled, TransferNoDevice,
    TransferTimedOut, CallbackStarts
<1>4. CASE read_callback
  BY <1>4 DEF read_callback, CallbackEnqueue, CallbackCheck, CallbackResubmit, CallbackResubmitFails
<1>5. CASE hid_set_nonblocking
  BY <1>5 DEF hid_set_nonblocking
<1>6. CASE hid_close
  BY <1>6 DEF hid_close, CloseUnderWay, CloseBegins, CloseCancels, CancelTransfer, CloseJoins,
    CloseFrees, CloseDrains
<1>7. ASSUME NEW r \in Readers, Read(r) PROVE UNCHANGED libVars
  BY <1>7, ReaderLeavesLib
<1>8. CASE UNCHANGED vars
  BY <1>8 DEF vars
<1>. QED BY <1>1, <1>2, <1>3, <1>4, <1>5, <1>6, <1>7, <1>8 DEF Next

LEMMA ReaderTypeStep == TypeOK /\ [Next]_vars => ReaderTypeOK'
<1>. SUFFICES ASSUME TypeOK, [Next]_vars PROVE ReaderTypeOK'
  OBVIOUS
<1>. USE DEF ReaderTypeOK, ReaderStates
<1>1. CASE UNCHANGED readerVars
  BY <1>1 DEF readerVars, TypeOK
<1>2. CASE RtBroadcast
  BY <1>2 DEF RtBroadcast, TypeOK
<1>3. CASE CallbackEnqueue
  BY <1>3 DEF CallbackEnqueue, Signal, TypeOK
<1>4. ASSUME NEW r \in Readers, Read(r) PROVE ReaderTypeOK'
  <2>1. input_reports # <<>> => Head(input_reports) \in Nat
    BY DEF TypeOK, QueueTypeOK
  <2>2. ReaderTypeOK
    BY DEF TypeOK
  <2>. HIDE DEF TypeOK
  <2>3. reader' \in [Readers -> ReaderStates]
    BY <1>4, <2>2 DEF Read, InCall, hid_read, hid_read_timeout, ReadRefused, ReadBegins,
      SpuriousWakeup, ReadLocks, ReadFirstLook, ReadTest, ReadSleeps, ReadExpires, ReadWakes,
      ReadRecheck, ReadUnlocks, Moves
  <2>4. mode' \in [Readers -> Modes]
    BY <1>4, <2>2 DEF Read, InCall, hid_read, hid_read_timeout, ReadRefused, ReadBegins,
      SpuriousWakeup, ReadLocks, ReadFirstLook, ReadTest, ReadSleeps, ReadExpires, ReadWakes,
      ReadRecheck, ReadUnlocks, Modes
  <2>5. result' \in [Readers -> Nat \cup {Error}]
    BY <1>4, <2>1, <2>2 DEF Read, InCall, hid_read, hid_read_timeout, ReadRefused, ReadBegins,
      SpuriousWakeup, ReadLocks, ReadFirstLook, ReadTest, ReadSleeps, ReadExpires, ReadWakes,
      ReadRecheck, ReadUnlocks, TakeReport, Error, Empty
  <2>6. mutex' \in Readers \cup {NoOwner}
    BY <1>4, <2>2 DEF Read, InCall, hid_read, hid_read_timeout, ReadRefused, ReadBegins,
      SpuriousWakeup, ReadLocks, ReadFirstLook, ReadTest, ReadSleeps, ReadExpires, ReadWakes,
      ReadRecheck, ReadUnlocks
  <2>7. read_error' \in BOOLEAN
    BY <1>4, <2>2 DEF Read, InCall, hid_read, hid_read_timeout, ReadRefused, ReadBegins,
      SpuriousWakeup, ReadLocks, ReadFirstLook, ReadTest, ReadSleeps, ReadExpires, ReadWakes,
      ReadRecheck, ReadUnlocks
  <2>. QED BY <2>3, <2>4, <2>5, <2>6, <2>7
<1>. QED BY <1>1, <1>2, <1>3, <1>4, ReaderVarsFrame

(* Who touches the queue: read_callback, a reader that takes a report, and *)
(* hid_close.                                                              *)
LEMMA QueueFrame ==
    ASSUME [Next]_vars
    PROVE  \/ UNCHANGED <<input_reports, sent>>
           \/ CallbackEnqueue
           \/ CloseDrains
           \/ \E r \in Readers : Read(r) /\ TakeReport(r) /\ input_reports # <<>> /\ UNCHANGED sent
<1>1. CASE Open
  BY <1>1 DEF Open, ThreadCreate, ThreadCreateFails, OpenArrives, OpenReturns
<1>2. CASE read_thread
  BY <1>2 DEF read_thread, RtAlloc, RtSubmit, RtSubmitFails, RtLeavesBarrier, RtLoop,
    RtHandled, RtHandleFatal, RtCancel, RtDrained, RtBroadcast
<1>3. CASE TransferEnds
  BY <1>3 DEF TransferEnds, TransferCompleted, TransferCancelled, TransferNoDevice,
    TransferTimedOut, CallbackStarts
<1>4. CASE read_callback
  BY <1>4 DEF read_callback, CallbackCheck, CallbackResubmit, CallbackResubmitFails
<1>5. CASE hid_set_nonblocking
  BY <1>5 DEF hid_set_nonblocking
<1>6. CASE hid_close
  BY <1>6 DEF hid_close, CloseUnderWay, CloseBegins, CloseCancels, CloseJoins, CloseFrees
<1>7. ASSUME NEW r \in Readers, Read(r)
      PROVE  /\ UNCHANGED sent
             /\ UNCHANGED input_reports \/ (TakeReport(r) /\ input_reports # <<>>)
  <2>1. UNCHANGED sent
    BY <1>7, ReaderLeavesLib DEF libVars
  <2>2. UNCHANGED input_reports \/ (TakeReport(r) /\ input_reports # <<>>)
    BY <1>7 DEF Read, InCall, hid_read, hid_read_timeout, ReadRefused, ReadBegins,
      SpuriousWakeup, ReadLocks, ReadFirstLook, ReadTest, ReadSleeps, ReadExpires, ReadWakes,
      ReadRecheck, ReadUnlocks
  <2>. QED BY <2>1, <2>2
<1>8. CASE UNCHANGED vars
  BY <1>8 DEF vars
<1>. QED BY <1>1, <1>2, <1>3, <1>4, <1>5, <1>6, <1>7, <1>8 DEF Next

LEMMA QueueTypeStep == QueueTypeOK /\ [Next]_vars => QueueTypeOK'
<1>. SUFFICES ASSUME QueueTypeOK, [Next]_vars PROVE QueueTypeOK'
  OBVIOUS
<1>. USE LimitAssumption DEF QueueTypeOK
<1>1. CASE CallbackEnqueue
  BY <1>1, EnqueuedFacts DEF CallbackEnqueue
<1>2. CASE CloseDrains
  BY <1>2 DEF CloseDrains
<1>3. ASSUME NEW r \in Readers, TakeReport(r), input_reports # <<>>, UNCHANGED sent
      PROVE  QueueTypeOK'
  BY <1>3 DEF TakeReport, ReturnData
<1>. QED BY <1>1, <1>2, <1>3, QueueFrame

(***************************************************************************)
(* The mutex.                                                              *)
(***************************************************************************)
LEMMA MutexStep == TypeOK /\ MutexInv /\ [Next]_vars => MutexInv'
<1>. SUFFICES ASSUME ReaderTypeOK, MutexInv, [Next]_vars PROVE MutexInv'
  BY DEF TypeOK
<1>. USE DEF MutexInv, Holding, ReaderTypeOK
<1>1. CASE UNCHANGED readerVars
  BY <1>1 DEF readerVars
<1>2. CASE RtBroadcast
  BY <1>2 DEF RtBroadcast
<1>3. CASE CallbackEnqueue
  BY <1>3 DEF CallbackEnqueue, Signal
<1>4. ASSUME NEW r \in Readers, Read(r) PROVE MutexInv'
  <2>1. CASE hid_read(r) \/ hid_read_timeout(r) \/ ReadRefused(r)
    BY <2>1 DEF hid_read, hid_read_timeout, ReadRefused, ReadBegins, Moves
  <2>2. CASE SpuriousWakeup(r) \/ ReadExpires(r)
    BY <2>2 DEF SpuriousWakeup, ReadExpires, Moves
  <2>3. CASE ReadLocks(r) \/ ReadWakes(r)
    BY <2>3, ReadersAssumption DEF ReadLocks, ReadWakes, Moves
  <2>4. CASE ReadSleeps(r) \/ ReadUnlocks(r)
    BY <2>4, ReadersAssumption DEF ReadSleeps, ReadUnlocks, Moves
  <2>5. CASE ReadFirstLook(r) \/ ReadTest(r) \/ ReadRecheck(r)
    BY <2>5 DEF ReadFirstLook, ReadTest, ReadRecheck, Moves
  <2>. QED BY <1>4, <2>1, <2>2, <2>3, <2>4, <2>5 DEF Read, InCall
<1>. QED BY <1>1, <1>2, <1>3, <1>4, ReaderVarsFrame

(***************************************************************************)
(* The transfer and the threads around it.                                 *)
(***************************************************************************)
Lifecycle == StartInv /\ FinishedInv /\ CloseInv

LEMMA LifecycleStep == LibTypeOK /\ Lifecycle /\ [Next]_vars => Lifecycle'
<1>. SUFFICES ASSUME LibTypeOK, Lifecycle, [Next]_vars PROVE Lifecycle'
  OBVIOUS
<1>. USE DEF Lifecycle, StartInv, FinishedInv, CloseInv, LibTypeOK, AppStates, ThreadStates,
         CallbackStates, flags, xfer, libVars
<1>1. CASE Open
  BY <1>1 DEF Open, ThreadCreate, ThreadCreateFails, OpenArrives, OpenReturns
<1>2. CASE read_thread
  <2>1. CASE RtAlloc
    BY <2>1 DEF RtAlloc
  <2>2. CASE RtSubmit \/ RtSubmitFails
    BY <2>2 DEF RtSubmit, RtSubmitFails
  <2>3. CASE RtLeavesBarrier \/ RtLoop \/ RtHandled \/ RtHandleFatal
    BY <2>3 DEF RtLeavesBarrier, RtLoop, RtHandled, RtHandleFatal
  <2>4. CASE RtCancel \/ RtDrained \/ RtBroadcast
    BY <2>4 DEF RtCancel, CancelTransfer, RtDrained, RtBroadcast
  <2>. QED BY <1>2, <2>1, <2>2, <2>3, <2>4 DEF read_thread
<1>3. CASE TransferEnds
  BY <1>3 DEF TransferEnds, TransferCompleted, TransferCancelled, TransferNoDevice,
    TransferTimedOut, CallbackStarts
<1>4. CASE read_callback
  <2>1. CASE CallbackEnqueue
    BY <2>1 DEF CallbackEnqueue
  <2>2. CASE CallbackCheck
    BY <2>2 DEF CallbackCheck
  <2>3. CASE CallbackResubmit
    BY <2>3 DEF CallbackResubmit
  <2>4. CASE CallbackResubmitFails
    BY <2>4 DEF CallbackResubmitFails
  <2>. QED BY <1>4, <2>1, <2>2, <2>3, <2>4 DEF read_callback
<1>5. CASE hid_set_nonblocking
  BY <1>5 DEF hid_set_nonblocking
<1>6. CASE hid_close
  BY <1>6 DEF hid_close, CloseUnderWay, CloseBegins, CloseCancels, CancelTransfer, CloseJoins,
    CloseFrees, CloseDrains
<1>7. ASSUME NEW r \in Readers, Read(r) PROVE UNCHANGED libVars
  BY <1>7, ReaderLeavesLib
<1>8. CASE UNCHANGED vars
  BY <1>8 DEF vars
<1>. QED BY <1>1, <1>2, <1>3, <1>4, <1>5, <1>6, <1>7, <1>8 DEF Next

(***************************************************************************)
(* Sleeping readers.                                                       *)
(***************************************************************************)

(* Only the broadcast ends the read thread, and nothing restarts it. *)
LEMMA RtFrame ==
    ASSUME [Next]_vars, rt' = "exited"
    PROVE  rt = "exited" \/ RtBroadcast
<1>1. CASE Open
  BY <1>1 DEF Open, ThreadCreate, ThreadCreateFails, OpenArrives, OpenReturns
<1>2. CASE read_thread
  BY <1>2 DEF read_thread, RtAlloc, RtSubmit, RtSubmitFails, RtLeavesBarrier, RtLoop,
    RtHandled, RtHandleFatal, RtCancel, RtDrained
<1>3. CASE TransferEnds
  BY <1>3 DEF TransferEnds, TransferCompleted, TransferCancelled, TransferNoDevice,
    TransferTimedOut, CallbackStarts
<1>4. CASE read_callback
  BY <1>4 DEF read_callback, CallbackEnqueue, CallbackCheck, CallbackResubmit, CallbackResubmitFails
<1>5. CASE hid_set_nonblocking
  BY <1>5 DEF hid_set_nonblocking
<1>6. CASE hid_close
  BY <1>6 DEF hid_close, CloseUnderWay, CloseBegins, CloseCancels, CloseJoins,
    CloseFrees, CloseDrains
<1>7. ASSUME NEW r \in Readers, Read(r) PROVE UNCHANGED rt
  BY <1>7, ReaderLeavesLib DEF libVars
<1>8. CASE UNCHANGED vars
  BY <1>8 DEF vars
<1>. QED BY <1>1, <1>2, <1>3, <1>4, <1>5, <1>6, <1>7, <1>8 DEF Next

(* A reader goes to sleep only in two steps of its own; the first of them  *)
(* sees that the read thread has not been told to stop.                    *)
LEMMA GoingToSleep ==
    ASSUME ReaderTypeOK, NEW r \in Readers, Read(r), NEW s \in Readers,
           reader'[s] \in {"sleep", "wait"}
    PROVE  \/ reader[s] \in {"sleep", "wait"}
           \/ s = r /\ input_reports = <<>> /\ ~shutdown_thread
<1>. USE DEF ReaderTypeOK
<1>1. CASE hid_read(r) \/ hid_read_timeout(r) \/ ReadRefused(r)
  BY <1>1 DEF hid_read, hid_read_timeout, ReadRefused, ReadBegins, Moves
<1>2. CASE SpuriousWakeup(r) \/ ReadExpires(r) \/ ReadLocks(r) \/ ReadWakes(r)
  BY <1>2 DEF SpuriousWakeup, ReadExpires, ReadLocks, ReadWakes, Moves
<1>3. CASE ReadSleeps(r) \/ ReadUnlocks(r)
  BY <1>3 DEF ReadSleeps, ReadUnlocks, Moves
<1>4. CASE ReadFirstLook(r) \/ ReadRecheck(r)
  BY <1>4 DEF ReadFirstLook, ReadRecheck, Moves
<1>5. CASE ReadTest(r)
  BY <1>5 DEF ReadTest, Moves
<1>. QED BY <1>1, <1>2, <1>3, <1>4, <1>5 DEF Read, InCall

LEMMA SleepStep == IInv /\ [Next]_vars => SleepInv'
<1>. SUFFICES ASSUME IInv, [Next]_vars, rt' = "exited", NEW s \in Readers,
                     reader'[s] \in {"sleep", "wait"}
              PROVE  FALSE
  BY DEF SleepInv
<1>. USE DEF IInv, SleepInv
<1>1. rt = "exited" \/ RtBroadcast
  BY RtFrame
<1>2. CASE RtBroadcast
  <2>1. reader[s] = "sleep"
    BY <1>2 DEF RtBroadcast, TypeOK, ReaderTypeOK
  <2>2. mutex = s
    BY <2>1 DEF MutexInv, Holding
  <2>. QED BY <1>2, <2>2, ReadersAssumption DEF RtBroadcast
<1>3. CASE rt = "exited" /\ ~RtBroadcast
  <2>1. shutdown_thread
    BY <1>3 DEF FinishedInv
  <2>2. CASE UNCHANGED readerVars
    BY <1>3, <2>2 DEF readerVars
  <2>3. CASE CallbackEnqueue
    BY <1>3, <2>3 DEF FinishedInv, CallbackEnqueue
  <2>4. ASSUME NEW r \in Readers, Read(r) PROVE FALSE
    BY <1>3, <2>1, <2>4, GoingToSleep DEF TypeOK
  <2>. QED BY <1>3, <2>2, <2>3, <2>4, ReaderVarsFrame
<1>. QED BY <1>1, <1>2, <1>3

(***************************************************************************)
(* The invariant.                                                          *)
(***************************************************************************)
LEMMA InitInvariant == Init => IInv
<1>. SUFFICES ASSUME Init PROVE IInv
  OBVIOUS
<1>. USE DEF Init
<1>1. LibTypeOK
  BY DEF LibTypeOK, AppStates, ThreadStates, CallbackStates
<1>2. ReaderTypeOK
  BY DEF ReaderTypeOK, ReaderStates, Modes, Empty
<1>3. QueueTypeOK
  BY LimitAssumption DEF QueueTypeOK
<1>4. MutexInv
  BY ReadersAssumption DEF MutexInv, Holding
<1>5. StartInv /\ FinishedInv /\ CloseInv /\ SleepInv
  BY DEF StartInv, FinishedInv, CloseInv, SleepInv
<1>. QED BY <1>1, <1>2, <1>3, <1>4, <1>5 DEF IInv, TypeOK

LEMMA StepInvariant == IInv /\ [Next]_vars => IInv'
<1>. SUFFICES ASSUME IInv, [Next]_vars PROVE IInv'
  OBVIOUS
<1>1. TypeOK'
  BY LibTypeStep, ReaderTypeStep, QueueTypeStep DEF IInv, TypeOK
<1>2. MutexInv'
  BY MutexStep DEF IInv
<1>3. Lifecycle'
  BY LifecycleStep DEF IInv, TypeOK, Lifecycle
<1>4. SleepInv'
  BY SleepStep
<1>. QED BY <1>1, <1>2, <1>3, <1>4 DEF IInv, Lifecycle

(* The inductive invariant holds in every reachable state. *)
THEOREM Invariance == Spec => []IInv
BY InitInvariant, StepInvariant, PTL DEF Spec

(* Type correctness, and with it the bound of the queue: read_callback     *)
(* never leaves more than Limit + 2 reports in dev->input_reports.         *)
THEOREM TypeCorrect == Spec => []TypeOK
<1>1. IInv => TypeOK
  BY DEF IInv
<1>. QED BY <1>1, Invariance, PTL

(* hid_close never frees a transfer that is in flight or in a callback.    *)
THEOREM FreeIsSafe == Spec => []TransferQuietWhenFreed
<1>1. IInv => TransferQuietWhenFreed
  BY DEF IInv, StartInv, FinishedInv, CloseInv, TransferQuietWhenFreed
<1>. QED BY <1>1, Invariance, PTL

(* No reader sleeps after the read thread's last broadcast. *)
THEOREM NobodySleeps == Spec => []NoSleeperAfterExit
<1>1. IInv => NoSleeperAfterExit
  BY DEF IInv, SleepInv, NoSleeperAfterExit
<1>. QED BY <1>1, Invariance, PTL

(***************************************************************************)
(* The start-up sequence, with a barrier that keeps its word.              *)
(***************************************************************************)
BarrierInv ==
    app \notin {"create", "arrive", "barrier"} => rt \notin {"none", "alloc", "submit"}

LEMMA BarrierStep ==
    ASSUME ~SpuriousBarrier
    PROVE  LibTypeOK /\ BarrierInv /\ [Next]_vars => BarrierInv'
<1>. SUFFICES ASSUME LibTypeOK, BarrierInv, [Next]_vars PROVE BarrierInv'
  OBVIOUS
<1>. USE DEF BarrierInv, LibTypeOK, AppStates, ThreadStates, libVars
<1>1. CASE Open
  BY <1>1 DEF Open, ThreadCreate, ThreadCreateFails, OpenArrives, OpenReturns, ThreadArrived
<1>2. CASE read_thread
  BY <1>2 DEF read_thread, RtAlloc, RtSubmit, RtSubmitFails, RtLeavesBarrier, RtLoop,
    RtHandled, RtHandleFatal, RtCancel, RtDrained, RtBroadcast
<1>3. CASE TransferEnds
  BY <1>3 DEF TransferEnds, TransferCompleted, TransferCancelled, TransferNoDevice,
    TransferTimedOut, CallbackStarts
<1>4. CASE read_callback
  BY <1>4 DEF read_callback, CallbackEnqueue, CallbackCheck, CallbackResubmit, CallbackResubmitFails
<1>5. CASE hid_set_nonblocking
  BY <1>5 DEF hid_set_nonblocking
<1>6. CASE hid_close
  BY <1>6 DEF hid_close, CloseUnderWay, CloseBegins, CloseCancels, CloseJoins,
    CloseFrees, CloseDrains
<1>7. ASSUME NEW r \in Readers, Read(r) PROVE UNCHANGED libVars
  BY <1>7, ReaderLeavesLib
<1>8. CASE UNCHANGED vars
  BY <1>8 DEF vars
<1>. QED BY <1>1, <1>2, <1>3, <1>4, <1>5, <1>6, <1>7, <1>8 DEF Next

(* When the barrier waits for both threads, hid_close cancels a transfer   *)
(* that the read thread has allocated, and never a NULL pointer.           *)
THEOREM StartupSequence ==
    ASSUME ~SpuriousBarrier
    PROVE  Spec => []CancelHasTransfer
<1>1. Init => BarrierInv
  BY DEF Init, BarrierInv
<1>2. IInv /\ BarrierInv /\ [Next]_vars => BarrierInv'
  BY BarrierStep DEF IInv, TypeOK
<1>3. IInv /\ BarrierInv => CancelHasTransfer
  BY DEF IInv, StartInv, BarrierInv, CancelHasTransfer
<1>. QED BY <1>1, <1>2, <1>3, Invariance, PTL DEF Spec

(***************************************************************************)
(* One reader: no wake-up is lost although read_callback signals only when *)
(* the list was empty.                                                     *)
(***************************************************************************)
SingleReader == \A r, s \in Readers : r = s

AwakeInv == \A r \in Readers : reader[r] \in {"sleep", "wait"} => input_reports = <<>>

LEMMA AwakeStep ==
    ASSUME SingleReader
    PROVE  IInv /\ AwakeInv /\ [Next]_vars => AwakeInv'
<1>. SUFFICES ASSUME IInv, AwakeInv, [Next]_vars, NEW s \in Readers,
                     reader'[s] \in {"sleep", "wait"}
              PROVE  input_reports' = <<>>
  BY DEF AwakeInv
<1>. USE DEF IInv, TypeOK, ReaderTypeOK, AwakeInv
<1>1. CASE CallbackEnqueue
  <2>1. reader[s] # "sleep"
    BY <1>1, ReadersAssumption DEF CallbackEnqueue, MutexInv, Holding
  <2>2. reader[s] = "wait"
    BY <1>1, <2>1 DEF CallbackEnqueue, Signal
  <2>3. input_reports = <<>>
    BY <2>2
  <2>4. reader'[s] = "woken"
    BY <1>1, <2>2, <2>3 DEF CallbackEnqueue, Signal, SingleReader
  <2>. QED BY <2>4
<1>2. CASE CloseDrains
  BY <1>2 DEF CloseDrains
<1>3. ASSUME NEW r \in Readers, Read(r) PROVE input_reports' = <<>>
  <2>1. input_reports = <<>>
    BY <1>3, GoingToSleep
  <2>2. ~(TakeReport(r) /\ input_reports # <<>>)
    BY <2>1
  <2>3. UNCHANGED input_reports
    BY <1>3, <2>1 DEF Read, InCall, hid_read, hid_read_timeout, ReadRefused, ReadBegins,
      SpuriousWakeup, ReadLocks, ReadFirstLook, ReadTest, ReadSleeps, ReadExpires, ReadWakes,
      ReadRecheck, ReadUnlocks
  <2>. QED BY <2>1, <2>3
<1>4. CASE UNCHANGED readerVars /\ UNCHANGED <<input_reports, sent>>
  BY <1>4 DEF readerVars
<1>5. CASE RtBroadcast
  BY <1>5 DEF RtBroadcast
<1>. QED BY <1>1, <1>2, <1>3, <1>4, <1>5, QueueFrame, ReaderVarsFrame

(* A lone reader never sleeps beside a queued report. *)
THEOREM LoneReaderAwake ==
    ASSUME SingleReader
    PROVE  Spec => []NoLostWakeup
<1>1. Init => AwakeInv
  BY DEF Init, AwakeInv
<1>2. IInv /\ AwakeInv /\ [Next]_vars => AwakeInv'
  BY AwakeStep
<1>3. AwakeInv => NoLostWakeup
  BY DEF AwakeInv, NoLostWakeup
<1>. QED BY <1>1, <1>2, <1>3, Invariance, PTL DEF Spec

(***************************************************************************)
(* The refinement of InputQueue.                                           *)
(***************************************************************************)

(* Inside a call bytes_read is still -1, and only timed waits expire. *)
CallInv == \A r \in Readers :
    /\ ~Decided(r) => result[r] = Error
    /\ reader[r] = "expired" => mode[r] = "timeout"

LEMMA CallStep == TypeOK /\ CallInv /\ [Next]_vars => CallInv'
<1>. SUFFICES ASSUME ReaderTypeOK, CallInv, [Next]_vars PROVE CallInv'
  BY DEF TypeOK
<1>. USE DEF CallInv, ReaderTypeOK, Decided
<1>1. CASE UNCHANGED readerVars
  BY <1>1 DEF readerVars
<1>2. CASE RtBroadcast
  BY <1>2 DEF RtBroadcast
<1>3. CASE CallbackEnqueue
  BY <1>3 DEF CallbackEnqueue, Signal
<1>4. ASSUME NEW r \in Readers, Read(r) PROVE CallInv'
  <2>1. CASE hid_read(r) \/ hid_read_timeout(r) \/ ReadRefused(r)
    BY <2>1 DEF hid_read, hid_read_timeout, ReadRefused, ReadBegins, Moves
  <2>2. CASE SpuriousWakeup(r) \/ ReadExpires(r) \/ ReadLocks(r) \/ ReadWakes(r)
    BY <2>2 DEF SpuriousWakeup, ReadExpires, ReadLocks, ReadWakes, Moves
  <2>3. CASE ReadSleeps(r) \/ ReadUnlocks(r)
    BY <2>3 DEF ReadSleeps, ReadUnlocks, Moves
  <2>4. CASE ReadFirstLook(r)
    BY <2>4 DEF ReadFirstLook, TakeReport, Moves
  <2>5. CASE ReadTest(r)
    BY <2>5 DEF ReadTest, TakeReport, Moves
  <2>6. CASE ReadRecheck(r)
    BY <2>6 DEF ReadRecheck, TakeReport, Moves
  <2>. QED BY <1>4, <2>1, <2>2, <2>3, <2>4, <2>5, <2>6 DEF Read, InCall
<1>. QED BY <1>1, <1>2, <1>3, <1>4, ReaderVarsFrame

(* The state of the promise. *)
absCall == [r \in Readers |-> IF Decided(r) THEN "none" ELSE mode[r]]
absResult == [r \in Readers |-> IF Decided(r) THEN result[r] ELSE Empty]

LEMMA AbsFacts ==
    /\ Abstract!vars = <<input_reports, sent, ~shutdown_thread, absCall, absResult>>
    /\ Abstract!Empty = Empty /\ Abstract!Error = Error /\ Abstract!Modes = Modes
BY DEF Abstract!vars, Abstract!Empty, Abstract!Error, Abstract!Modes, absCall, absResult,
       Empty, Error, Modes

(* Steps of the threads other than the readers. *)
LEMMA OthersImplement ==
    ASSUME IInv, [Next]_vars, \A r \in Readers : ~Read(r)
    PROVE  [Abstract!Next]_(Abstract!vars)
<1>. USE DEF IInv
<1>1. CASE CallbackEnqueue
  <2>1. UNCHANGED <<absCall, absResult, shutdown_thread>>
    BY <1>1 DEF CallbackEnqueue, Signal, absCall, absResult, Decided, TypeOK, ReaderTypeOK, flags
  <2>2. /\ sent' = sent + 1
        /\ input_reports' = IF Len(input_reports) < Limit + 2
                            THEN Append(input_reports, sent + 1)
                            ELSE Append(Tail(input_reports), sent + 1)
    <3>1. /\ input_reports \in Seq(Nat) /\ Len(input_reports) <= Limit + 2
          /\ sent + 1 \in Nat
      BY DEF TypeOK, QueueTypeOK
    <3>2. Enqueued(input_reports, sent + 1) = IF Len(input_reports) < Limit + 2
                                              THEN Append(input_reports, sent + 1)
                                              ELSE Append(Tail(input_reports), sent + 1)
      BY <3>1, EnqueuedFacts
    <3>. QED BY <1>1, <3>2 DEF CallbackEnqueue
  <2>3. Abstract!Arrive
    BY <2>1, <2>2 DEF Abstract!Arrive, absCall, absResult
  <2>. QED BY <2>3 DEF Abstract!Next
<1>2. CASE RtBroadcast
  <2>1. UNCHANGED <<absCall, absResult, shutdown_thread, input_reports, sent>>
    BY <1>2 DEF RtBroadcast, absCall, absResult, Decided, TypeOK, ReaderTypeOK, flags
  <2>. QED BY <2>1, AbsFacts DEF Abstract!vars, absCall, absResult
<1>3. CASE CloseDrains
  <2>1. shutdown_thread
    BY <1>3 DEF CloseDrains, CloseInv, FinishedInv
  <2>2. UNCHANGED <<absCall, absResult, shutdown_thread, sent>> /\ input_reports' = <<>>
    BY <1>3 DEF CloseDrains, absCall, absResult, Decided, readerVars, flags
  <2>3. Abstract!Discard
    BY <2>1, <2>2 DEF Abstract!Discard, absCall, absResult
  <2>. QED BY <2>3 DEF Abstract!Next
<1>4. CASE UNCHANGED readerVars /\ UNCHANGED <<input_reports, sent>>
  <2>1. UNCHANGED <<absCall, absResult>>
    BY <1>4 DEF absCall, absResult, Decided, readerVars
  <2>2. shutdown_thread' = shutdown_thread \/ shutdown_thread' = TRUE
    <3>1. CASE Open
      BY <3>1 DEF Open, ThreadCreate, ThreadCreateFails, OpenArrives, OpenReturns, flags
    <3>2. CASE read_thread
      BY <3>2 DEF read_thread, RtAlloc, RtSubmit, RtSubmitFails, RtLeavesBarrier, RtLoop,
        RtHandled, RtHandleFatal, RtCancel, RtDrained, RtBroadcast, flags
    <3>3. CASE TransferEnds
      BY <3>3 DEF TransferEnds, TransferCompleted, TransferCancelled, TransferNoDevice,
        TransferTimedOut
    <3>4. CASE read_callback
      BY <3>4 DEF read_callback, CallbackEnqueue, CallbackCheck, CallbackResubmit,
        CallbackResubmitFails, flags
    <3>5. CASE hid_set_nonblocking
      BY <3>5 DEF hid_set_nonblocking, flags
    <3>6. CASE hid_close
      BY <3>6 DEF hid_close, CloseUnderWay, CloseBegins, CloseCancels, CloseJoins,
        CloseFrees, CloseDrains, flags
    <3>7. CASE UNCHANGED vars
      BY <3>7 DEF vars
    <3>. QED BY <3>1, <3>2, <3>3, <3>4, <3>5, <3>6, <3>7 DEF Next
  <2>3. CASE shutdown_thread' = shutdown_thread
    BY <1>4, <2>1, <2>3, AbsFacts DEF Abstract!vars, absCall, absResult
  <2>4. CASE shutdown_thread' = TRUE
    <3>1. Abstract!Stop
      BY <1>4, <2>1, <2>4 DEF Abstract!Stop, absCall, absResult
    <3>. QED BY <3>1 DEF Abstract!Next
  <2>. QED BY <2>2, <2>3, <2>4
<1>. QED BY <1>1, <1>2, <1>3, <1>4, QueueFrame, ReaderVarsFrame

(* The three ways a call is decided, and the steps that decide nothing,    *)
(* as steps on the state of the promise.                                   *)
Undecided(r) ==
    /\ Decided(r)' <=> Decided(r)
    /\ UNCHANGED <<mode, result, input_reports>>
    /\ \E pc \in ReaderStates : reader' = [reader EXCEPT ![r] = pc]

Decides(r, v) ==
    /\ ~Decided(r) /\ reader' = [reader EXCEPT ![r] = "unlock"]
    /\ result' = [result EXCEPT ![r] = v]
    /\ UNCHANGED mode

LEMMA ReadStepKinds ==
    ASSUME ReaderTypeOK, CallInv, NEW r \in Readers, InCall(r) \/ SpuriousWakeup(r)
    PROVE  \/ Undecided(r)
           \/ /\ input_reports # <<>> /\ input_reports' = Tail(input_reports)
              /\ Decides(r, Head(input_reports))
           \/ /\ mode[r] # "blocking"
              /\ mode[r] = "nonblocking" => input_reports = <<>>
              /\ UNCHANGED input_reports /\ Decides(r, Empty)
           \/ /\ shutdown_thread /\ input_reports = <<>>
              /\ UNCHANGED input_reports /\ Decides(r, Error)
<1>. USE DEF ReaderTypeOK, CallInv, Undecided, Decides, Decided, Moves, ReaderStates
<1>1. CASE ReadLocks(r)
  BY <1>1 DEF ReadLocks
<1>2. CASE ReadFirstLook(r)
  BY <1>2 DEF ReadFirstLook, TakeReport, ReturnData, Modes
<1>3. CASE ReadTest(r)
  BY <1>3 DEF ReadTest, TakeReport, ReturnData
<1>4. CASE ReadSleeps(r)
  BY <1>4 DEF ReadSleeps
<1>5. CASE ReadExpires(r)
  BY <1>5 DEF ReadExpires
<1>6. CASE ReadWakes(r)
  BY <1>6 DEF ReadWakes
<1>7. CASE ReadRecheck(r)
  BY <1>7 DEF ReadRecheck, TakeReport, ReturnData
<1>8. CASE ReadUnlocks(r)
  BY <1>8 DEF ReadUnlocks
<1>9. CASE SpuriousWakeup(r)
  BY <1>9 DEF SpuriousWakeup
<1>. QED BY <1>1, <1>2, <1>3, <1>4, <1>5, <1>6, <1>7, <1>8, <1>9 DEF InCall

LEMMA DecidesAbstract ==
    ASSUME ReaderTypeOK, NEW r \in Readers, NEW v, Decides(r, v)
    PROVE  /\ absCall[r] # "none"
           /\ absCall' = [absCall EXCEPT ![r] = "none"]
           /\ absResult' = [absResult EXCEPT ![r] = v]
           /\ absCall[r] = mode[r]
BY DEF ReaderTypeOK, Decides, Decided, absCall, absResult, Modes

LEMMA ReadersImplement ==
    ASSUME IInv, CallInv, NEW r \in Readers, Read(r)
    PROVE  [Abstract!Next]_(Abstract!vars)
<1>1. ReaderTypeOK
  BY DEF IInv, TypeOK
<1>2. UNCHANGED <<sent, shutdown_thread>>
  BY ReaderLeavesLib DEF libVars
<1>3. ASSUME NEW m \in Modes, ReadBegins(r, m) PROVE Abstract!Begin(r, m)
  BY <1>1, <1>2, <1>3 DEF Abstract!Begin, Abstract!Empty, Empty, ReadBegins, Moves, Decided, ReaderTypeOK
<1>4. CASE hid_read(r) \/ hid_read_timeout(r)
  <2>1. PICK m \in Modes : ReadBegins(r, m)
    BY <1>4 DEF hid_read, hid_read_timeout, Modes
  <2>2. Abstract!Begin(r, m)
    BY <1>3, <2>1
  <2>. QED BY <2>2 DEF Abstract!Next, Abstract!Modes, Modes
<1>5. CASE ReadRefused(r)
  <2>1. Abstract!Refuse(r)
    BY <1>1, <1>2, <1>5 DEF Abstract!Refuse, Abstract!Error, Error, ReadRefused, Decided, ReaderTypeOK
  <2>. QED BY <2>1 DEF Abstract!Next
<1>6. CASE InCall(r) \/ SpuriousWakeup(r)
  <2>1. CASE Undecided(r)
    <3>1. UNCHANGED <<absCall, absResult, input_reports>>
      BY <1>1, <2>1 DEF Undecided, Decided, absCall, absResult, ReaderTypeOK
    <3>. QED BY <1>2, <3>1, AbsFacts DEF Abstract!vars, absCall, absResult
  <2>2. CASE /\ input_reports # <<>> /\ input_reports' = Tail(input_reports)
             /\ Decides(r, Head(input_reports))
    <3>1. Abstract!ReturnReport(r)
      BY <1>1, <1>2, <2>2, DecidesAbstract
      DEF Abstract!ReturnReport, Abstract!Return, absCall, absResult
    <3>. QED BY <3>1 DEF Abstract!Next
  <2>3. CASE /\ mode[r] # "blocking"
             /\ mode[r] = "nonblocking" => input_reports = <<>>
             /\ UNCHANGED input_reports /\ Decides(r, Empty)
    <3>1. Abstract!ReturnEmpty(r)
      BY <1>1, <1>2, <2>3, DecidesAbstract
      DEF Abstract!ReturnEmpty, Abstract!Return, Abstract!Empty, Empty, absCall, absResult
    <3>. QED BY <3>1 DEF Abstract!Next
  <2>4. CASE /\ shutdown_thread /\ input_reports = <<>>
             /\ UNCHANGED input_reports /\ Decides(r, Error)
    <3>1. Abstract!ReturnError(r)
      BY <1>1, <1>2, <2>4, DecidesAbstract
      DEF Abstract!ReturnError, Abstract!Return, Abstract!Error, Error, absCall, absResult
    <3>. QED BY <3>1 DEF Abstract!Next
  <2>. QED BY <1>1, <1>6, <2>1, <2>2, <2>3, <2>4, ReadStepKinds
<1>. QED BY <1>4, <1>5, <1>6 DEF Read

(* The input path keeps the promise of InputQueue with a capacity of       *)
(* Limit + 2 reports: FIFO, each report to one reader, only the oldest     *)
(* given up and only when full, and -1 only after the end and the last     *)
(* report.                                                                 *)
THEOREM Refinement == Spec => ImplementsInputQueue
<1>1. Init => Abstract!Init
  BY DEF Init, Abstract!Init, Abstract!Empty, Empty, Decided
<1>2. Init => CallInv
  BY DEF Init, CallInv, Decided
<1>3. IInv /\ CallInv /\ [Next]_vars => CallInv'
  BY CallStep DEF IInv
<1>4. IInv /\ CallInv /\ [Next]_vars => [Abstract!Next]_(Abstract!vars)
  BY OthersImplement, ReadersImplement
<1>. QED BY <1>1, <1>2, <1>3, <1>4, Invariance, PTL
     DEF Spec, ImplementsInputQueue, Abstract!Spec

(***************************************************************************)
(* What follows from the promise: no report is handed out twice or out of  *)
(* order.  The queue holds reports that arrived, each newer than the one   *)
(* before it.                                                              *)
(***************************************************************************)
Increasing(q, n) ==
    /\ n \in Nat /\ q \in Seq(1..n)
    /\ \A i, j \in 1..Len(q) : i < j => q[i] < q[j]

OldestOf(q, n) == IF q = <<>> THEN n + 1 ELSE Head(q)

(* A report that arrives is the newest one, in a queue that may be empty.  *)
LEMMA AppendOrder ==
    ASSUME NEW n, NEW q, Increasing(q, n)
    PROVE  /\ Increasing(Append(q, n + 1), n + 1)
           /\ OldestOf(q, n) <= OldestOf(Append(q, n + 1), n + 1)
           /\ OldestOf(q, n) \in Nat
<1>1. n \in Nat /\ q \in Seq(1..n) /\ Len(q) \in Nat
  BY DEF Increasing
<1>2. \A i \in 1..Len(q) : q[i] \in 1..n
  BY <1>1
<1>3. DEFINE a == Append(q, n + 1)
<1>4. a \in Seq(1..(n + 1)) /\ Len(a) = Len(q) + 1 /\ a[Len(q) + 1] = n + 1
      /\ \A i \in 1..Len(q) : a[i] = q[i]
  BY <1>1, <1>2
<1>5. \A i, j \in 1..Len(a) : i < j => a[i] < a[j]
  <2>1. TAKE i, j \in 1..Len(a)
  <2>2. HAVE i < j
  <2>3. i \in 1..Len(q) /\ a[i] = q[i] /\ q[i] \in 1..n
    BY <1>1, <1>2, <1>4, <2>2
  <2>4. CASE j = Len(q) + 1
    BY <1>1, <1>4, <2>3, <2>4
  <2>5. CASE j \in 1..Len(q)
    BY <1>4, <2>2, <2>3, <2>5 DEF Increasing
  <2>. QED BY <1>1, <1>4, <2>4, <2>5
<1>6. Increasing(a, n + 1)
  <2>1. n + 1 \in Nat
    BY <1>1
  <2>. HIDE DEF a
  <2>. QED BY <2>1, <1>4, <1>5 DEF Increasing
<1>7. OldestOf(q, n) \in Nat /\ OldestOf(q, n) <= OldestOf(a, n + 1)
  <2>1. CASE q = <<>>
    <3>1. a # <<>> /\ Head(a) = n + 1
      BY <1>1, <1>4, <2>1
    <3>. QED BY <1>1, <2>1, <3>1 DEF OldestOf
  <2>2. CASE q # <<>>
    <3>1. a # <<>> /\ Head(a) = Head(q) /\ Head(q) \in 1..n
      BY <1>1, <1>2, <1>4, <2>2
    <3>. QED BY <1>1, <2>2, <3>1 DEF OldestOf
  <2>. QED BY <2>1, <2>2
<1>. QED BY <1>6, <1>7

(* Without its first report the queue begins with a newer one.             *)
LEMMA TailOrder ==
    ASSUME NEW n, NEW q, Increasing(q, n), q # <<>>
    PROVE  /\ Increasing(Tail(q), n)
           /\ OldestOf(q, n) = Head(q) /\ Head(q) \in Nat
           /\ Head(q) < OldestOf(Tail(q), n)
           /\ OldestOf(Tail(q), n) \in Nat
<1>1. n \in Nat /\ q \in Seq(1..n) /\ Len(q) \in Nat \ {0}
  BY DEF Increasing
<1>2. Tail(q) \in Seq(1..n) /\ Len(Tail(q)) = Len(q) - 1
      /\ \A i \in 1..Len(Tail(q)) : Tail(q)[i] = q[i + 1]
  BY <1>1
<1>3. Head(q) = q[1] /\ q[1] \in 1..n
  BY <1>1
<1>4. Increasing(Tail(q), n)
  BY <1>1, <1>2 DEF Increasing
<1>5. CASE Tail(q) = <<>>
  BY <1>1, <1>3, <1>4, <1>5 DEF OldestOf
<1>6. CASE Tail(q) # <<>>
  <2>1. Len(Tail(q)) \in Nat \ {0}
    BY <1>2, <1>6
  <2>2. Head(Tail(q)) = q[2] /\ 2 \in 1..Len(q) /\ 1 \in 1..Len(q) /\ q[2] \in 1..n
    BY <1>1, <1>2, <2>1
  <2>3. q[1] < q[2]
    BY <2>2 DEF Increasing
  <2>. QED BY <1>1, <1>3, <1>4, <1>6, <2>2, <2>3, SMTT(30) DEF OldestOf
<1>. QED BY <1>5, <1>6

OrderInv == Increasing(input_reports, sent)

(* An arrival, even one that gives up the oldest report.                   *)
LEMMA ArriveInOrder ==
    ASSUME OrderInv, Abstract!Arrive
    PROVE  OrderInv' /\ Abstract!Oldest <= Abstract!Oldest'
<1>1. Abstract!Oldest = OldestOf(input_reports, sent)
  BY DEF Abstract!Oldest, OldestOf
<1>2. Abstract!Oldest' = OldestOf(input_reports', sent')
  BY DEF Abstract!Oldest, OldestOf
<1>3. CASE input_reports' = Append(input_reports, sent + 1)
  BY <1>1, <1>2, <1>3, AppendOrder DEF OrderInv, Abstract!Arrive
<1>4. CASE input_reports' = Append(Tail(input_reports), sent + 1) /\ input_reports # <<>>
  <2>1. /\ Increasing(Tail(input_reports), sent)
        /\ OldestOf(input_reports, sent) = Head(input_reports)
        /\ Head(input_reports) \in Nat
        /\ Head(input_reports) < OldestOf(Tail(input_reports), sent)
        /\ OldestOf(Tail(input_reports), sent) \in Nat
    BY <1>4, TailOrder DEF OrderInv
  <2>2. Increasing(input_reports', sent')
        /\ OldestOf(Tail(input_reports), sent) <= OldestOf(input_reports', sent')
    BY <1>4, <2>1, AppendOrder DEF Abstract!Arrive
  <2>3. OldestOf(input_reports', sent') \in Nat
    BY <2>2, AppendOrder
  <2>. QED BY <1>1, <1>2, <2>1, <2>2, <2>3 DEF OrderInv
<1>5. input_reports = <<>> => Len(input_reports) < Limit + 2
  BY LimitAssumption
<1>. QED BY <1>3, <1>4, <1>5 DEF Abstract!Arrive

(* The readers of the promise, as functions.                               *)
LEMMA HandedOutSeen ==
    ASSUME NEW r \in Readers
    PROVE  /\ Abstract!HandedOut(r) <=>
                absCall[r] # "none" /\ absCall'[r] = "none" /\ absResult'[r] > 0
           /\ DOMAIN absCall = Readers /\ DOMAIN absResult = Readers
           /\ [s \in Readers |-> IF Decided(s) THEN result[s] ELSE Empty]'[r] = absResult'[r]
BY DEF Abstract!HandedOut, absCall, absResult

(* The report that is handed out is older than all that are left.          *)
LEMMA ReturnInOrder ==
    ASSUME OrderInv, NEW r \in Readers, Abstract!ReturnReport(r)
    PROVE  OrderInv' /\ Abstract!HandsOutInOrder
<1>1. Abstract!Oldest = OldestOf(input_reports, sent)
  BY DEF Abstract!Oldest, OldestOf
<1>2. Abstract!Oldest' = OldestOf(input_reports', sent')
  BY DEF Abstract!Oldest, OldestOf
<1>3. /\ Increasing(input_reports', sent')
      /\ Abstract!Oldest = Head(input_reports) /\ Head(input_reports) \in Nat
      /\ Head(input_reports) < Abstract!Oldest' /\ Abstract!Oldest' \in Nat
  BY <1>1, <1>2, TailOrder DEF OrderInv, Abstract!ReturnReport, Abstract!Return
<1>4. /\ absCall' = [absCall EXCEPT ![r] = "none"]
      /\ absResult' = [absResult EXCEPT ![r] = Head(input_reports)]
  BY DEF Abstract!ReturnReport, Abstract!Return, absCall, absResult
<1>5. ASSUME NEW s \in Readers, Abstract!HandedOut(s)
      PROVE  s = r
  BY <1>4, <1>5, HandedOutSeen
<1>6. absResult'[r] = Head(input_reports)
  BY <1>4, HandedOutSeen
<1>7. ASSUME NEW s \in Readers, Abstract!HandedOut(s)
      PROVE  /\ Abstract!Oldest <= [t \in Readers |-> IF Decided(t) THEN result[t] ELSE Empty]'[s]
             /\ [t \in Readers |-> IF Decided(t) THEN result[t] ELSE Empty]'[s] < Abstract!Oldest'
             /\ \A t \in Readers \ {s} : ~Abstract!HandedOut(t)
  BY <1>3, <1>5, <1>6, <1>7, HandedOutSeen
<1>8. Abstract!Oldest <= Abstract!Oldest'
  BY <1>3
<1>. QED BY <1>3, <1>7, <1>8 DEF OrderInv, Abstract!HandsOutInOrder

(* Nobody gets a report by the other steps of readers. *)
LEMMA NothingHandedOut ==
    ASSUME NEW r \in Readers,
           \/ \E m \in Abstract!Modes : Abstract!Begin(r, m)
           \/ Abstract!Refuse(r) \/ Abstract!ReturnEmpty(r) \/ Abstract!ReturnError(r)
    PROVE  \A s \in Readers : ~Abstract!HandedOut(s)
<1>. SUFFICES ASSUME NEW s \in Readers, absCall[s] # "none", absCall'[s] = "none"
              PROVE  ~(absResult'[s] > 0)
  BY HandedOutSeen
<1>1. ASSUME NEW m \in Abstract!Modes, Abstract!Begin(r, m) PROVE FALSE
  <2>1. absCall[r] = "none" /\ absCall' = [absCall EXCEPT ![r] = m]
    BY <1>1 DEF Abstract!Begin, absCall
  <2>. QED BY <2>1, HandedOutSeen
<1>2. CASE Abstract!Refuse(r)
  <2>1. absCall' = absCall
    BY <1>2 DEF Abstract!Refuse, absCall
  <2>. QED BY <2>1
<1>3. ASSUME NEW v \in {Empty, Error}, Abstract!Return(r, v) PROVE ~(absResult'[s] > 0)
  <2>1. /\ absCall' = [absCall EXCEPT ![r] = "none"]
        /\ absResult' = [absResult EXCEPT ![r] = v]
    BY <1>3 DEF Abstract!Return, absCall, absResult
  <2>2. s = r /\ absResult'[s] = v
    BY <2>1, HandedOutSeen
  <2>. QED BY <2>2 DEF Empty, Error
<1>. QED BY <1>1, <1>2, <1>3, AbsFacts DEF Abstract!ReturnEmpty, Abstract!ReturnError

(* Steps that hand out nothing leave the queue or empty it.                *)
LEMMA OthersInOrder ==
    ASSUME OrderInv, sent' = sent, input_reports' \in {input_reports, <<>>},
           \A s \in Readers : ~Abstract!HandedOut(s)
    PROVE  OrderInv' /\ Abstract!HandsOutInOrder
<1>1. OldestOf(input_reports, sent) \in Nat /\ sent \in Nat /\ OldestOf(input_reports, sent) <= sent + 1
  <2>1. CASE input_reports = <<>>
    BY <2>1 DEF OrderInv, Increasing, OldestOf
  <2>2. CASE input_reports # <<>>
    <3>1. Head(input_reports) \in 1..sent
      BY <2>2 DEF OrderInv, Increasing
    <3>. QED BY <2>2, <3>1 DEF OrderInv, Increasing, OldestOf
  <2>. QED BY <2>1, <2>2
<1>2. Abstract!Oldest <= Abstract!Oldest'
  BY <1>1 DEF Abstract!Oldest, OldestOf
<1>3. Increasing(<<>>, sent)
  BY <1>1 DEF Increasing
<1>. QED BY <1>2, <1>3 DEF OrderInv, Abstract!HandsOutInOrder

(* The order of the queue is inductive, and every step hands out in order. *)
LEMMA OrderStep ==
    OrderInv /\ [Abstract!Next]_(Abstract!vars)
        => OrderInv' /\ [Abstract!HandsOutInOrder]_(Abstract!vars)
<1>. SUFFICES ASSUME OrderInv, [Abstract!Next]_(Abstract!vars)
              PROVE  OrderInv' /\ [Abstract!HandsOutInOrder]_(Abstract!vars)
  OBVIOUS
<1>1. CASE UNCHANGED Abstract!vars
  BY <1>1 DEF Abstract!vars, OrderInv
<1>2. CASE Abstract!Arrive
  <2>1. \A s \in Readers : ~Abstract!HandedOut(s)
    <3>1. absCall' = absCall
      BY <1>2 DEF Abstract!Arrive, absCall
    <3>. QED BY <3>1, HandedOutSeen
  <2>. QED BY <1>2, <2>1, ArriveInOrder DEF Abstract!HandsOutInOrder
<1>3. CASE Abstract!Stop \/ Abstract!Discard
  <2>1. \A s \in Readers : ~Abstract!HandedOut(s)
    <3>1. absCall' = absCall
      BY <1>3 DEF Abstract!Stop, Abstract!Discard, absCall
    <3>. QED BY <3>1, HandedOutSeen
  <2>. QED BY <1>3, <2>1, OthersInOrder DEF Abstract!Stop, Abstract!Discard
<1>4. ASSUME NEW r \in Readers, Abstract!ReturnReport(r)
      PROVE  OrderInv' /\ [Abstract!HandsOutInOrder]_(Abstract!vars)
  BY <1>4, ReturnInOrder
<1>5. ASSUME NEW r \in Readers,
             \/ \E m \in Abstract!Modes : Abstract!Begin(r, m)
             \/ Abstract!Refuse(r) \/ Abstract!ReturnEmpty(r) \/ Abstract!ReturnError(r)
      PROVE  OrderInv' /\ [Abstract!HandsOutInOrder]_(Abstract!vars)
  <2>1. sent' = sent /\ input_reports' = input_reports
    BY <1>5 DEF Abstract!Begin, Abstract!Refuse, Abstract!ReturnEmpty, Abstract!ReturnError,
                Abstract!Return
  <2>. QED BY <1>5, <2>1, NothingHandedOut, OthersInOrder
<1>. QED BY <1>1, <1>2, <1>3, <1>4, <1>5 DEF Abstract!Next

(* hid_read returns reports in the order of their arrival and none twice,  *)
(* whichever readers get them, for any number of readers and reports.      *)
THEOREM HandsOutOnce == Spec => HandedOutOnce
<1>1. Abstract!Init => OrderInv
  BY DEF Abstract!Init, OrderInv, Increasing
<1>2. Abstract!Spec => HandedOutOnce
  BY <1>1, OrderStep, PTL DEF Abstract!Spec, HandedOutOnce, Abstract!HandedOutOnce
<1>. QED BY <1>2, Refinement, PTL DEF ImplementsInputQueue

(***************************************************************************)
(* One reader: -1 from a blocking read is explained.  The reason is        *)
(* registered before the mutex is given back, so the invariant covers the  *)
(* unlock too.  With two readers the next call of the other one clears it. *)
(***************************************************************************)
ExplainedInv == \A r \in Readers :
    Decided(r) /\ mode[r] = "blocking" /\ result[r] = Error => read_error

(* What a reader takes is a report, never -1. *)
LEMMA TakenIsReport ==
    ASSUME TypeOK, NEW r \in Readers, TakeReport(r), input_reports # <<>>
    PROVE  result'[r] # Error
<1>. DEFINE q == input_reports
<1>1. q \in Seq(Nat) /\ q # <<>>
  BY DEF TypeOK, QueueTypeOK
<1>. HIDE DEF q
<1>2. Head(q) \in Nat
  BY <1>1
<1>3. result'[r] = Head(q)
  BY DEF TakeReport, TypeOK, ReaderTypeOK, q
<1>. QED BY <1>2, <1>3 DEF Error

LEMMA ExplainedStep ==
    ASSUME SingleReader
    PROVE  TypeOK /\ CallInv /\ ExplainedInv /\ [Next]_vars => ExplainedInv'
<1>. SUFFICES ASSUME TypeOK, CallInv, ExplainedInv, [Next]_vars PROVE ExplainedInv'
  OBVIOUS
<1>. USE DEF ExplainedInv, Decided
<1>1. CASE UNCHANGED readerVars
  BY <1>1 DEF readerVars
<1>2. CASE RtBroadcast
  BY <1>2 DEF RtBroadcast, TypeOK, ReaderTypeOK
<1>3. CASE CallbackEnqueue
  BY <1>3 DEF CallbackEnqueue, Signal, TypeOK, ReaderTypeOK
<1>4. ASSUME NEW r \in Readers, Read(r) PROVE ExplainedInv'
  <2>. SUFFICES reader'[r] \in {"out", "unlock"} /\ mode'[r] = "blocking" /\ result'[r] = Error
                => read_error'
    BY DEF SingleReader
  <2>. USE DEF Moves, TypeOK, ReaderTypeOK
  <2>1. CASE hid_read(r) \/ hid_read_timeout(r)
    BY <2>1 DEF hid_read, hid_read_timeout, ReadBegins
  <2>2. CASE ReadRefused(r)
    BY <2>2 DEF ReadRefused
  <2>3. CASE SpuriousWakeup(r) \/ ReadExpires(r) \/ ReadLocks(r) \/ ReadSleeps(r)
    BY <2>3 DEF SpuriousWakeup, ReadExpires, ReadLocks, ReadSleeps
  <2>4. CASE ReadWakes(r)
    BY <2>4 DEF ReadWakes, Error, Empty
  <2>5. CASE ReadUnlocks(r)
    BY <2>5 DEF ReadUnlocks
  <2>6. CASE ReadFirstLook(r)
    <3>1. CASE input_reports # <<>> /\ TakeReport(r)
      BY <3>1, TakenIsReport
    <3>. QED BY <2>6, <3>1 DEF ReadFirstLook, Error, Empty
  <2>7. CASE ReadTest(r)
    <3>1. CASE input_reports # <<>> /\ TakeReport(r)
      BY <3>1, TakenIsReport
    <3>. QED BY <2>7, <3>1 DEF ReadTest, TestRegisters
  <2>8. CASE ReadRecheck(r)
    <3>1. CASE input_reports # <<>> /\ TakeReport(r)
      BY <3>1, TakenIsReport
    <3>. QED BY <2>8, <3>1 DEF ReadRecheck
  <2>. QED BY <1>4, <2>1, <2>2, <2>3, <2>4, <2>5, <2>6, <2>7, <2>8 DEF Read, InCall
<1>. QED BY <1>1, <1>2, <1>3, <1>4, ReaderVarsFrame

(* A blocking read that returned -1 to a lone reader left its reason in    *)
(* hid_read_error, whether the shutdown came before the first look or      *)
(* while it slept.                                                         *)
THEOREM BlockingErrorHasReason ==
    ASSUME SingleReader
    PROVE  Spec => []BlockingErrorExplained
<1>1. Init => CallInv /\ ExplainedInv
  BY DEF Init, CallInv, ExplainedInv, Decided, Error, Empty
<1>2. TypeOK /\ CallInv /\ ExplainedInv /\ [Next]_vars => CallInv' /\ ExplainedInv'
  BY CallStep, ExplainedStep
<1>3. ExplainedInv => BlockingErrorExplained
  BY DEF ExplainedInv, BlockingErrorExplained, Decided
<1>. QED BY <1>1, <1>2, <1>3, TypeCorrect, PTL DEF Spec
=============================================================================
