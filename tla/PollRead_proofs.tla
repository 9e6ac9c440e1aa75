--------------------------- MODULE PollRead_proofs ---------------------------
(***************************************************************************)
(* Proofs about PollRead, for both backends, any number of descriptors and *)
(* of reports: the types, that a blocking read() only follows a poll that  *)
(* found its descriptor ready, that every report is handed out once and in *)
(* the order of its descriptor, and that a device with one descriptor      *)
(* keeps the promise of InputQueue.                                        *)
(***************************************************************************)
EXTENDS PollRead, WellFoundedInduction, TLAPS

(***************************************************************************)
(* The inductive invariant, in named parts.                                *)
(***************************************************************************)
DeviceTypeOK ==
    /\ backend \in {"linux", "netbsd"}
    /\ \E n \in Nat \ {0} : Handles = 1..n
    /\ backend = "linux" => Handles = {1}
    /\ blocking \in BOOLEAN /\ open \in BOOLEAN
QueueTypeOK ==
    /\ arrived \in 0..MaxReports
    /\ queues \in [Handles -> Seq(1..MaxReports)]
    /\ gone \subseteq Handles
CallTypeOK ==
    /\ pc \in {"out", "poll", "read"}
    /\ function \in {"none", "hid_read", "hid_read_timeout"}
    /\ milliseconds \in Limits /\ ph \in Handles
    /\ answer \in {Empty, Error} \cup 1..MaxReports
TypeOK == DeviceTypeOK /\ QueueTypeOK /\ CallTypeOK

(* No queue holds more than arrived. *)
LengthInv == \A h \in Handles : Len(queues[h]) <= arrived

(* Inside a call there is no answer and no error yet, hid_read has the     *)
(* limit of the mode, and only Linux reads without having polled.          *)
CallInv ==
    pc # "out" =>
        /\ answer = Empty /\ read_error = NoError
        /\ function = "hid_read" => milliseconds = Limit
        /\ function \in {"hid_read", "hid_read_timeout"}

(* The descriptors are blocking: what the poll chose stays ready until it  *)
(* is read.                                                                *)
Polled == backend = "netbsd" \/ milliseconds # Forever
ReadNeverWaits == pc = "read" /\ Polled => Ready(ph)

IInv == TypeOK /\ LengthInv /\ CallInv /\ ReadNeverWaits

Reader == \/ \E limit \in Limits : hid_read_timeout(limit)
          \/ hid_read \/ Reading

LEMMA Steps ==
    ASSUME TypeOK, [Next]_vars
    PROVE  \/ \E h \in Handles : Arrive(h) \/ Unplug(h)
           \/ \E nonblock \in BOOLEAN : hid_set_nonblocking(nonblock)
           \/ \E limit \in Limits : Reads(limit) /\ function' = "hid_read_timeout"
           \/ Reads(Limit) /\ function' = "hid_read" /\ Limit \in Limits
           \/ ZeroBuffer \/ hid_close
           \/ poll_times_out \/ poll_returns \/ read \/ UNCHANGED vars
BY DEF Next, Reading, hid_read_timeout, hid_read, Limit, Limits

(* Min of the community modules picks a least element: < is well-founded. *)
LEMMA MinFacts ==
    ASSUME NEW S, S \subseteq Nat, S # {}
    PROVE  Min(S) \in S /\ \A y \in S : Min(S) <= y
<1>. DEFINE R == {pair \in Nat \X Nat : pair[1] < pair[2]}
<1>1. IsWellFoundedOn(R, Nat)
  BY NatLessThanWellFounded DEF OpToRel
<1>. HIDE DEF R
<1>2. PICK x \in S : \A y \in S : ~(<<y, x>> \in R)
  BY <1>1, WFMin
<1>3. \A y \in S : x <= y
  <2>. SUFFICES ASSUME NEW y \in S, ~(x <= y) PROVE FALSE
    OBVIOUS
  <2>1. <<y, x>> \in R
    BY DEF R
  <2>. QED BY <1>2, <2>1
<1>. QED BY <1>3, Zenon DEF Min

(* The descriptor the poll chooses is ready. *)
LEMMA ChosenFacts ==
    ASSUME TypeOK, \E h \in Handles : Ready(h)
    PROVE  Chosen \in Handles /\ Ready(Chosen)
<1>. DEFINE S == {h \in Handles : Ready(h)}
<1>1. S \subseteq Nat /\ S # {}
  BY DEF TypeOK, DeviceTypeOK
<1>2. Min(S) \in S
  BY <1>1, MinFacts
<1>. QED BY <1>2 DEF Chosen

LEMMA InitInvariant == Init => IInv
<1>. SUFFICES ASSUME Init PROVE IInv
  OBVIOUS
<1>1. PICK n \in 1..MaxHandles :
        (backend = "linux" => n = 1) /\ queues = [h \in 1..n |-> <<>>]
  BY DEF Init
<1>2. Handles = 1..n /\ n \in Nat \ {0}
  BY <1>1, PollAssumption DEF Handles
<1>3. DeviceTypeOK
  <2>1. backend \in {"linux", "netbsd"} /\ (backend = "linux" => Handles = {1})
    BY <1>1, <1>2, PollAssumption DEF Init
  <2>2. blocking \in BOOLEAN /\ open \in BOOLEAN
    BY Zenon DEF Init
  <2>. QED BY <1>2, <2>1, <2>2 DEF DeviceTypeOK
<1>4. QueueTypeOK
  BY <1>1, <1>2, PollAssumption DEF Init, QueueTypeOK
<1>5. CallTypeOK
  BY <1>2 DEF Init, CallTypeOK, Limits, Forever, Empty
<1>6. LengthInv
  BY <1>1, <1>2 DEF Init, LengthInv
<1>7. CallInv /\ ReadNeverWaits
  BY DEF Init, CallInv, ReadNeverWaits
<1>. QED BY <1>3, <1>4, <1>5, <1>6, <1>7 DEF IInv, TypeOK

(* A report arrives for a descriptor that has its device. *)
LEMMA ArriveStep ==
    ASSUME IInv, NEW h \in Handles, Arrive(h)
    PROVE  IInv'
<1>. USE DEF IInv, TypeOK
<1>1. /\ arrived' = arrived + 1 /\ arrived' \in 1..MaxReports
      /\ queues' = [queues EXCEPT ![h] = Append(@, arrived')]
      /\ UNCHANGED <<backend, gone, blocking, open, pc, function, milliseconds, ph, answer, read_error>>
  BY PollAssumption DEF Arrive, devVars, callVars, QueueTypeOK
<1>2. Handles' = Handles
  BY <1>1 DEF Handles
<1>3. Append(queues[h], arrived') \in Seq(1..MaxReports)
      /\ Len(Append(queues[h], arrived')) = Len(queues[h]) + 1
      /\ Append(queues[h], arrived') # <<>>
  BY <1>1 DEF QueueTypeOK
<1>4. QueueTypeOK'
  BY <1>1, <1>2, <1>3 DEF QueueTypeOK
<1>5. LengthInv'
  BY <1>1, <1>2, <1>3 DEF LengthInv, QueueTypeOK
<1>6. DeviceTypeOK'
  BY <1>1, <1>2 DEF DeviceTypeOK
<1>7. CallTypeOK'
  BY <1>1, <1>2 DEF CallTypeOK
<1>8. CallInv'
  BY <1>1 DEF CallInv, Limit
<1>9. ReadNeverWaits'
  BY <1>1, <1>3 DEF ReadNeverWaits, Polled, Ready, Readable, QueueTypeOK
<1>. QED BY <1>4, <1>5, <1>6, <1>7, <1>8, <1>9

(* A device goes; a call begins; the others between calls. *)
LEMMA OutsideStep ==
    ASSUME IInv,
           \/ \E h \in Handles : Unplug(h)
           \/ \E nonblock \in BOOLEAN : hid_set_nonblocking(nonblock)
           \/ ZeroBuffer \/ hid_close \/ UNCHANGED vars
    PROVE  IInv'
<1>. USE DEF IInv, TypeOK
<1>1. /\ UNCHANGED <<backend, queues, arrived, pc, function, milliseconds, ph>>
      /\ gone \subseteq gone' /\ gone' \subseteq Handles
      /\ blocking' \in BOOLEAN /\ open' \in BOOLEAN
  <2>1. CASE \E h \in Handles : Unplug(h)
    BY <2>1 DEF Unplug, devVars, callVars, QueueTypeOK, DeviceTypeOK
  <2>2. CASE \E nonblock \in BOOLEAN : hid_set_nonblocking(nonblock)
    BY <2>2 DEF hid_set_nonblocking, kernelVars, callVars, QueueTypeOK, DeviceTypeOK
  <2>3. CASE ZeroBuffer
    BY <2>3 DEF ZeroBuffer, kernelVars, devVars, QueueTypeOK, DeviceTypeOK
  <2>4. CASE hid_close \/ UNCHANGED vars
    BY <2>4 DEF hid_close, vars, kernelVars, devVars, callVars, QueueTypeOK, DeviceTypeOK
  <2>. QED BY <2>1, <2>2, <2>3, <2>4
<1>2. /\ answer' \in {answer, Error}
      /\ pc # "out" => UNCHANGED <<blocking, answer, read_error>>
  BY DEF Unplug, hid_set_nonblocking, ZeroBuffer, hid_close, vars, devVars, callVars
<1>3. Handles' = Handles
  BY <1>1 DEF Handles
<1>4. DeviceTypeOK'
  BY <1>1, <1>3 DEF DeviceTypeOK
<1>5. QueueTypeOK' /\ LengthInv'
  BY <1>1, <1>3 DEF QueueTypeOK, LengthInv
<1>6. CallTypeOK'
  BY <1>1, <1>2, <1>3 DEF CallTypeOK
<1>7. CallInv'
  BY <1>1, <1>2 DEF CallInv, Limit
<1>8. ReadNeverWaits'
  BY <1>1 DEF ReadNeverWaits, Polled, Ready, Readable
<1>. QED BY <1>4, <1>5, <1>6, <1>7, <1>8

LEMMA ReadsStep ==
    ASSUME IInv, NEW limit \in Limits, Reads(limit),
           \/ function' = "hid_read_timeout"
           \/ function' = "hid_read" /\ limit = Limit
    PROVE  IInv'
<1>. USE DEF IInv, TypeOK
<1>1. /\ UNCHANGED <<backend, queues, gone, arrived, blocking, open>>
      /\ milliseconds' = limit /\ answer' = Empty /\ read_error' = NoError /\ ph' = 1
      /\ pc' = IF backend = "linux" /\ limit = Forever THEN "read" ELSE "poll"
  BY DEF Reads, kernelVars, devVars
<1>2. Handles' = Handles /\ 1 \in Handles
  BY <1>1 DEF Handles, DeviceTypeOK
<1>3. DeviceTypeOK'
  BY <1>1, <1>2 DEF DeviceTypeOK
<1>4. QueueTypeOK' /\ LengthInv'
  BY <1>1, <1>2 DEF QueueTypeOK, LengthInv
<1>5. CallTypeOK'
  BY <1>1, <1>2 DEF CallTypeOK
<1>6. CallInv'
  BY <1>1 DEF CallInv, Limit
<1>7. ReadNeverWaits'
  BY <1>1 DEF ReadNeverWaits, Polled
<1>. QED BY <1>3, <1>4, <1>5, <1>6, <1>7

(* What a call does that ends.  The queue it reads loses at most its head. *)
Takes(h) == Readable(h) /\ queues' = [queues EXCEPT ![h] = Tail(@)] /\ answer' = Head(queues[h])

LEMMA TakenFacts ==
    ASSUME TypeOK, NEW h \in Handles, Takes(h)
    PROVE  /\ Handles' = Handles
           /\ queues' \in [Handles -> Seq(1..MaxReports)]
           /\ answer' \in 1..MaxReports
           /\ Len(queues'[h]) = Len(queues[h]) - 1
           /\ \A g \in Handles \ {h} : queues'[g] = queues[g]
<1>1. queues \in [Handles -> Seq(1..MaxReports)] /\ queues[h] # <<>>
  BY DEF TypeOK, QueueTypeOK, Takes, Readable
<1>2. /\ Head(queues[h]) \in 1..MaxReports /\ Tail(queues[h]) \in Seq(1..MaxReports)
      /\ Len(Tail(queues[h])) = Len(queues[h]) - 1
  <2>1. ASSUME NEW S, NEW q \in Seq(S), q # <<>>
        PROVE  Head(q) \in S /\ Tail(q) \in Seq(S) /\ Len(Tail(q)) = Len(q) - 1
    BY <2>1
  <2>. QED BY <1>1, <2>1
<1>3. DOMAIN queues = Handles
  BY DEF Handles
<1>. QED BY <1>1, <1>2, <1>3 DEF Takes, Handles

LEMMA ReturnStep ==
    ASSUME IInv, NEW value, NEW err, Returns(value, err),
           \/ UNCHANGED queues /\ value \in {Empty, Error}
           \/ \E h \in Handles : Takes(h)
    PROVE  IInv'
<1>. USE DEF IInv, TypeOK
<1>1. /\ UNCHANGED <<backend, gone, arrived, blocking, open, function, milliseconds, ph>>
      /\ pc' = "out" /\ answer' = value
  BY DEF Returns, devVars
<1>2. /\ Handles' = Handles
      /\ queues' \in [Handles -> Seq(1..MaxReports)]
      /\ answer' \in {Empty, Error} \cup 1..MaxReports
  <2>1. CASE UNCHANGED queues /\ value \in {Empty, Error}
    BY <1>1, <2>1 DEF Handles, QueueTypeOK
  <2>2. CASE \E h \in Handles : Takes(h)
    BY <2>2, TakenFacts
  <2>. QED BY <2>1, <2>2
<1>3. \A h \in Handles : Len(queues'[h]) <= Len(queues[h])
  <2>1. CASE UNCHANGED queues
    BY <2>1 DEF QueueTypeOK
  <2>2. CASE \E h \in Handles : Takes(h)
    BY <2>2, TakenFacts DEF QueueTypeOK
  <2>. QED BY <2>1, <2>2
<1>4. DeviceTypeOK'
  BY <1>1, <1>2 DEF DeviceTypeOK
<1>5. QueueTypeOK'
  BY <1>1, <1>2 DEF QueueTypeOK
<1>6. LengthInv'
  BY <1>1, <1>2, <1>3 DEF LengthInv, QueueTypeOK
<1>7. CallTypeOK'
  BY <1>1, <1>2 DEF CallTypeOK
<1>8. CallInv' /\ ReadNeverWaits'
  BY <1>1 DEF CallInv, ReadNeverWaits
<1>. QED BY <1>4, <1>5, <1>6, <1>7, <1>8

(* The descriptor the poll chose. *)
ChoosesToRead ==
    /\ pc = "poll" /\ Chosen \in Handles \ gone /\ Ready(Chosen)
    /\ ph' = Chosen /\ pc' = "read"
    /\ UNCHANGED <<kernelVars, devVars, function, milliseconds, answer, read_error>>

LEMMA ChooseStep ==
    ASSUME IInv, ChoosesToRead
    PROVE  IInv'
<1>. USE DEF IInv, TypeOK
<1>1. /\ UNCHANGED <<backend, queues, gone, arrived, blocking, open, function, milliseconds,
                     answer, read_error>>
      /\ ph' \in Handles /\ pc' = "read" /\ Ready(ph') /\ pc = "poll"
  BY DEF ChoosesToRead, kernelVars, devVars
<1>2. Handles' = Handles
  BY <1>1 DEF Handles
<1>3. DeviceTypeOK'
  BY <1>1, <1>2 DEF DeviceTypeOK
<1>4. QueueTypeOK' /\ LengthInv'
  BY <1>1, <1>2 DEF QueueTypeOK, LengthInv
<1>5. CallTypeOK'
  BY <1>1, <1>2 DEF CallTypeOK
<1>6. CallInv'
  BY <1>1 DEF CallInv, Limit
<1>7. ReadNeverWaits'
  BY <1>1 DEF ReadNeverWaits, Ready, Readable
<1>. QED BY <1>3, <1>4, <1>5, <1>6, <1>7

(* How the steps of a call end it or go on. *)
LEMMA ReadingSteps ==
    ASSUME TypeOK, poll_times_out \/ poll_returns \/ read
    PROVE  \/ /\ pc = "poll" /\ milliseconds # Forever /\ \A h \in Handles : ~Readable(h)
              /\ Returns(Empty, read_error) /\ UNCHANGED queues
           \/ \E err : /\ pc # "out" /\ gone # {} /\ err # NoError
                       /\ Returns(Error, err) /\ UNCHANGED queues
           \/ pc = "read" /\ Takes(ph) /\ Returns(Head(queues[ph]), read_error)
           \/ ChoosesToRead
<1>1. CASE poll_times_out
  BY <1>1 DEF poll_times_out, Ready
<1>2. CASE poll_returns
  <2>1. Chosen \in Handles /\ Ready(Chosen) /\ pc = "poll"
    BY <1>2, ChosenFacts DEF poll_returns
  <2>2. CASE Chosen \in gone /\ Returns(Error, "device IO error while polling") /\ UNCHANGED queues
    BY <2>1, <2>2 DEF NoError
  <2>3. CASE Chosen \notin gone
    BY <1>2, <2>1, <2>3 DEF poll_returns, ChoosesToRead
  <2>. QED BY <1>2, <2>2, <2>3 DEF poll_returns
<1>3. CASE read
  <2>1. CASE /\ Readable(ph) /\ queues' = [queues EXCEPT ![ph] = Tail(@)]
             /\ Returns(Head(queues[ph]), read_error)
    BY <1>3, <2>1 DEF read, Takes, Returns
  <2>2. CASE ph \in gone /\ Returns(Error, "EIO") /\ UNCHANGED queues
    BY <1>3, <2>2 DEF read, NoError
  <2>. QED BY <1>3, <2>1, <2>2 DEF read
<1>. QED BY <1>1, <1>2, <1>3

LEMMA StepInvariant == IInv /\ [Next]_vars => IInv'
<1>. SUFFICES ASSUME IInv, [Next]_vars PROVE IInv'
  OBVIOUS
<1>0. TypeOK /\ ph \in Handles
  BY DEF IInv, TypeOK, CallTypeOK
<1>1. CASE \E h \in Handles : Arrive(h)
  BY <1>1, ArriveStep
<1>2. CASE \/ \E h \in Handles : Unplug(h)
           \/ \E nonblock \in BOOLEAN : hid_set_nonblocking(nonblock)
           \/ ZeroBuffer \/ hid_close \/ UNCHANGED vars
  BY <1>2, OutsideStep
<1>3. CASE \E limit \in Limits : Reads(limit) /\ function' = "hid_read_timeout"
  BY <1>3, ReadsStep
<1>4. CASE Reads(Limit) /\ function' = "hid_read" /\ Limit \in Limits
  BY <1>4, ReadsStep
<1>5. CASE poll_times_out \/ poll_returns \/ read
  <2>1. CASE Returns(Empty, read_error) /\ UNCHANGED queues
    BY <2>1, ReturnStep
  <2>2. CASE \E err : Returns(Error, err) /\ UNCHANGED queues
    BY <2>2, ReturnStep
  <2>3. CASE Takes(ph) /\ Returns(Head(queues[ph]), read_error)
    BY <1>0, <2>3, ReturnStep
  <2>4. CASE ChoosesToRead
    BY <2>4, ChooseStep
  <2>. QED BY <1>0, <1>5, <2>1, <2>2, <2>3, <2>4, ReadingSteps
<1>. QED BY <1>0, <1>1, <1>2, <1>3, <1>4, <1>5, Steps

(* The inductive invariant holds in every reachable state. *)
THEOREM Invariance == Spec => []IInv
BY InitInvariant, StepInvariant, PTL DEF Spec

(* Type correctness: what the reader reads is a descriptor of its device.  *)
THEOREM TypeCorrect == Spec => []TypeOK
<1>1. IInv => TypeOK
  BY DEF IInv
<1>. QED BY <1>1, Invariance, PTL

(* The blocking read() that follows a poll never waits: the descriptor it  *)
(* reads has a report, or its device is gone.  So a read with a time limit *)
(* waits in the poll only, where the limit holds.                          *)
THEOREM ReadFollowsPoll == Spec => []ReadNeverWaits
<1>1. IInv => ReadNeverWaits
  BY DEF IInv
<1>. QED BY <1>1, Invariance, PTL

(***************************************************************************)
(* Several descriptors: no report is handed out twice or lost, and those   *)
(* of one descriptor keep their order.                                     *)
(***************************************************************************)
InOrder(q) == \A i, j \in 1..Len(q) : i < j => q[i] < q[j]
Known(q) == \A i \in 1..Len(q) : q[i] <= arrived
Apart(p, q) == \A i \in 1..Len(p), j \in 1..Len(q) : p[i] # q[j]

OrderInv ==
    /\ \A h \in Handles : InOrder(queues[h]) /\ Known(queues[h])
    /\ \A g, h \in Handles : g # h => Apart(queues[g], queues[h])

LEMMA AppendOrder ==
    ASSUME NEW q \in Seq(Nat), NEW n \in Nat, InOrder(q), \A i \in 1..Len(q) : q[i] < n
    PROVE  /\ InOrder(Append(q, n))
           /\ \A i \in 1..Len(Append(q, n)) :
                Append(q, n)[i] = n \/ \E j \in 1..Len(q) : Append(q, n)[i] = q[j]
<1>1. /\ Len(Append(q, n)) = Len(q) + 1 /\ Len(q) \in Nat
      /\ Append(q, n)[Len(q) + 1] = n
      /\ \A i \in 1..Len(q) : Append(q, n)[i] = q[i]
  OBVIOUS
<1>. QED BY <1>1 DEF InOrder

LEMMA TailOrder ==
    ASSUME NEW q \in Seq(Nat), q # <<>>, InOrder(q)
    PROVE  /\ InOrder(Tail(q)) /\ Len(Tail(q)) = Len(q) - 1
           /\ \A i \in 1..Len(Tail(q)) : Tail(q)[i] = q[i + 1] /\ Head(q) < Tail(q)[i]
           /\ Head(q) = q[1]
<1>1. /\ Len(Tail(q)) = Len(q) - 1 /\ Len(q) \in Nat \ {0} /\ Head(q) = q[1]
      /\ \A i \in 1..Len(q) - 1 : Tail(q)[i] = q[i + 1]
  OBVIOUS
<1>2. \A i \in 1..Len(q) - 1 : q[1] < q[i + 1]
  BY <1>1 DEF InOrder
<1>3. InOrder(Tail(q))
  BY <1>1 DEF InOrder
<1>. QED BY <1>1, <1>2, <1>3

LEMMA OrderStep == IInv /\ OrderInv /\ [Next]_vars => OrderInv'
<1>. SUFFICES ASSUME IInv, OrderInv, [Next]_vars PROVE OrderInv'
  OBVIOUS
<1>0. /\ TypeOK /\ ph \in Handles /\ arrived \in Nat /\ Handles = DOMAIN queues
      /\ \A h \in Handles : queues[h] \in Seq(Nat)
  <2>1. queues \in [Handles -> Seq(1..MaxReports)] /\ arrived \in 0..MaxReports
    BY DEF IInv, TypeOK, QueueTypeOK
  <2>2. ASSUME NEW h \in Handles PROVE queues[h] \in Seq(Nat)
    BY <2>1, PollAssumption DEF Handles
  <2>. QED BY <2>1, <2>2, PollAssumption DEF IInv, TypeOK, CallTypeOK, Handles
<1>1. ASSUME NEW h \in Handles, Arrive(h) PROVE OrderInv'
  <2>1. /\ arrived' = arrived + 1 /\ Handles' = Handles
        /\ queues'[h] = Append(queues[h], arrived + 1)
        /\ \A g \in Handles \ {h} : queues'[g] = queues[g]
    BY <1>0, <1>1 DEF Arrive, Handles
  <2>2. \A i \in 1..Len(queues[h]) : queues[h][i] < arrived + 1
    BY <1>0 DEF OrderInv, Known
  <2>3. /\ InOrder(queues'[h])
        /\ \A i \in 1..Len(queues'[h]) :
             queues'[h][i] = arrived + 1 \/ \E j \in 1..Len(queues[h]) : queues'[h][i] = queues[h][j]
    <3>1. queues[h] \in Seq(Nat) /\ arrived + 1 \in Nat /\ InOrder(queues[h])
      BY <1>0 DEF OrderInv
    <3>. QED BY <2>1, <2>2, <3>1, AppendOrder
  <2>4. Known(queues[h])' /\ \A g \in Handles \ {h} : Known(queues[g])'
    BY <1>0, <2>1, <2>3 DEF OrderInv, Known
  <2>5. ASSUME NEW g \in Handles \ {h}
        PROVE  Apart(queues'[g], queues'[h]) /\ Apart(queues'[h], queues'[g])
    <3>1. /\ Apart(queues[g], queues[h]) /\ Apart(queues[h], queues[g]) /\ Known(queues[g])
          /\ queues'[g] = queues[g] /\ queues[g] \in Seq(Nat)
      BY <1>0, <2>1 DEF OrderInv
    <3>2. \A i \in 1..Len(queues[g]) : queues[g][i] # arrived + 1
      BY <1>0, <3>1 DEF Known
    <3>3. ASSUME NEW i \in 1..Len(queues'[g]), NEW j \in 1..Len(queues'[h])
          PROVE  queues'[g][i] # queues'[h][j]
      BY <2>3, <3>1, <3>2 DEF Apart
    <3>. QED BY <3>3 DEF Apart
  <2>. QED BY <2>1, <2>3, <2>4, <2>5 DEF OrderInv
<1>2. ASSUME NEW h \in Handles, Takes(h), UNCHANGED arrived PROVE OrderInv'
  <2>1. /\ Handles' = Handles /\ queues'[h] = Tail(queues[h]) /\ queues[h] # <<>>
        /\ \A g \in Handles \ {h} : queues'[g] = queues[g]
    BY <1>0, <1>2, TakenFacts DEF Takes, Readable
  <2>2. /\ InOrder(queues'[h]) /\ Len(queues'[h]) = Len(queues[h]) - 1 /\ Len(queues[h]) \in Nat
        /\ \A i \in 1..Len(queues'[h]) : queues'[h][i] = queues[h][i + 1]
    BY <1>0, <2>1, TailOrder DEF OrderInv
  <2>3. Known(queues[h])' /\ \A g \in Handles \ {h} : Known(queues[g])'
    BY <1>2, <2>1, <2>2 DEF OrderInv, Known
  <2>4. ASSUME NEW g \in Handles \ {h}
        PROVE  Apart(queues'[g], queues'[h]) /\ Apart(queues'[h], queues'[g])
    <3>1. Apart(queues[g], queues[h]) /\ queues'[g] = queues[g]
      BY <2>1 DEF OrderInv
    <3>2. ASSUME NEW i \in 1..Len(queues'[g]), NEW j \in 1..Len(queues'[h])
          PROVE  queues'[g][i] # queues'[h][j]
      <4>1. queues'[h][j] = queues[h][j + 1] /\ j + 1 \in 1..Len(queues[h])
        BY <2>2
      <4>. QED BY <3>1, <4>1 DEF Apart
    <3>. QED BY <3>2 DEF Apart
  <2>. QED BY <2>1, <2>2, <2>3, <2>4 DEF OrderInv
<1>3. CASE UNCHANGED <<queues, arrived>>
  <2>1. Handles' = Handles
    BY <1>3 DEF Handles
  <2>. QED BY <1>3, <2>1 DEF OrderInv, Known
<1>4. CASE \/ \E h \in Handles : Unplug(h)
           \/ \E nonblock \in BOOLEAN : hid_set_nonblocking(nonblock)
           \/ ZeroBuffer \/ hid_close \/ UNCHANGED vars
           \/ \E limit \in Limits : Reads(limit)
           \/ Reads(Limit)
  BY <1>3, <1>4 DEF Unplug, hid_set_nonblocking, ZeroBuffer, hid_close, Reads, vars, kernelVars
<1>5. CASE poll_times_out \/ poll_returns \/ read
  <2>1. \/ UNCHANGED <<queues, arrived>>
        \/ Takes(ph) /\ UNCHANGED arrived
    BY <1>0, <1>5, ReadingSteps DEF Returns, ChoosesToRead, kernelVars
  <2>. QED BY <1>0, <1>2, <1>3, <2>1
<1>. QED BY <1>0, <1>1, <1>4, <1>5, Steps

(* A report leaves the queue of its descriptor only as the answer of the   *)
(* call; no other descriptor has it, and what stays behind it came later.  *)
HandedOutOnce ==
    [][\A h \in Handles :
         Len(queues'[h]) < Len(queues[h]) =>
           /\ answer' = Head(queues[h])
           /\ \A i \in 1..Len(queues'[h]) : answer' < queues'[h][i]
           /\ \A g \in Handles \ {h} : \A i \in 1..Len(queues'[g]) : queues'[g][i] # answer']_vars

THEOREM ReportsOnceInOrder == Spec => HandedOutOnce
<1>. DEFINE Once ==
       \A h \in Handles :
         Len(queues'[h]) < Len(queues[h]) =>
           /\ answer' = Head(queues[h])
           /\ \A i \in 1..Len(queues'[h]) : answer' < queues'[h][i]
           /\ \A g \in Handles \ {h} : \A i \in 1..Len(queues'[g]) : queues'[g][i] # answer'
<1>1. Init => OrderInv
  BY DEF Init, OrderInv, InOrder, Known, Apart, Handles
<1>2. IInv /\ OrderInv /\ [Next]_vars => [Once]_vars
  <2>. SUFFICES ASSUME IInv, OrderInv, [Next]_vars, NEW h \in Handles,
                       Len(queues'[h]) < Len(queues[h])
                PROVE  /\ answer' = Head(queues[h])
                       /\ \A i \in 1..Len(queues'[h]) : answer' < queues'[h][i]
                       /\ \A g \in Handles \ {h} :
                            \A i \in 1..Len(queues'[g]) : queues'[g][i] # answer'
    OBVIOUS
  <2>0. /\ TypeOK /\ ph \in Handles
        /\ \A g \in Handles : queues[g] \in Seq(Nat) /\ Len(queues[g]) \in Nat
    BY PollAssumption DEF IInv, TypeOK, CallTypeOK, QueueTypeOK
  <2>1. Takes(ph)
    <3>1. CASE \E g \in Handles : Arrive(g)
      <4>1. PICK g \in Handles : Arrive(g)
        BY <3>1
      <4>2. queues'[h] \in {queues[h], Append(queues[h], arrived')}
        BY <4>1 DEF Arrive, Handles
      <4>3. arrived' \in Nat
        BY <4>1 DEF Arrive, IInv, TypeOK, QueueTypeOK
      <4>. QED BY <2>0, <4>2, <4>3
    <3>2. CASE \/ \E g \in Handles : Unplug(g)
               \/ \E nonblock \in BOOLEAN : hid_set_nonblocking(nonblock)
               \/ ZeroBuffer \/ hid_close \/ UNCHANGED vars
               \/ \E limit \in Limits : Reads(limit)
               \/ Reads(Limit)
      <4>1. queues' = queues
        BY <3>2 DEF Unplug, hid_set_nonblocking, ZeroBuffer, hid_close, Reads, vars, kernelVars
      <4>2. queues'[h] = queues[h] /\ Len(queues[h]) \in Nat
        BY <2>0, <4>1
      <4>. QED BY <4>2
    <3>3. CASE poll_times_out \/ poll_returns \/ read
      BY <2>0, <3>3, ReadingSteps DEF Returns, ChoosesToRead, kernelVars
    <3>. QED BY <2>0, <3>1, <3>2, <3>3, Steps
  <2>2. h = ph
    BY <2>0, <2>1, TakenFacts
  <2>3. /\ answer' = Head(queues[h]) /\ queues[h] # <<>> /\ queues'[h] = Tail(queues[h])
        /\ \A g \in Handles \ {h} : queues'[g] = queues[g]
    BY <2>0, <2>1, <2>2, TakenFacts DEF Takes, Readable, Handles
  <2>4. answer' = queues[h][1] /\ \A i \in 1..Len(queues'[h]) : answer' < queues'[h][i]
    BY <2>0, <2>3, TailOrder DEF OrderInv
  <2>5. 1 \in 1..Len(queues[h])
    BY <2>0, <2>3
  <2>. QED BY <2>3, <2>4, <2>5 DEF OrderInv, Apart
<1>. QED BY <1>1, <1>2, OrderStep, Invariance, PTL DEF Spec, HandedOutOnce

(***************************************************************************)
(* One descriptor: the refinement of InputQueue.                           *)
(***************************************************************************)
queueSeen == OfOne(queues[1], <<>>)
sentSeen == OfOne(arrived, 0)
runningSeen == OfOne(gone = {}, TRUE)
callSeen == [r \in {"reader"} |-> OfOne(Mode, "none")]
resultSeen == [r \in {"reader"} |-> OfOne(Result, Empty)]

LEMMA SeenFacts ==
    /\ Abstract!vars = <<queueSeen, sentSeen, runningSeen, callSeen, resultSeen>>
    /\ Abstract!Empty = Empty /\ Abstract!Error = Error
    /\ Abstract!Modes = {"blocking", "timeout", "nonblocking"}
BY DEF Abstract!vars, Abstract!Empty, Abstract!Error, Abstract!Modes, queueSeen, sentSeen,
  runningSeen, callSeen, resultSeen, Empty, Error

LEMMA SeenKept ==
    ASSUME UNCHANGED <<queueSeen, sentSeen, runningSeen, callSeen, resultSeen>>
    PROVE  UNCHANGED Abstract!vars
BY DEF Abstract!vars, queueSeen, sentSeen, runningSeen, callSeen, resultSeen

(* The descriptors stay, and with one there is only one to choose.         *)
LEMMA SameHandles == ASSUME TypeOK, [Next]_vars PROVE Handles' = Handles
<1>0. queues \in [Handles -> Seq(1..MaxReports)] /\ ph \in Handles
  BY DEF TypeOK, QueueTypeOK, CallTypeOK
<1>1. CASE \E h \in Handles : Arrive(h)
  BY <1>1 DEF Arrive, Handles
<1>2. CASE UNCHANGED queues
  BY <1>2 DEF Handles
<1>3. CASE Takes(ph)
  BY <1>0, <1>3, TakenFacts
<1>4. UNCHANGED queues \/ Takes(ph) \/ \E h \in Handles : Arrive(h)
  <2>1. CASE poll_times_out \/ poll_returns \/ read
    BY <2>1, ReadingSteps DEF ChoosesToRead, kernelVars
  <2>. QED BY <2>1, Steps DEF Unplug, hid_set_nonblocking, ZeroBuffer, hid_close, Reads, vars,
         kernelVars
<1>. QED BY <1>1, <1>2, <1>3, <1>4

LEMMA SeenValues ==
    ASSUME Handles = {1}
    PROVE  /\ queueSeen = queues[1] /\ sentSeen = arrived /\ runningSeen = (gone = {})
           /\ callSeen = [r \in {"reader"} |-> Mode]
           /\ resultSeen = [r \in {"reader"} |-> Result]
BY DEF queueSeen, sentSeen, runningSeen, callSeen, resultSeen, OfOne

LEMMA KernelImplements ==
    ASSUME IInv, Handles = {1}, Handles' = {1},
           \E h \in Handles : Arrive(h) \/ Unplug(h)
    PROVE  [Abstract!Next]_(Abstract!vars)
<1>1. UNCHANGED <<callSeen, resultSeen>>
  BY SeenValues DEF Arrive, Unplug, devVars, callVars, callSeen, resultSeen, Mode, Result, OfOne
<1>2. CASE Arrive(1)
  <2>1. /\ arrived' = arrived + 1 /\ queues'[1] = Append(queues[1], arrived + 1)
        /\ UNCHANGED gone
    BY <1>2 DEF Arrive, Handles
  <2>2. Len(queues[1]) < MaxReports + 1
    BY PollAssumption DEF IInv, LengthInv, TypeOK, QueueTypeOK
  <2>3. sentSeen' = sentSeen + 1 /\ queueSeen' = Append(queueSeen, sentSeen + 1)
        /\ runningSeen' = runningSeen /\ Len(queueSeen) < MaxReports + 1
    BY <2>1, <2>2, SeenValues DEF queueSeen, sentSeen, runningSeen, OfOne
  <2>4. Abstract!Arrive
    BY <1>1, <2>3 DEF Abstract!Arrive, queueSeen, sentSeen, runningSeen, callSeen, resultSeen
  <2>. QED BY <2>4 DEF Abstract!Next
<1>3. CASE Unplug(1)
  <2>1. gone' # {} /\ UNCHANGED <<queues, arrived>>
    BY <1>3 DEF Unplug
  <2>2. runningSeen' = FALSE /\ UNCHANGED <<queueSeen, sentSeen>>
    BY <2>1 DEF queueSeen, sentSeen, runningSeen, OfOne
  <2>3. Abstract!Stop
    BY <1>1, <2>2 DEF Abstract!Stop, queueSeen, sentSeen, runningSeen, callSeen, resultSeen
  <2>. QED BY <2>3 DEF Abstract!Next
<1>. QED BY <1>2, <1>3

LEMMA OutsideImplements ==
    ASSUME IInv, Handles = {1}, Handles' = {1},
           \/ \E nonblock \in BOOLEAN : hid_set_nonblocking(nonblock)
           \/ ZeroBuffer \/ hid_close \/ UNCHANGED vars
    PROVE  [Abstract!Next]_(Abstract!vars)
<1>1. UNCHANGED <<queueSeen, sentSeen, runningSeen>>
  BY DEF hid_set_nonblocking, ZeroBuffer, hid_close, vars, kernelVars, queueSeen, sentSeen,
    runningSeen, OfOne
<1>2. CASE ZeroBuffer
  <2>1. Mode = "none" /\ Mode' = "none" /\ Result' = Error
    BY <1>2 DEF ZeroBuffer, Mode, Result, Error, NoError
  <2>2. /\ callSeen["reader"] = "none" /\ callSeen' = callSeen
        /\ resultSeen' = [resultSeen EXCEPT !["reader"] = Error]
    BY <2>1 DEF callSeen, resultSeen, OfOne
  <2>3. Abstract!Refuse("reader")
    BY <1>1, <2>2, SeenFacts
       DEF Abstract!Refuse, queueSeen, sentSeen, runningSeen, callSeen, resultSeen
  <2>. QED BY <2>3 DEF Abstract!Next
<1>3. CASE \/ \E nonblock \in BOOLEAN : hid_set_nonblocking(nonblock)
           \/ hid_close \/ UNCHANGED vars
  <2>1. Mode' = Mode /\ Result' = Result
    BY <1>3 DEF hid_set_nonblocking, hid_close, vars, kernelVars, devVars, callVars, Mode, Result
  <2>2. UNCHANGED <<callSeen, resultSeen>>
    BY <2>1 DEF callSeen, resultSeen, OfOne
  <2>. QED BY <1>1, <2>2, SeenKept
<1>. QED BY <1>2, <1>3

LEMMA ReadsImplements ==
    ASSUME IInv, Handles = {1}, Handles' = {1}, NEW limit \in Limits, Reads(limit),
           function' \in {"hid_read", "hid_read_timeout"}
    PROVE  [Abstract!Next]_(Abstract!vars)
<1>1. UNCHANGED <<queueSeen, sentSeen, runningSeen>>
  BY DEF Reads, kernelVars, queueSeen, sentSeen, runningSeen, OfOne
<1>2. Mode = "none" /\ Mode' \in {"blocking", "timeout", "nonblocking"} /\ Result' = Empty
  BY DEF Reads, Mode, Result, Empty, Error
<1>3. PICK m \in {"blocking", "timeout", "nonblocking"} :
        /\ callSeen["reader"] = "none" /\ callSeen' = [callSeen EXCEPT !["reader"] = m]
        /\ resultSeen' = [resultSeen EXCEPT !["reader"] = Empty]
  BY <1>2 DEF callSeen, resultSeen, OfOne
<1>4. Abstract!Begin("reader", m)
  BY <1>1, <1>3, SeenFacts
     DEF Abstract!Begin, queueSeen, sentSeen, runningSeen, callSeen, resultSeen
<1>. QED BY <1>3, <1>4, SeenFacts DEF Abstract!Next

LEMMA ReturnsSeen ==
    ASSUME IInv, Handles = {1}, Handles' = {1}, NEW value, NEW err, Returns(value, err),
           pc # "out", value = Error => err # NoError
    PROVE  /\ callSeen["reader"] = Mode /\ Mode # "none"
           /\ callSeen' = [callSeen EXCEPT !["reader"] = "none"]
           /\ resultSeen' = [resultSeen EXCEPT !["reader"] = value]
           /\ UNCHANGED <<sentSeen, runningSeen>>
<1>1. Mode # "none" /\ Mode' = "none" /\ Result' = value
  BY DEF Mode, Result, Returns
<1>2. UNCHANGED <<sentSeen, runningSeen>>
  BY DEF Returns, sentSeen, runningSeen, OfOne
<1>. QED BY <1>1, <1>2 DEF callSeen, resultSeen, OfOne

LEMMA ReadingImplements ==
    ASSUME IInv, Handles = {1}, Handles' = {1}, poll_times_out \/ poll_returns \/ read
    PROVE  [Abstract!Next]_(Abstract!vars)
<1>0. TypeOK /\ queueSeen = queues[1] /\ queueSeen' = queues'[1] /\ runningSeen = (gone = {})
  BY SeenValues DEF IInv, queueSeen, OfOne
<1>1. CASE /\ pc = "poll" /\ milliseconds # Forever /\ \A h \in Handles : ~Readable(h)
           /\ Returns(Empty, read_error) /\ UNCHANGED queues
  <2>1. Empty # Error /\ Mode # "blocking" /\ queueSeen = <<>> /\ UNCHANGED queueSeen
    BY <1>0, <1>1 DEF Empty, Error, Mode, Readable, IInv, CallInv, Limit, Forever
  <2>2. Abstract!ReturnEmpty("reader")
    BY <1>1, <2>1, ReturnsSeen, SeenFacts
       DEF Abstract!ReturnEmpty, Abstract!Return, queueSeen, sentSeen, runningSeen, callSeen, resultSeen
  <2>. QED BY <2>2 DEF Abstract!Next
<1>2. ASSUME NEW err, pc # "out", gone # {}, err # NoError, Returns(Error, err), UNCHANGED queues
      PROVE  Abstract!Next
  <2>1. ~runningSeen /\ UNCHANGED queueSeen
    BY <1>0, <1>2
  <2>2. Abstract!ReturnError("reader")
    BY <1>2, <2>1, ReturnsSeen, SeenFacts
       DEF Abstract!ReturnError, Abstract!Return, queueSeen, sentSeen, runningSeen, callSeen, resultSeen
  <2>. QED BY <2>2 DEF Abstract!Next
<1>3. CASE pc = "read" /\ Takes(ph) /\ Returns(Head(queues[ph]), read_error)
  <2>1. ph = 1 /\ ph \in Handles
    BY DEF IInv, TypeOK, CallTypeOK
  <2>2. queueSeen # <<>> /\ queueSeen' = Tail(queueSeen)
    BY <1>0, <1>3, <2>1 DEF Takes, Readable, Handles
  <2>3. Head(queues[1]) # Error
    BY <1>0, <1>3, <2>1, TakenFacts DEF Takes, Error
  <2>4. Abstract!ReturnReport("reader")
    BY <1>0, <1>3, <2>1, <2>2, <2>3, ReturnsSeen, SeenFacts
       DEF Abstract!ReturnReport, Abstract!Return, queueSeen, sentSeen, runningSeen, callSeen, resultSeen
  <2>. QED BY <2>4 DEF Abstract!Next
<1>4. CASE ChoosesToRead
  <2>1. Mode' = Mode /\ Result' = Result /\ UNCHANGED <<queues, arrived, gone>>
    BY <1>4 DEF ChoosesToRead, kernelVars, devVars, Mode, Result
  <2>2. UNCHANGED <<queueSeen, sentSeen, runningSeen, callSeen, resultSeen>>
    BY <2>1 DEF queueSeen, sentSeen, runningSeen, callSeen, resultSeen, OfOne
  <2>. QED BY <2>2, SeenKept
<1>. QED BY <1>0, <1>1, <1>2, <1>3, <1>4, ReadingSteps

(* With one descriptor every step of the reads and of the kernel is a step *)
(* of InputQueue or changes nothing a caller sees: reports come in order   *)
(* and once, a blocking read returns a report or an explained error, and a *)
(* non-blocking one that says "nothing" found nothing.                     *)
THEOREM Refinement == Spec => ImplementsInputQueue
<1>1. Init => Abstract!Init
  BY DEF Init, Abstract!Init, Abstract!Empty, Empty, Error, OfOne, Handles, Mode, Result
<1>2. IInv /\ [Next]_vars => [Abstract!Next]_(Abstract!vars)
  <2>. SUFFICES ASSUME IInv, [Next]_vars PROVE [Abstract!Next]_(Abstract!vars)
    OBVIOUS
  <2>0. TypeOK /\ Handles' = Handles
    BY SameHandles DEF IInv
  <2>1. CASE Handles # {1}
    <3>1. UNCHANGED <<queueSeen, sentSeen, runningSeen, callSeen, resultSeen>>
      BY <2>0, <2>1 DEF queueSeen, sentSeen, runningSeen, callSeen, resultSeen, OfOne
    <3>. QED BY <3>1, SeenKept
  <2>2. CASE Handles = {1}
    BY <2>0, <2>2, Steps, KernelImplements, OutsideImplements, ReadsImplements, ReadingImplements
  <2>. QED BY <2>1, <2>2
<1>. QED BY <1>1, <1>2, Invariance, PTL DEF Spec, ImplementsInputQueue, Abstract!Spec
=============================================================================
