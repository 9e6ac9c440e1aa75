----------------------------- MODULE InputQueue -----------------------------
(***************************************************************************)
(* What the input side of an open HIDAPI device promises its readers,      *)
(* whatever backend implements it (hidapi/hidapi.h, hid_read and           *)
(* hid_read_timeout): a bounded FIFO queue of input reports that forgets   *)
(* the oldest report when it is full, and reads that return the oldest     *)
(* report, 0 for "nothing yet", or -1 once reports can no longer arrive.   *)
(*                                                                         *)
(* The module states the promise only.  LibusbRead, MacRead and WinIO      *)
(* implement it, and PollRead for a device with one descriptor.            *)
(***************************************************************************)
EXTENDS Integers, Sequences

CONSTANTS
    Readers,       \* application threads that may call hid_read*
    Capacity,      \* reports kept before the oldest one is given up
    ErrorOvertakes \* may a read fail while reports are still queued?

VARIABLES
    queue,       \* reports waiting to be read, oldest first; a report is
                 \* the number of its arrival
    sent,        \* reports that have arrived so far
    running,     \* FALSE once the backend no longer collects reports
    call,        \* what each reader is inside of: "none" or a mode
    result       \* what the last read of each reader returned: a report,
                 \* Empty or Error (Empty again once it calls the next one)

vars == <<queue, sent, running, call, result>>

Modes == {"blocking", "timeout", "nonblocking"}
Empty == 0
Error == -1

Init ==
    /\ queue = <<>>
    /\ sent = 0
    /\ running = TRUE
    /\ call = [r \in Readers |-> "none"]
    /\ result = [r \in Readers |-> Empty]

(* A report arrives; when the queue is full its oldest report makes room.  *)
Arrive ==
    /\ sent' = sent + 1
    /\ queue' = IF Len(queue) < Capacity
                THEN Append(queue, sent + 1)
                ELSE Append(Tail(queue), sent + 1)
    /\ UNCHANGED <<running, call, result>>

Begin(r, m) ==
    /\ call[r] = "none"
    /\ call' = [call EXCEPT ![r] = m]
    /\ result' = [result EXCEPT ![r] = Empty]
    /\ UNCHANGED <<queue, sent, running>>

(* A call without a buffer is refused at once. *)
Refuse(r) ==
    /\ call[r] = "none"
    /\ result' = [result EXCEPT ![r] = Error]
    /\ UNCHANGED <<queue, sent, running, call>>

Return(r, v) ==
    /\ call[r] # "none"
    /\ call' = [call EXCEPT ![r] = "none"]
    /\ result' = [result EXCEPT ![r] = v]
    /\ UNCHANGED <<sent, running>>

(* The oldest report, exactly once, to exactly one reader. *)
ReturnReport(r) ==
    /\ queue # <<>>
    /\ queue' = Tail(queue)
    /\ Return(r, Head(queue))

(* "Nothing yet": never from a blocking read, and a non-blocking read that *)
(* says so found nothing.                                                  *)
ReturnEmpty(r) ==
    /\ call[r] # "blocking"
    /\ call[r] = "nonblocking" => queue = <<>>
    /\ Return(r, Empty)
    /\ UNCHANGED queue

(* An error only after the end, and only once every report was handed out, *)
(* unless the backend lets errors overtake reports.                        *)
ReturnError(r) ==
    /\ ~running
    /\ ErrorOvertakes \/ queue = <<>>
    /\ Return(r, Error)
    /\ UNCHANGED queue

Stop ==
    /\ running' = FALSE
    /\ UNCHANGED <<queue, sent, call, result>>

(* hid_close gives up what nobody read. *)
Discard ==
    /\ ~running
    /\ queue' = <<>>
    /\ UNCHANGED <<sent, running, call, result>>

Next ==
    \/ Arrive
    \/ Stop
    \/ Discard
    \/ \E r \in Readers :
        \/ \E m \in Modes : Begin(r, m)
        \/ Refuse(r)
        \/ ReturnReport(r)
        \/ ReturnEmpty(r)
        \/ ReturnError(r)

Spec == Init /\ [][Next]_vars

(***************************************************************************)
(* What a reader may conclude from the numbers it is handed.               *)
(***************************************************************************)

(* The oldest report that may still be handed out. *)
Oldest == IF queue = <<>> THEN sent + 1 ELSE Head(queue)

HandedOut(r) == call[r] # "none" /\ call'[r] = "none" /\ result'[r] > 0

(* A report that is handed out becomes older than any that may follow, and *)
(* a step hands out one at most.                                           *)
HandsOutInOrder ==
    /\ Oldest <= Oldest'
    /\ \A r \in Readers : HandedOut(r) =>
         /\ Oldest <= result'[r] /\ result'[r] < Oldest'
         /\ \A s \in Readers \ {r} : ~HandedOut(s)

(* hid_read returns reports in the order of their arrival and none twice,  *)
(* whichever readers get them and however many reports are given up.       *)
HandedOutOnce == [][HandsOutInOrder]_vars
=============================================================================
