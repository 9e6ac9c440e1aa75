------------------------- MODULE DeviceCalls_proofs -------------------------
(***************************************************************************)
(* Proofs about DeviceCalls, for all backends, any devices, buffers and    *)
(* number of calls: hid_error tells of the last call, what is fetched is   *)
(* the report the device has, and the device has what was sent to it.      *)
(***************************************************************************)
EXTENDS DeviceCalls, WellFoundedInduction, TLAPS

(***************************************************************************)
(* The inductive invariant, in named parts.                                *)
(***************************************************************************)
Systems == {"libusb", "linux", "netbsd", "mac", "windows"}

(* A device has a report; with IDs all its reports have one.               *)
SizeOK ==
    /\ DOMAIN size # {}
    /\ \A r \in DOMAIN size : r \in Nat /\ size[r] \in 0..MaxReport
    /\ 0 \in DOMAIN size => DOMAIN size = {0}
ReportsOK ==
    /\ reports \in [Types -> [DOMAIN size -> Seq(Int)]]
    /\ sent \in [Types -> [DOMAIN size -> SUBSET Seq(Int)]]
TypeOK == backend \in Systems /\ SizeOK /\ ReportsOK

(* What a buffer of the application looks like.                            *)
Buffer(asked) == asked \in Seq(Int) /\ (asked # <<>> => asked[1] \in Nat)

IInv == TypeOK /\ ErrorTellsOfLastCall /\ FetchedIsTheReport /\ DeviceHoldsWhatWasSent

(***************************************************************************)
(* The operators on sequences.                                             *)
(***************************************************************************)
LEMMA RepeatFacts ==
    ASSUME NEW n \in Nat, NEW byte \in Int
    PROVE  /\ Repeat(byte, n) \in Seq(Int) /\ Len(Repeat(byte, n)) = n
           /\ \A i \in 1..n : Repeat(byte, n)[i] = byte
BY DEF Repeat

LEMMA RepeatNothing ==
    ASSUME NEW n \in Int, n <= 0, NEW byte \in Int
    PROVE  Repeat(byte, n) \in Seq(Int) /\ Len(Repeat(byte, n)) = 0
<1>1. 1..n = 1..0
  OBVIOUS
<1>2. Repeat(byte, n) = [i \in 1..0 |-> byte]
  BY <1>1 DEF Repeat
<1>. QED BY <1>2

LEMMA UptoFacts ==
    ASSUME NEW s \in Seq(Int), NEW n \in Nat
    PROVE  /\ Upto(s, n) \in Seq(Int) /\ Len(Upto(s, n)) = (IF n < Len(s) THEN n ELSE Len(s))
           /\ \A i \in 1..Len(Upto(s, n)) : Upto(s, n)[i] = s[i]
<1>. DEFINE m == IF n < Len(s) THEN n ELSE Len(s)
<1>1. m \in 0..Len(s)
  OBVIOUS
<1>2. SubSeq(s, 1, m) \in Seq(Int) /\ Len(SubSeq(s, 1, m)) = m
      /\ \A i \in 1..m : SubSeq(s, 1, m)[i] = s[i]
  BY <1>1
<1>. QED BY <1>2 DEF Upto

LEMMA ConcatFacts ==
    ASSUME NEW s \in Seq(Int), NEW t \in Seq(Int)
    PROVE  /\ s \o t \in Seq(Int) /\ Len(s \o t) = Len(s) + Len(t)
           /\ \A i \in 1..Len(s) : (s \o t)[i] = s[i]
           /\ \A i \in Len(s) + 1 .. Len(s) + Len(t) : (s \o t)[i] = t[i - Len(s)]
OBVIOUS

LEMMA TailFacts ==
    ASSUME NEW s \in Seq(Int), s # <<>>
    PROVE  /\ Tail(s) \in Seq(Int) /\ Len(Tail(s)) = Len(s) - 1 /\ Len(s) \in Nat /\ Len(s) > 0
           /\ \A i \in 1..Len(s) - 1 : Tail(s)[i] = s[i + 1]
OBVIOUS

LEMMA SameSequence ==
    ASSUME NEW s \in Seq(Int), NEW t \in Seq(Int), Len(s) = Len(t),
           \A i \in 1..Len(s) : s[i] = t[i]
    PROVE  s = t
OBVIOUS

LEMMA BoundFacts == MaxLength \in Nat /\ DescriptorSize \in Nat
BY DevicesAssumption, Zenon

LEMMA MaxReportFacts == MaxReport \in Nat
BY DEF MaxReport

LEMMA BufferFacts ==
    ASSUME SizeOK
    PROVE  /\ \A asked \in Buffers : Buffer(asked)
           /\ \A asked \in Rooms : Buffer(asked)
<1>1. ASSUME NEW n \in Nat PROVE Repeat(1, n) \in Seq(Int)
  BY RepeatFacts
<1>2. ASSUME NEW asked \in Buffers PROVE Buffer(asked)
  <2>1. CASE asked = <<>>
    BY <2>1 DEF Buffer
  <2>2. ASSUME NEW r \in IDs, NEW n \in 0..(MaxLength - 1), asked = Filled(r, n)
        PROVE  Buffer(asked)
    <3>1. r \in Nat /\ n \in Nat
      BY BoundFacts DEF SizeOK, IDs, Unsupported
    <3>2. <<r>> \in Seq(Int) /\ Len(<<r>>) = 1 /\ <<r>>[1] = r
      BY <3>1
    <3>3. Repeat(1, n) \in Seq(Int)
      BY <1>1, <3>1
    <3>4. asked \in Seq(Int) /\ asked[1] = <<r>>[1]
      BY <2>2, <3>2, <3>3, ConcatFacts DEF Filled
    <3>. QED BY <3>1, <3>2, <3>4 DEF Buffer
  <2>3. asked = <<>> \/ \E r \in IDs, n \in 0..(MaxLength - 1) : asked = Filled(r, n)
    BY DEF Buffers
  <2>. QED BY <2>1, <2>2, <2>3, Zenon
<1>3. ASSUME NEW asked \in Rooms PROVE Buffer(asked)
  <2>1. PICK n \in 0..MaxLength : asked = Repeat(1, n)
    BY DEF Rooms
  <2>2. n \in Nat
    BY BoundFacts
  <2>3. asked \in Seq(Int) /\ (asked # <<>> => asked[1] = 1)
    <3>1. asked \in Seq(Int) /\ Len(asked) = n /\ \A i \in 1..n : asked[i] = 1
      BY <2>1, <2>2 DEF Repeat
    <3>2. asked # <<>> => Len(asked) > 0
      BY <3>1
    <3>. QED BY <3>1, <3>2
  <2>. QED BY <2>3 DEF Buffer
<1>. QED BY <1>2, <1>3

(* Min of the community modules picks a least element: < is well-founded. *)
LEMMA MinFacts ==
    ASSUME NEW S, S \subseteq Nat, S # {}
    PROVE  Min(S) \in S /\ \A y \in S : Min(S) <= y
<1>. DEFINE R == {pair \in Nat \X Nat : pair[1] < pair[2]}
<1>1. IsWellFoundedOn(R, Nat)
  BY NatLessThanWellFounded DEF OpToRel
<1>. HIDE DEF R
<1>2. PICK x \in S : \A y \in S : ~(<<y, x>> \in R)
  BY <1>1, WFMin
<1>3. \A y \in S : x <= y
  <2>. SUFFICES ASSUME NEW y \in S, ~(x <= y) PROVE FALSE
    OBVIOUS
  <2>1. <<y, x>> \in R
    BY DEF R
  <2>. QED BY <1>2, <2>1
<1>. QED BY <1>3, Zenon DEF Min

(* The longest report of a device: sizes are bounded.                      *)
LEMMA MaxFacts ==
    ASSUME NEW bound \in Nat, NEW S, S \subseteq 0..bound, S # {}
    PROVE  Max(S) \in S /\ \A y \in S : Max(S) >= y
<1>. DEFINE T == {bound - y : y \in S}
<1>1. T \subseteq Nat /\ T # {}
  <2>1. ASSUME NEW y \in S PROVE bound - y \in Nat
    <3>1. y \in 0..bound
      OBVIOUS
    <3>. QED BY <3>1
  <2>2. T \subseteq Nat
    BY <2>1
  <2>. QED BY <2>2
<1>2. Min(T) \in T /\ \A y \in T : Min(T) <= y
  BY <1>1, MinFacts
<1>3. PICK x \in S : Min(T) = bound - x
  BY <1>2
<1>4. \A y \in S : x >= y
  <2>. SUFFICES ASSUME NEW y \in S PROVE x >= y
    OBVIOUS
  <2>1. bound - y \in T /\ y \in Int /\ x \in Int
    OBVIOUS
  <2>2. bound - x <= bound - y
    BY <1>2, <1>3, <2>1
  <2>. QED BY <2>1, <2>2
<1>. QED BY <1>4, Zenon DEF Max

LEMMA LengthFacts ==
    ASSUME SizeOK
    PROVE  /\ ReportByteLength \in Nat
           /\ \A r \in DOMAIN size : 1 + size[r] <= ReportByteLength
<1>. DEFINE S == {size[r] : r \in DOMAIN size}
<1>1. S \subseteq 0..MaxReport /\ S # {}
  BY DEF SizeOK
<1>2. Max(S) \in S /\ \A y \in S : Max(S) >= y
  BY <1>1, MaxFacts, MaxReportFacts
<1>3. S \subseteq Nat
  BY <1>1, MaxReportFacts
<1>4. ASSUME NEW m \in Nat, m = Max(S), ReportByteLength = 1 + m
      PROVE  ReportByteLength \in Nat /\ \A r \in DOMAIN size : 1 + size[r] <= ReportByteLength
  <2>1. ASSUME NEW r \in DOMAIN size PROVE size[r] \in Nat /\ size[r] <= m
    BY <1>2, <1>3, <1>4
  <2>. QED BY <1>4, <2>1
<1>. QED BY <1>2, <1>3, <1>4 DEF ReportByteLength

(***************************************************************************)
(* How a call ends: a NULL pointer was followed, or it failed and left its *)
(* name, or it gave a length and no earlier error stays.                   *)
(***************************************************************************)
Outcome ==
    \/ crashed' = TRUE
    \/ crashed' = crashed /\ last'.res = -1 /\ error' = last'.call
    \/ crashed' = crashed /\ last'.res \in Nat /\ (error' = NoError \/ Forgetful')

LEMMA AnswerFacts ==
    ASSUME NEW call, NEW asked, NEW res, NEW data, Answers(call, asked, res, data)
    PROVE  /\ last'.call = call /\ last'.asked = asked /\ last'.res = res /\ last'.data = data
           /\ UNCHANGED <<openVars, disconnected, crashed>>
BY DEF Answers

LEMMA RefusesFacts ==
    ASSUME NEW call, NEW asked, Refuses(call, asked)
    PROVE  Outcome /\ last'.call = call
BY AnswerFacts DEF Refuses, Outcome

LEMMA SucceedsFacts ==
    ASSUME NEW call, NEW asked, NEW res \in Nat, NEW data, Succeeds(call, asked, res, data)
    PROVE  Outcome /\ last'.call = call
BY AnswerFacts DEF Succeeds, Outcome

LEMMA InNetbsd ==
    ASSUME NEW call, NEW asked, NEW res \in Nat, NEW data, Answers(call, asked, res, data),
           backend = "netbsd"
    PROVE  Outcome /\ last'.call = call
<1>1. backend' = "netbsd"
  BY AnswerFacts DEF openVars
<1>. QED BY <1>1, AnswerFacts DEF Outcome, Forgetful

LEMMA TransferOutcome ==
    ASSUME NEW call, NEW asked, NEW bytes, NEW res \in Nat, NEW dropped,
           Transfer(call, asked, bytes, res, dropped)
    PROVE  Outcome /\ last'.call = call
BY RefusesFacts, SucceedsFacts DEF Transfer

LEMMA SendOutcome ==
    ASSUME SizeOK, NEW call \in SendCalls, NEW asked, Buffer(asked), Send(call, asked)
    PROVE  Outcome /\ last'.call \in SendCalls
<1>1. Len(asked) \in Nat /\ ReportByteLength \in Nat
  BY LengthFacts DEF Buffer
<1>2. "hid_send_output_report" \in SendCalls
  BY DEF SendCalls
<1>3. ASSUME NEW c \in SendCalls, libusb_send(c, asked) PROVE Outcome /\ last'.call \in SendCalls
  BY <1>1, <1>3, TransferOutcome, RefusesFacts DEF libusb_send, ZeroBuffer, Sends
<1>4. ASSUME NEW cached, NEW res \in Nat, windows_send(call, asked, cached, res)
      PROVE  Outcome /\ last'.call \in SendCalls
  BY <1>1, <1>4, TransferOutcome, RefusesFacts DEF windows_send, ZeroBuffer
<1>5. CASE backend = "libusb" /\ call = "hid_write" /\ libusb_write(asked)
  BY <1>2, <1>3, <1>5 DEF libusb_write
<1>6. CASE backend = "libusb" /\ call # "hid_write" /\ libusb_send(call, asked)
  BY <1>3, <1>6
<1>7. CASE (linux_write(asked) /\ call = "hid_write") \/ linux_send(call, asked)
  BY <1>1, <1>7, TransferOutcome, RefusesFacts DEF linux_write, linux_send, ZeroBuffer, Sends
<1>8. CASE mac_set_report(call, asked)
  BY <1>1, <1>8, TransferOutcome, RefusesFacts DEF mac_set_report, ZeroBuffer
<1>9. CASE backend = "netbsd" /\ netbsd_set_report(call, asked)
  BY <1>1, <1>9, InNetbsd, RefusesFacts DEF netbsd_set_report
<1>10. CASE windows_write(asked) /\ call = "hid_write"
  <2>1. PICK res \in Nat : windows_send(call, asked, write_buf, res)
    BY <1>1, <1>10 DEF windows_write
  <2>. QED BY <1>4, <2>1
<1>11. CASE windows_send_feature_report(asked) /\ call = "hid_send_feature_report"
  BY <1>1, <1>4, <1>11 DEF windows_send_feature_report
<1>12. CASE windows_send_output_report(asked) /\ call = "hid_send_output_report"
  BY <1>1, <1>4, <1>12 DEF windows_send_output_report
<1>. QED BY <1>5, <1>6, <1>7, <1>8, <1>9, <1>10, <1>11, <1>12 DEF Send

LEMMA GetOutcome ==
    ASSUME TypeOK, NEW call \in GetCalls, NEW asked, Buffer(asked), Get(call, asked)
    PROVE  Outcome /\ last'.call = call
<1>1. Len(asked) \in Nat
  BY DEF Buffer
<1>2. ASSUME Fetch(call, asked), asked # <<>> PROVE Outcome /\ last'.call = call
  <2>1. CASE Refuses(call, asked)
    BY <2>1, RefusesFacts
  <2>. DEFINE bytes(skipped) == Upto(OnTheBus(TypeOf(call), asked[1]), Len(asked) - skipped)
  <2>2. ASSUME asked[1] \in DOMAIN size, NEW skipped \in {0, 1}
        PROVE  Len(bytes(skipped)) \in Nat
    <3>1. reports[TypeOf(call)][asked[1]] \in Seq(Int)
      BY <2>2 DEF TypeOK, ReportsOK, TypeOf, Types, GetCalls
    <3>2. OnTheBus(TypeOf(call), asked[1]) \in Seq(Int)
      <4>1. <<asked[1]>> \in Seq(Int) /\ <<>> \in Seq(Int)
        BY <1>2 DEF Buffer
      <4>. QED BY <3>1, <4>1, ConcatFacts DEF OnTheBus
    <3>3. Len(asked) - skipped \in Nat
      BY <1>2 DEF Buffer
    <3>. QED BY <3>2, <3>3, UptoFacts
  <2>3. CASE ~Refuses(call, asked)
    <3>1. PICK skipped \in {0, 1} :
            /\ asked[1] \in DOMAIN size
            /\ Succeeds(call, asked, FetchedLength(asked, bytes(skipped)), Over(asked, skipped, bytes(skipped)))
      BY <1>2, <2>3 DEF Fetch
    <3>2. FetchedLength(asked, bytes(skipped)) \in Nat
      BY <2>2, <3>1 DEF FetchedLength
    <3>. QED BY <3>1, <3>2, SucceedsFacts
  <2>. QED BY <2>1, <2>3
<1>3. CASE libusb_get(call, asked) \/ linux_get(call, asked) \/ mac_get_report(call, asked)
           \/ windows_get_report(call, asked)
  BY <1>2, <1>3, RefusesFacts DEF libusb_get, linux_get, mac_get_report, windows_get_report, ZeroBuffer
<1>4. CASE backend = "netbsd" /\ netbsd_get_report(call, asked)
  BY <1>1, <1>4, InNetbsd, RefusesFacts DEF netbsd_get_report
<1>. QED BY <1>3, <1>4 DEF Get

(* The calls that fill in device info or a text.                           *)
LEMMA ClearedFacts ==
    ASSUME NEW call, NEW asked, NEW data, Answers(call, asked, 0, data),
           error' = IF ClearsError THEN NoError ELSE error,
           call \in InfoCalls \cup StringCalls \/ backend # "mac"
    PROVE  Outcome /\ last'.call = call
<1>1. /\ last'.call = call /\ last'.res = 0 /\ backend' = backend /\ crashed' = crashed
  BY AnswerFacts DEF openVars
<1>. QED BY <1>1 DEF Outcome, ClearsError, Forgetful

LEMMA InfoOutcome ==
    ASSUME NEW call \in InfoCalls, hid_get_device_info(call)
    PROVE  Outcome /\ last'.call = call
<1>1. ASSUME Info(call, <<>>) PROVE Outcome /\ last'.call = call
  BY <1>1, ClearedFacts DEF Info
<1>2. ASSUME NoInfo(call, <<>>) PROVE Outcome /\ last'.call = call
  BY <1>2, RefusesFacts DEF NoInfo
<1>. QED BY <1>1, <1>2 DEF hid_get_device_info, libusb_get_device_info, mac_get_device_info,
     linux_get_device_info, netbsd_get_device_info, windows_get_device_info

LEMMA StringOutcome ==
    ASSUME NEW call \in StringCalls, NEW asked, GetString(call, asked)
    PROVE  \/ crashed' = TRUE /\ UNCHANGED <<last, backend>>
           \/ Outcome /\ last'.call = call
<1>1. ASSUME Gives(call, asked) PROVE Outcome /\ last'.call = call
  BY <1>1, ClearedFacts DEF Gives
<1>2. ASSUME Refuses(call, asked) PROVE Outcome /\ last'.call = call
  BY <1>2, RefusesFacts
<1>. QED BY <1>1, <1>2 DEF GetString, ZeroBuffer, libusb_get_string, linux_get_string,
     mac_get_string, windows_get_string, netbsd_get_string, info_get_string, NoInfo, openVars

LEMMA IndexedOutcome ==
    ASSUME NEW asked, hid_get_indexed_string("hid_get_indexed_string", asked)
    PROVE  Outcome /\ last'.call = "hid_get_indexed_string"
<1>. DEFINE call == "hid_get_indexed_string"
<1>1. ASSUME Gives(call, asked), backend # "mac" PROVE Outcome /\ last'.call = call
  BY <1>1, ClearedFacts DEF Gives
<1>2. ASSUME Refuses(call, asked) PROVE Outcome /\ last'.call = call
  BY <1>2, RefusesFacts
<1>. QED BY <1>1, <1>2 DEF hid_get_indexed_string, ZeroBuffer, libusb_get_indexed_string,
     libusb_get_string, netbsd_get_indexed_string, windows_get_indexed_string

LEMMA DescriptorOutcome ==
    ASSUME NEW asked, Buffer(asked), hid_get_report_descriptor("hid_get_report_descriptor", asked)
    PROVE  Outcome /\ last'.call = "hid_get_report_descriptor"
<1>. DEFINE call == "hid_get_report_descriptor"
            res == Len(Upto(Repeat(1, DescriptorSize), Len(asked)))
<1>1. res \in Nat
  <2>1. Repeat(1, DescriptorSize) \in Seq(Int) /\ Len(asked) \in Nat
    BY BoundFacts, RepeatFacts DEF Buffer
  <2>. QED BY <2>1, UptoFacts
<1>2. GivesDescriptor(call, asked) => Answers(call, asked, res, <<>>)
  BY DEF GivesDescriptor
<1>. HIDE DEF res
<1>3. ASSUME Refuses(call, asked) PROVE Outcome /\ last'.call = call
  BY <1>3, RefusesFacts
<1>4. ASSUME GivesDescriptor(call, asked), error' = NoError PROVE Outcome /\ last'.call = call
  BY <1>1, <1>2, <1>4, AnswerFacts DEF Outcome
<1>5. CASE backend = "netbsd" /\ netbsd_get_report_descriptor(call, asked)
  BY <1>1, <1>2, <1>3, <1>5, InNetbsd DEF netbsd_get_report_descriptor
<1>6. CASE backend = "windows" /\ windows_get_report_descriptor(call, asked)
  <2>1. CASE GivesDescriptor(call, asked)
    <3>1. /\ last'.call = call /\ last'.res = res /\ backend' = "windows" /\ crashed' = crashed
      BY <1>2, <1>6, <2>1, AnswerFacts DEF openVars
    <3>. QED BY <1>1, <3>1 DEF Outcome, Forgetful
  <2>. QED BY <1>3, <1>6, <2>1 DEF windows_get_report_descriptor
<1>7. CASE \E there : FetchesDescriptor(call, asked, there)
  BY <1>3, <1>4, <1>7 DEF FetchesDescriptor, ZeroBuffer
<1>. QED BY <1>5, <1>6, <1>7 DEF hid_get_report_descriptor, libusb_get_report_descriptor,
     linux_get_report_descriptor, mac_get_report_descriptor

LEMMA RestOutcome ==
    ASSUME NEW asked,
           \/ hid_winapi_get_container_id("hid_winapi_get_container_id", asked)
           \/ hid_darwin_get_location_id("hid_darwin_get_location_id", asked)
    PROVE  \/ crashed' = TRUE /\ UNCHANGED <<last, backend>>
           \/ Outcome /\ last'.call \in {"hid_winapi_get_container_id", "hid_darwin_get_location_id"}
<1>1. ASSUME NEW call, Refuses(call, asked) \/ Succeeds(call, asked, 0, <<>>)
      PROVE  Outcome /\ last'.call = call
  BY <1>1, RefusesFacts, SucceedsFacts
<1>. QED BY <1>1 DEF hid_winapi_get_container_id, hid_darwin_get_location_id, openVars

(* Every call has one of these outcomes, and only one that sends changes   *)
(* what the device has.                                                    *)
LEMMA CallOutcome ==
    ASSUME TypeOK, Call
    PROVE  \/ UNCHANGED <<reports, sent, last, backend>> /\ crashed' = TRUE
           \/ \E call \in SendCalls, asked \in Buffers :
                Send(call, asked) /\ Outcome /\ last'.call \in SendCalls
           \/ \E call \in GetCalls, asked \in Buffers :
                Get(call, asked) /\ Outcome /\ last'.call = call
           \/ UNCHANGED <<reports, sent>> /\ Outcome /\ last'.call \notin GetCalls
<1>. SizeOK
  BY DEF TypeOK
<1>1. ASSUME NEW call \in SendCalls, NEW asked \in Buffers, Send(call, asked)
      PROVE  Send(call, asked) /\ Outcome /\ last'.call \in SendCalls
  BY <1>1, SendOutcome, BufferFacts
<1>2. ASSUME NEW call \in GetCalls, NEW asked \in Buffers, Get(call, asked)
      PROVE  Get(call, asked) /\ Outcome /\ last'.call = call
  BY <1>2, GetOutcome, BufferFacts
<1>3. ASSUME NEW call \in InfoCalls, hid_get_device_info(call)
      PROVE  UNCHANGED <<reports, sent>> /\ Outcome /\ last'.call \notin GetCalls
  BY <1>3, InfoOutcome DEF hid_get_device_info, InfoCalls, GetCalls, deviceVars
<1>4. ASSUME NEW call \in StringCalls, NEW asked \in Rooms, GetString(call, asked)
      PROVE  /\ UNCHANGED <<reports, sent>>
             /\ \/ crashed' = TRUE /\ UNCHANGED <<last, backend>>
                \/ Outcome /\ last'.call \notin GetCalls
  BY <1>4, StringOutcome DEF GetString, StringCalls, GetCalls, deviceVars
<1>5. ASSUME NEW asked \in Rooms, hid_get_indexed_string("hid_get_indexed_string", asked)
      PROVE  UNCHANGED <<reports, sent>> /\ Outcome /\ last'.call \notin GetCalls
  BY <1>5, IndexedOutcome DEF hid_get_indexed_string, GetCalls, deviceVars
<1>6. ASSUME NEW asked \in Rooms, hid_get_report_descriptor("hid_get_report_descriptor", asked)
      PROVE  UNCHANGED <<reports, sent>> /\ Outcome /\ last'.call \notin GetCalls
  BY <1>6, DescriptorOutcome, BufferFacts DEF hid_get_report_descriptor, GetCalls, deviceVars
<1>7. ASSUME NEW asked \in Rooms,
             \/ hid_winapi_get_container_id("hid_winapi_get_container_id", asked)
             \/ hid_darwin_get_location_id("hid_darwin_get_location_id", asked)
      PROVE  /\ UNCHANGED <<reports, sent>>
             /\ \/ crashed' = TRUE /\ UNCHANGED <<last, backend>>
                \/ Outcome /\ last'.call \notin GetCalls
  BY <1>7, RestOutcome DEF hid_winapi_get_container_id, hid_darwin_get_location_id, GetCalls, deviceVars
<1>. QED BY <1>1, <1>2, <1>3, <1>4, <1>5, <1>6, <1>7 DEF Call

LEMMA ErrorStep == TypeOK /\ ErrorTellsOfLastCall /\ [Next]_vars => ErrorTellsOfLastCall'
<1>. SUFFICES ASSUME TypeOK, ErrorTellsOfLastCall, [Next]_vars PROVE ErrorTellsOfLastCall'
  OBVIOUS
<1>1. CASE Outcome \/ crashed' = TRUE
  BY <1>1 DEF Outcome, ErrorTellsOfLastCall, hid_error, NoError
<1>2. CASE Unplug \/ hid_device_removal_callback \/ UNCHANGED vars
  <2>1. UNCHANGED <<backend, crashed, last, error>>
    BY <1>2 DEF Unplug, hid_device_removal_callback, vars, openVars
  <2>. QED BY <2>1 DEF ErrorTellsOfLastCall, hid_error, NoError, Forgetful, InfoCalls, StringCalls
<1>. QED BY <1>1, <1>2, CallOutcome DEF Next

(***************************************************************************)
(* What is fetched.                                                        *)
(***************************************************************************)
LEMMA OverFacts ==
    ASSUME NEW buffer \in Seq(Int), NEW n \in {0, 1}, NEW bytes \in Seq(Int)
    PROVE  /\ Over(buffer, n, bytes) \in Seq(Int) /\ Len(Over(buffer, n, bytes)) = Len(buffer)
           /\ \A i \in 1..Len(buffer) :
                Over(buffer, n, bytes)[i] =
                  IF i - n \in 1..Len(bytes) THEN bytes[i - n] ELSE buffer[i]
<1>. DEFINE byte(i) == IF i - n \in 1..Len(bytes) THEN bytes[i - n] ELSE buffer[i]
<1>1. DOMAIN buffer = 1..Len(buffer) /\ DOMAIN bytes = 1..Len(bytes) /\ Len(buffer) \in Nat
  OBVIOUS
<1>2. Over(buffer, n, bytes) = [i \in 1..Len(buffer) |-> byte(i)]
  BY <1>1 DEF Over
<1>3. \A i \in 1..Len(buffer) : byte(i) \in Int
  OBVIOUS
<1>. HIDE DEF byte
<1>4. /\ Over(buffer, n, bytes) \in Seq(Int) /\ Len(Over(buffer, n, bytes)) = Len(buffer)
      /\ \A i \in 1..Len(buffer) : Over(buffer, n, bytes)[i] = byte(i)
  BY <1>1, <1>2, <1>3
<1>. QED BY <1>4 DEF byte

(* Bytes laid where the report belongs are the report, as far as there is  *)
(* room: from the second byte on, or from the first with the ID.           *)
LEMMA LaidOver ==
    ASSUME NEW asked \in Seq(Int), asked # <<>>, NEW content \in Seq(Int),
           NEW n \in {0, 1}, NEW bytes \in Seq(Int),
           LET report == Upto(<<asked[1]>> \o content, Len(asked))
           IN \A i \in 1 + n .. Len(report) : i - n <= Len(bytes) /\ bytes[i - n] = report[i]
    PROVE  LET report == Upto(<<asked[1]>> \o content, Len(asked))
           IN Upto(Over(asked, n, bytes), Len(report)) = report
<1>. DEFINE report == Upto(<<asked[1]>> \o content, Len(asked))
            data == Over(asked, n, bytes)
<1>1. asked[1] \in Int /\ Len(asked) \in Nat /\ Len(asked) > 0 /\ <<asked[1]>> \in Seq(Int)
      /\ Len(<<asked[1]>>) = 1 /\ <<asked[1]>>[1] = asked[1]
  OBVIOUS
<1>2. <<asked[1]>> \o content \in Seq(Int) /\ (<<asked[1]>> \o content)[1] = asked[1]
      /\ Len(<<asked[1]>> \o content) = 1 + Len(content)
  BY <1>1, ConcatFacts
<1>3. report \in Seq(Int) /\ Len(report) \in Nat /\ Len(report) <= Len(asked) /\ Len(report) > 0
      /\ report[1] = asked[1]
  <2>. HIDE DEF report
  <2>1. /\ report \in Seq(Int)
        /\ Len(report) = IF Len(asked) < 1 + Len(content) THEN Len(asked) ELSE 1 + Len(content)
        /\ \A i \in 1..Len(report) : report[i] = (<<asked[1]>> \o content)[i]
    BY <1>1, <1>2, UptoFacts DEF report
  <2>2. Len(report) \in Nat /\ Len(report) <= Len(asked) /\ Len(report) > 0
    BY <1>1, <2>1
  <2>. QED BY <1>2, <2>1, <2>2
<1>. HIDE DEF report
<1>4. \A i \in 1 + n .. Len(report) : i - n <= Len(bytes) /\ bytes[i - n] = report[i]
  BY DEF report
<1>5. /\ data \in Seq(Int) /\ Len(data) = Len(asked)
      /\ \A i \in 1..Len(asked) : data[i] = IF i - n \in 1..Len(bytes) THEN bytes[i - n] ELSE asked[i]
  BY OverFacts
<1>. HIDE DEF data
<1>6. \A i \in 1..Len(report) : data[i] = report[i]
  <2>. SUFFICES ASSUME NEW i \in 1..Len(report) PROVE data[i] = report[i]
    OBVIOUS
  <2>1. CASE i - n >= 1
    <3>1. i \in 1 + n .. Len(report) /\ i \in 1..Len(asked) /\ i - n \in Int
      BY <1>1, <1>3, <2>1
    <3>2. i - n <= Len(bytes) /\ bytes[i - n] = report[i]
      BY <1>4, <3>1
    <3>3. i - n \in 1..Len(bytes)
      <4>1. Len(bytes) \in Nat
        OBVIOUS
      <4>. QED BY <2>1, <3>1, <3>2, <4>1
    <3>4. data[i] = bytes[i - n]
      BY <1>5, <3>1, <3>3
    <3>. QED BY <3>2, <3>4
  <2>2. CASE i - n < 1
    <3>1. i = 1 /\ ~(i - n \in 1..Len(bytes))
      BY <1>3, <2>2
    <3>. QED BY <1>3, <1>5, <3>1
  <2>. QED BY <1>3, <2>1, <2>2
<1>7. Upto(data, Len(report)) = report
  <2>1. /\ Upto(data, Len(report)) \in Seq(Int) /\ Len(Upto(data, Len(report))) = Len(report)
        /\ \A i \in 1..Len(report) : Upto(data, Len(report))[i] = data[i]
    <3>1. /\ Upto(data, Len(report)) \in Seq(Int)
          /\ Len(Upto(data, Len(report))) =
               IF Len(report) < Len(data) THEN Len(report) ELSE Len(data)
          /\ \A i \in 1..Len(Upto(data, Len(report))) : Upto(data, Len(report))[i] = data[i]
      <4>1. data \in Seq(Int) /\ Len(report) \in Nat
        BY <1>3, <1>5
      <4>. QED BY <4>1, UptoFacts
    <3>2. Len(Upto(data, Len(report))) = Len(report)
      <4>1. /\ Len(data) = Len(asked) /\ Len(asked) \in Nat
            /\ Len(report) \in Nat /\ Len(report) <= Len(asked)
        BY <1>1, <1>3, <1>5
      <4>. QED BY <3>1, <4>1
    <3>. QED BY <3>1, <3>2
  <2>. QED BY <1>3, <1>6, <2>1, SameSequence
<1>. QED BY <1>7 DEF report, data

(* A report fetched with its number 0: it lands behind the number.         *)
LEMMA BehindTheNumber ==
    ASSUME NEW asked \in Seq(Int), asked # <<>>, NEW content \in Seq(Int)
    PROVE  LET report == Upto(<<asked[1]>> \o content, Len(asked))
               bytes == Upto(content, Len(asked) - 1)
           IN /\ Upto(Over(asked, 1, bytes), Len(report)) = report
              /\ Len(bytes) + 1 = Len(report)
<1>. DEFINE report == Upto(<<asked[1]>> \o content, Len(asked))
            bytes == Upto(content, Len(asked) - 1)
<1>1. asked[1] \in Int /\ Len(asked) \in Nat /\ Len(asked) - 1 \in Nat /\ <<asked[1]>> \in Seq(Int)
      /\ Len(<<asked[1]>>) = 1
  OBVIOUS
<1>2. /\ <<asked[1]>> \o content \in Seq(Int) /\ Len(<<asked[1]>> \o content) = 1 + Len(content)
      /\ \A i \in 1 + 1 .. 1 + Len(content) : (<<asked[1]>> \o content)[i] = content[i - 1]
  BY <1>1, ConcatFacts
<1>3. /\ report \in Seq(Int)
      /\ Len(report) = IF Len(asked) < 1 + Len(content) THEN Len(asked) ELSE 1 + Len(content)
      /\ \A i \in 1..Len(report) : report[i] = (<<asked[1]>> \o content)[i]
  BY <1>1, <1>2, UptoFacts
<1>4. /\ bytes \in Seq(Int)
      /\ Len(bytes) = IF Len(asked) - 1 < Len(content) THEN Len(asked) - 1 ELSE Len(content)
      /\ \A i \in 1..Len(bytes) : bytes[i] = content[i]
  BY <1>1, UptoFacts
<1>. HIDE DEF report, bytes
<1>5. Len(bytes) + 1 = Len(report)
  BY <1>1, <1>3, <1>4
<1>6. \A i \in 1 + 1 .. Len(report) : i - 1 <= Len(bytes) /\ bytes[i - 1] = report[i]
  <2>. SUFFICES ASSUME NEW i \in 2..Len(report)
                PROVE  i - 1 <= Len(bytes) /\ bytes[i - 1] = report[i]
    BY <1>3
  <2>1. i - 1 \in 1..Len(bytes) /\ i \in 1..Len(report) /\ i \in 1 + 1 .. 1 + Len(content)
    BY <1>1, <1>3, <1>4, <1>5
  <2>2. report[i] = content[i - 1]
    BY <1>2, <1>3, <2>1
  <2>3. bytes[i - 1] = content[i - 1]
    BY <1>4, <2>1
  <2>. QED BY <2>1, <2>2, <2>3
<1>7. Upto(Over(asked, 1, bytes), Len(report)) = report
  BY <1>4, <1>6, LaidOver DEF report
<1>. QED BY <1>5, <1>7 DEF report, bytes

(* NetBSD copies as much as there is room for, the report first.           *)
LEMMA WithGarbage ==
    ASSUME NEW asked \in Seq(Int), asked # <<>>, NEW content \in Seq(Int)
    PROVE  LET report == Upto(<<asked[1]>> \o content, Len(asked))
               room == Len(asked) - 1
           IN Upto(Over(asked, 1, Upto(content \o Repeat(Garbage, room), room)), Len(report)) = report
<1>. DEFINE report == Upto(<<asked[1]>> \o content, Len(asked))
            room == Len(asked) - 1
            ucr_data == content \o Repeat(Garbage, room)
            bytes == Upto(ucr_data, room)
<1>1. asked[1] \in Int /\ Len(asked) \in Nat /\ room \in Nat /\ <<asked[1]>> \in Seq(Int)
      /\ Len(<<asked[1]>>) = 1 /\ Len(content) \in Nat /\ Len(asked) = 1 + room
  OBVIOUS
<1>2. /\ <<asked[1]>> \o content \in Seq(Int) /\ Len(<<asked[1]>> \o content) = 1 + Len(content)
      /\ \A i \in 1 + 1 .. 1 + Len(content) : (<<asked[1]>> \o content)[i] = content[i - 1]
  BY <1>1, ConcatFacts
<1>3. /\ report \in Seq(Int)
      /\ Len(report) = IF Len(asked) < 1 + Len(content) THEN Len(asked) ELSE 1 + Len(content)
      /\ \A i \in 1..Len(report) : report[i] = (<<asked[1]>> \o content)[i]
  BY <1>1, <1>2, UptoFacts
<1>4. /\ ucr_data \in Seq(Int) /\ Len(ucr_data) = Len(content) + room
      /\ \A i \in 1..Len(content) : ucr_data[i] = content[i]
  <2>1. Repeat(Garbage, room) \in Seq(Int) /\ Len(Repeat(Garbage, room)) = room
    <3>1. Garbage \in Int
      BY DEF Garbage
    <3>. HIDE DEF room
    <3>. QED BY <1>1, <3>1, RepeatFacts
  <2>. QED BY <2>1, ConcatFacts
<1>. HIDE DEF ucr_data, report, room
<1>5. bytes \in Seq(Int) /\ Len(bytes) = room /\ \A i \in 1..room : bytes[i] = ucr_data[i]
  <2>1. /\ bytes \in Seq(Int) /\ Len(bytes) = IF room < Len(ucr_data) THEN room ELSE Len(ucr_data)
        /\ \A i \in 1..Len(bytes) : bytes[i] = ucr_data[i]
    BY <1>1, <1>4, UptoFacts
  <2>2. Len(bytes) = room
    BY <1>1, <1>4, <2>1
  <2>. QED BY <2>1, <2>2
<1>. HIDE DEF bytes
<1>6. \A i \in 1 + 1 .. Len(report) : i - 1 <= Len(bytes) /\ bytes[i - 1] = report[i]
  <2>. SUFFICES ASSUME NEW i \in 2..Len(report)
                PROVE  i - 1 <= Len(bytes) /\ bytes[i - 1] = report[i]
    BY <1>3
  <2>1. /\ i - 1 \in 1..room /\ i - 1 \in 1..Len(content)
        /\ i \in 1..Len(report) /\ i \in 1 + 1 .. 1 + Len(content)
    BY <1>1, <1>3
  <2>2. report[i] = content[i - 1]
    BY <1>2, <1>3, <2>1
  <2>3. bytes[i - 1] = content[i - 1]
    BY <1>4, <1>5, <2>1
  <2>. QED BY <1>1, <1>5, <2>1, <2>2, <2>3
<1>7. Upto(Over(asked, 1, bytes), Len(report)) = report
  BY <1>5, <1>6, LaidOver DEF report
<1>. QED BY <1>7 DEF report, bytes, ucr_data, room

(* What a successful call leaves is the report that the device has.        *)
LEMMA FetchedFacts ==
    ASSUME TypeOK, NEW call \in GetCalls, NEW asked, Buffer(asked), asked # <<>>, Fetch(call, asked),
           ~Refuses(call, asked)
    PROVE  LET report == Upto(<<asked[1]>> \o reports[TypeOf(call)][asked[1]], Len(asked))
           IN /\ Upto(last'.data, Len(report)) = report /\ last'.res = Len(report)
              /\ last'.asked = asked /\ last'.call = call
<1>. DEFINE r == asked[1]
            content == reports[TypeOf(call)][r]
            report == Upto(<<r>> \o content, Len(asked))
            skipped == IF r = 0 THEN 1 ELSE 0
            bytes == Upto(OnTheBus(TypeOf(call), r), Len(asked) - skipped)
<1>1. /\ r \in DOMAIN size
      /\ Succeeds(call, asked, FetchedLength(asked, bytes), Over(asked, skipped, bytes))
  BY DEF Fetch
<1>2. /\ last'.res = FetchedLength(asked, bytes) /\ last'.data = Over(asked, skipped, bytes)
      /\ last'.asked = asked /\ last'.call = call
  BY <1>1, AnswerFacts DEF Succeeds
<1>3. content \in Seq(Int)
  BY <1>1 DEF TypeOK, ReportsOK, TypeOf, Types, GetCalls
<1>4. asked \in Seq(Int) /\ Len(asked) \in Nat
  BY DEF Buffer
<1>5. CASE r = 0
  <2>1. OnTheBus(TypeOf(call), r) = content
    <3>1. <<>> \o content = content
      BY <1>3
    <3>. QED BY <1>1, <1>5, <3>1 DEF OnTheBus, numbered
  <2>2. bytes = Upto(content, Len(asked) - 1) /\ skipped = 1
    BY <1>5, <2>1
  <2>3. /\ Upto(Over(asked, 1, Upto(content, Len(asked) - 1)), Len(report)) = report
        /\ Len(Upto(content, Len(asked) - 1)) + 1 = Len(report)
    BY <1>3, <1>4, BehindTheNumber
  <2>4. FetchedLength(asked, bytes) = Len(bytes) + 1
    BY <1>5 DEF FetchedLength
  <2>. HIDE DEF r, content, report, skipped, bytes
  <2>5. Upto(last'.data, Len(report)) = report /\ last'.res = Len(report)
    BY <1>2, <2>2, <2>3, <2>4
  <2>. QED BY <1>2, <2>5 DEF report, content, r
<1>6. CASE r # 0
  <2>1. OnTheBus(TypeOf(call), r) = <<r>> \o content
    <3>1. 0 \in DOMAIN size => DOMAIN size = {0}
      BY DEF TypeOK, SizeOK
    <3>2. 0 \notin DOMAIN size
      BY <1>1, <1>6, <3>1
    <3>. QED BY <3>2 DEF OnTheBus, numbered
  <2>2. bytes = report /\ skipped = 0
    BY <1>4, <1>6, <2>1
  <2>3. FetchedLength(asked, bytes) = Len(bytes)
    BY <1>6 DEF FetchedLength
  <2>4. report \in Seq(Int)
    <3>1. <<r>> \in Seq(Int)
      BY <1>4 DEF Buffer
    <3>2. <<r>> \o content \in Seq(Int)
      BY <1>3, <3>1, ConcatFacts
    <3>. QED BY <1>4, <3>2, UptoFacts
  <2>5. \A i \in 1 + 0 .. Len(report) : i - 0 <= Len(report) /\ report[i - 0] = report[i]
    BY <2>4
  <2>6. Upto(Over(asked, 0, report), Len(report)) = report
    BY <1>3, <1>4, <2>4, <2>5, LaidOver
  <2>. HIDE DEF r, content, report, skipped, bytes
  <2>7. Upto(last'.data, Len(report)) = report /\ last'.res = Len(report)
    BY <1>2, <2>2, <2>3, <2>6
  <2>. QED BY <1>2, <2>7 DEF report, content, r
<1>. QED BY <1>5, <1>6

LEMMA FetchedStep == TypeOK /\ FetchedIsTheReport /\ [Next]_vars => FetchedIsTheReport'
<1>. SUFFICES ASSUME TypeOK, FetchedIsTheReport, [Next]_vars PROVE FetchedIsTheReport'
  OBVIOUS
<1>. DEFINE Kept == UNCHANGED <<backend, last, reports>>
<1>1. CASE Kept
  BY <1>1 DEF FetchedIsTheReport, GetSucceeded
<1>2. CASE last'.call \notin GetCalls
  BY <1>2 DEF FetchedIsTheReport, GetSucceeded
<1>3. ASSUME NEW call \in GetCalls, NEW asked, Buffer(asked), Get(call, asked)
      PROVE  FetchedIsTheReport'
  <2>1. reports' = reports
    BY <1>3 DEF Get, deviceVars
  <2>2. CASE Refuses(call, asked)
    <3>1. last'.res = -1
      BY <2>2, AnswerFacts DEF Refuses
    <3>. QED BY <3>1 DEF FetchedIsTheReport, GetSucceeded
  <2>3. ASSUME asked # <<>>, last'.asked = asked, last'.call = call, backend' = backend,
               LET report == Upto(<<asked[1]>> \o reports[TypeOf(call)][asked[1]], Len(asked))
               IN /\ Upto(last'.data, Len(report)) = report
                  /\ backend # "netbsd" => last'.res = Len(report)
        PROVE  FetchedIsTheReport'
    <3>1. Upto(<<last'.asked[1]>> \o reports'[TypeOf(last'.call)][last'.asked[1]], Len(last'.asked))
            = Upto(<<asked[1]>> \o reports[TypeOf(call)][asked[1]], Len(asked))
      BY <2>1, <2>3
    <3>. QED BY <2>3, <3>1 DEF FetchedIsTheReport
  <2>4. CASE Fetch(call, asked) /\ asked # <<>> /\ ~Refuses(call, asked)
    <3>1. backend' = backend
      BY <2>4, AnswerFacts DEF Fetch, Succeeds, openVars
    <3>. QED BY <1>3, <2>3, <2>4, <3>1, FetchedFacts
  <2>5. CASE netbsd_get_report(call, asked) /\ backend = "netbsd" /\ ~Refuses(call, asked)
    <3>. DEFINE room == Len(asked) - 1
                content == reports[TypeOf(call)][asked[1]]
    <3>1. /\ asked # <<>> /\ asked[1] \in DOMAIN size
          /\ Answers(call, asked, Len(asked), Over(asked, 1, Upto(content \o Repeat(Garbage, room), room)))
      BY <2>5 DEF netbsd_get_report
    <3>2. /\ last'.data = Over(asked, 1, Upto(content \o Repeat(Garbage, room), room))
          /\ last'.asked = asked /\ last'.call = call /\ backend' = backend
      BY <3>1, AnswerFacts DEF openVars
    <3>3. content \in Seq(Int) /\ asked \in Seq(Int)
      BY <1>3, <3>1 DEF TypeOK, ReportsOK, TypeOf, Types, GetCalls, Buffer
    <3>. QED BY <2>3, <2>5, <3>1, <3>2, <3>3, WithGarbage
  <2>. QED BY <1>3, <2>2, <2>4, <2>5 DEF Get, libusb_get, linux_get, mac_get_report,
         windows_get_report, netbsd_get_report, ZeroBuffer
<1>4. CASE Unplug \/ hid_device_removal_callback \/ UNCHANGED vars
  BY <1>1, <1>4 DEF Unplug, hid_device_removal_callback, vars, openVars, deviceVars
<1>5. CASE Call /\ ~crashed
  <2>1. \A call \in SendCalls : call \notin GetCalls
    BY DEF SendCalls, GetCalls
  <2>2. \A asked \in Buffers : Buffer(asked)
    BY BufferFacts DEF TypeOK
  <2>. QED BY <1>1, <1>2, <1>3, <1>5, <2>1, <2>2, CallOutcome
<1>. QED BY <1>4, <1>5 DEF Next

(***************************************************************************)
(* What is sent.                                                           *)
(***************************************************************************)
Fits(content, given, n) ==
    /\ Len(content) >= Len(Upto(given, n))
    /\ IsCopy(content, given) \/ Completed(content, given)

LEMMA HoldsFits ==
    DeviceHoldsWhatWasSent <=>
        \A t \in Types, r \in DOMAIN size : \E given \in sent[t][r] : Fits(reports[t][r], given, size[r])
BY DEF DeviceHoldsWhatWasSent, Fits

(* A transfer that arrives, heard of or not, keeps the promise if the      *)
(* bytes that arrive fit what was given.                                   *)
LEMMA SetReport ==
    ASSUME TypeOK, DeviceHoldsWhatWasSent, NEW t \in Types, NEW r, NEW given, NEW data,
           UNCHANGED openVars,
           r \in DOMAIN size => /\ given \in Seq(Int) /\ data \in Seq(Int)
                                /\ Fits(data, given, size[r]),
           Arrives(t, r, given, data) \/ FailsToArrive(t, r, given, data)
    PROVE  ReportsOK' /\ DeviceHoldsWhatWasSent'
<1>1. size' = size /\ backend' = backend
  BY DEF openVars
<1>2. ASSUME \A u \in Types, q \in DOMAIN size :
               \E g \in sent'[u][q] : Fits(reports'[u][q], g, size[q])
      PROVE  DeviceHoldsWhatWasSent'
  <2>. SUFFICES ASSUME NEW u \in Types, NEW q \in DOMAIN size
                PROVE  \E g \in sent'[u][q] :
                         /\ Len(reports'[u][q]) >= Len(Upto(g, size[q]))
                         /\ \/ IsCopy(reports'[u][q], g)
                            \/ backend = "netbsd" /\ IsCopy(Upto(reports'[u][q], Len(g)), g)
    BY <1>1 DEF DeviceHoldsWhatWasSent, Completed
  <2>. QED BY <1>2 DEF Fits, Completed
<1>3. CASE UNCHANGED <<reports, sent>>
  <2>1. ReportsOK'
    BY <1>1, <1>3 DEF TypeOK, ReportsOK
  <2>. QED BY <1>2, <1>3, <2>1, HoldsFits
<1>4. ASSUME r \in DOMAIN size, NEW S, given \in S, S \subseteq sent[t][r] \cup {given},
             reports' = [reports EXCEPT ![t][r] = data],
             sent' = [sent EXCEPT ![t][r] = S]
      PROVE  ReportsOK' /\ DeviceHoldsWhatWasSent'
  <2>1. /\ reports \in [Types -> [DOMAIN size -> Seq(Int)]]
        /\ sent \in [Types -> [DOMAIN size -> SUBSET Seq(Int)]]
    BY DEF TypeOK, ReportsOK
  <2>2. sent[t][r] \subseteq Seq(Int) /\ S \in SUBSET Seq(Int)
    BY <1>4, <2>1
  <2>3. /\ reports' \in [Types -> [DOMAIN size -> Seq(Int)]]
        /\ sent' \in [Types -> [DOMAIN size -> SUBSET Seq(Int)]]
    <3>1. [reports[t] EXCEPT ![r] = data] \in [DOMAIN size -> Seq(Int)]
      BY <1>4, <2>1
    <3>2. [sent[t] EXCEPT ![r] = S] \in [DOMAIN size -> SUBSET Seq(Int)]
      BY <1>4, <2>1, <2>2
    <3>. QED BY <1>4, <2>1, <3>1, <3>2
  <2>4. ASSUME NEW u \in Types, NEW q \in DOMAIN size
        PROVE  \E g \in sent'[u][q] : Fits(reports'[u][q], g, size[q])
    <3>1. CASE u = t /\ q = r
      <4>1. reports'[u][q] = data /\ sent'[u][q] = S
        BY <1>4, <2>1, <3>1
      <4>. QED BY <1>4, <3>1, <4>1
    <3>2. CASE ~(u = t /\ q = r)
      <4>1. reports'[u][q] = reports[u][q] /\ sent'[u][q] = sent[u][q]
        BY <1>4, <2>1, <3>2
      <4>. QED BY <4>1, HoldsFits
    <3>. QED BY <3>1, <3>2
  <2>5. ReportsOK'
    BY <1>1, <2>3 DEF ReportsOK
  <2>. QED BY <1>2, <2>4, <2>5
<1>5. CASE Arrives(t, r, given, data)
  BY <1>4, <1>5 DEF Arrives, Takes
<1>6. CASE FailsToArrive(t, r, given, data)
  <2>1. CASE /\ Takes(r, data)
             /\ reports' = [reports EXCEPT ![t][r] = data]
             /\ sent' = [sent EXCEPT ![t][r] = @ \cup {given}]
    <3>1. sent' = [sent EXCEPT ![t][r] = sent[t][r] \cup {given}]
      BY <2>1 DEF TypeOK, ReportsOK, Takes
    <3>. QED BY <1>4, <2>1, <3>1 DEF Takes
  <2>. QED BY <1>3, <1>6, <2>1 DEF FailsToArrive
<1>. QED BY <1>5, <1>6

(* The report ID goes with the report if the device has several; else it   *)
(* is 0 and stays behind.                                                  *)
LEMMA ReceivedFacts ==
    ASSUME SizeOK, NEW bytes \in Seq(Int), bytes # <<>>, bytes[1] \in DOMAIN size
    PROVE  Received(WithoutZero(bytes)) = Tail(bytes)
<1>1. CASE bytes[1] = 0
  BY <1>1 DEF WithoutZero, Received, numbered
<1>2. CASE bytes[1] # 0
  <2>1. 0 \in DOMAIN size => DOMAIN size = {0}
    BY DEF SizeOK
  <2>2. 0 \notin DOMAIN size
    BY <1>2, <2>1
  <2>. QED BY <1>2, <2>2 DEF WithoutZero, Received, numbered
<1>. QED BY <1>1, <1>2

LEMMA DirectFits ==
    ASSUME SizeOK, NEW asked, Buffer(asked), asked # <<>>, asked[1] \in DOMAIN size
    PROVE  /\ Received(WithoutZero(asked)) = Tail(asked) /\ Tail(asked) \in Seq(Int)
           /\ Fits(Tail(asked), Tail(asked), size[asked[1]])
<1>. DEFINE given == Tail(asked)
<1>1. asked \in Seq(Int) /\ given \in Seq(Int)
  BY TailFacts DEF Buffer
<1>2. size[asked[1]] \in Nat
  BY MaxReportFacts DEF SizeOK
<1>3. Len(given) >= Len(Upto(given, size[asked[1]]))
  <2>1. ASSUME NEW n \in Nat, NEW q \in Seq(Int) PROVE Len(q) >= Len(Upto(q, n))
    BY UptoFacts
  <2>. QED BY <1>1, <1>2, <2>1
<1>4. IsCopy(given, given)
  BY DEF IsCopy
<1>. QED BY <1>1, <1>3, <1>4, ReceivedFacts DEF Fits

(* Windows: the buffer padded with zeros and cut to what the report takes. *)
LEMMA PaddedFacts ==
    ASSUME SizeOK, NEW asked \in Seq(Int), NEW cached
    PROVE  LET buf == IF Short(asked) THEN Padded(asked, cached) ELSE asked
           IN /\ buf \in Seq(Int) /\ Len(buf) >= Len(asked)
              /\ \A i \in 1..Len(buf) : buf[i] = IF i <= Len(asked) THEN asked[i] ELSE 0
<1>. DEFINE buf == IF Short(asked) THEN Padded(asked, cached) ELSE asked
<1>1. CASE Short(asked)
  <2>. DEFINE n == ReportByteLength - Len(asked)
  <2>1. n \in Nat
    BY <1>1, LengthFacts DEF Short
  <2>2. buf = asked \o Repeat(0, n)
    BY <1>1 DEF Padded
  <2>. HIDE DEF n, buf
  <2>3. Repeat(0, n) \in Seq(Int) /\ Len(Repeat(0, n)) = n /\ \A i \in 1..n : Repeat(0, n)[i] = 0
    BY <2>1, RepeatFacts
  <2>4. /\ buf \in Seq(Int) /\ Len(buf) = Len(asked) + n
        /\ \A i \in 1..Len(asked) : buf[i] = asked[i]
        /\ \A i \in Len(asked) + 1 .. Len(asked) + n : buf[i] = Repeat(0, n)[i - Len(asked)]
    BY <2>2, <2>3, ConcatFacts, ZenonT(40)
  <2>5. ASSUME NEW i \in 1..Len(buf) PROVE buf[i] = IF i <= Len(asked) THEN asked[i] ELSE 0
    <3>1. Len(asked) \in Nat
      OBVIOUS
    <3>2. CASE i <= Len(asked)
      BY <2>4, <3>1, <3>2
    <3>3. CASE i > Len(asked)
      <4>1. i \in Len(asked) + 1 .. Len(asked) + n /\ i - Len(asked) \in 1..n
        BY <2>1, <2>4, <3>1, <3>3
      <4>2. buf[i] = 0
        BY <2>3, <2>4, <4>1
      <4>. QED BY <3>1, <3>3, <4>2
    <3>. QED BY <3>1, <3>2, <3>3
  <2>6. Len(buf) >= Len(asked)
    BY <2>1, <2>4
  <2>. QED BY <2>4, <2>5, <2>6 DEF buf
<1>2. CASE ~Short(asked)
  BY <1>2
<1>. QED BY <1>1, <1>2

LEMMA WindowsFits ==
    ASSUME SizeOK, NEW asked, Buffer(asked), asked # <<>>, asked[1] \in DOMAIN size, NEW cached
    PROVE  LET buf == IF Short(asked) THEN Padded(asked, cached) ELSE asked
               data == Received(WithoutZero(ByDriver(buf)))
           IN data \in Seq(Int) /\ Fits(data, Tail(asked), size[asked[1]])
<1>. DEFINE buf == IF Short(asked) THEN Padded(asked, cached) ELSE asked
            n == size[asked[1]]
            bytes == Upto(buf, 1 + n)
            given == Tail(asked)
<1>1. /\ asked \in Seq(Int) /\ given \in Seq(Int) /\ Len(given) = Len(asked) - 1
      /\ Len(asked) \in Nat /\ Len(asked) > 0
      /\ \A i \in 1..Len(asked) - 1 : given[i] = asked[i + 1]
  BY TailFacts DEF Buffer
<1>2. n \in Nat
  BY MaxReportFacts DEF SizeOK
<1>3. /\ buf \in Seq(Int) /\ Len(buf) >= Len(asked) /\ Len(buf) \in Nat
      /\ \A i \in 1..Len(buf) : buf[i] = IF i <= Len(asked) THEN asked[i] ELSE 0
  <2>1. /\ buf \in Seq(Int) /\ Len(buf) >= Len(asked)
        /\ \A i \in 1..Len(buf) : buf[i] = IF i <= Len(asked) THEN asked[i] ELSE 0
    BY <1>1, PaddedFacts
  <2>. HIDE DEF buf
  <2>. QED BY <2>1
<1>4. ByDriver(buf) = bytes
  <2>. HIDE DEF buf
  <2>1. buf[1] = asked[1]
    BY <1>1, <1>3
  <2>. QED BY <2>1 DEF ByDriver, buf
<1>. HIDE DEF buf, n
<1>5. /\ bytes \in Seq(Int) /\ Len(bytes) = IF 1 + n < Len(buf) THEN 1 + n ELSE Len(buf)
      /\ \A i \in 1..Len(bytes) : bytes[i] = buf[i]
  BY <1>2, <1>3, UptoFacts, SMTT(30)
<1>. HIDE DEF bytes
<1>6. bytes # <<>> /\ bytes[1] = asked[1]
  <2>1. Len(bytes) >= 1
    BY <1>1, <1>2, <1>3, <1>5
  <2>. QED BY <1>1, <1>3, <1>5, <2>1
<1>7. Received(WithoutZero(bytes)) = Tail(bytes)
  BY <1>5, <1>6, ReceivedFacts
<1>. DEFINE data == Tail(bytes)
<1>8. /\ data \in Seq(Int) /\ Len(data) = Len(bytes) - 1
      /\ \A i \in 1..Len(bytes) - 1 : data[i] = bytes[i + 1]
  BY <1>5, <1>6, TailFacts
<1>. HIDE DEF data, given
<1>9. Len(data) >= Len(Upto(given, n))
  <2>1. Len(Upto(given, n)) = IF n < Len(given) THEN n ELSE Len(given)
    BY <1>1, <1>2, UptoFacts
  <2>2. ASSUME NEW a \in Nat, NEW b \in Nat, NEW g \in Nat, NEW m \in Nat, NEW k \in Nat,
               b >= a, g = a - 1, k = (IF 1 + m < b THEN 1 + m ELSE b) - 1
        PROVE  k >= IF m < g THEN m ELSE g
    BY <2>2
  <2>3. Len(data) \in Nat /\ Len(given) \in Nat
    BY <1>1, <1>8
  <2>4. Len(data) = (IF 1 + n < Len(buf) THEN 1 + n ELSE Len(buf)) - 1
    BY <1>5, <1>8
  <2>5. Len(data) >= IF n < Len(given) THEN n ELSE Len(given)
    BY <1>1, <1>2, <1>3, <2>2, <2>3, <2>4
  <2>. QED BY <2>1, <2>5
<1>10. IsCopy(data, given)
  <2>1. DOMAIN data = 1..Len(data) /\ DOMAIN given = 1..Len(given) /\ Len(data) \in Nat
    BY <1>1, <1>8
  <2>. SUFFICES ASSUME NEW i \in 1..Len(data)
                PROVE  data[i] = IF i \in 1..Len(given) THEN given[i] ELSE 0
    BY <2>1 DEF IsCopy
  <2>2. i \in 1..Len(bytes) - 1 /\ i + 1 \in 1..Len(bytes) /\ i + 1 \in 1..Len(buf)
    BY <1>2, <1>3, <1>5, <1>8, SMTT(30)
  <2>3. data[i] = buf[i + 1]
    BY <1>5, <1>8, <2>2
  <2>4. buf[i + 1] = IF i + 1 <= Len(asked) THEN asked[i + 1] ELSE 0
    BY <1>3, <2>2
  <2>5. CASE i \in 1..Len(given)
    <3>1. i + 1 <= Len(asked) /\ i \in 1..Len(asked) - 1
      BY <1>1, <2>5
    <3>. QED BY <1>1, <2>3, <2>4, <2>5, <3>1
  <2>6. CASE i \notin 1..Len(given)
    <3>1. ~(i + 1 <= Len(asked))
      BY <1>1, <2>2, <2>6
    <3>. QED BY <2>3, <2>4, <2>6, <3>1
  <2>. QED BY <2>5, <2>6
<1>11. Received(WithoutZero(ByDriver(buf))) = data
  BY <1>4, <1>7 DEF data
<1>12. data \in Seq(Int) /\ Fits(data, given, n)
  BY <1>8, <1>9, <1>10 DEF Fits
<1>. QED BY <1>11, <1>12 DEF buf, given, n

(* NetBSD: what the caller gave, completed by stack bytes.                 *)
LEMMA NetbsdFits ==
    ASSUME SizeOK, backend = "netbsd", NEW given \in Seq(Int), NEW r \in DOMAIN size
    PROVE  LET ucr_data == given \o Repeat(Garbage, size[r] - Len(given))
               data == Upto(ucr_data, size[r])
           IN data \in Seq(Int) /\ Fits(data, given, size[r])
<1>. DEFINE n == size[r]
            rest == Repeat(Garbage, n - Len(given))
            ucr_data == given \o rest
            data == Upto(ucr_data, n)
<1>1. n \in Nat /\ Len(given) \in Nat
  BY MaxReportFacts DEF SizeOK
<1>. HIDE DEF n
<1>2. rest \in Seq(Int) /\ Len(rest) = IF n > Len(given) THEN n - Len(given) ELSE 0
  <2>1. Garbage \in Int
    BY DEF Garbage
  <2>2. CASE n > Len(given)
    <3>1. n - Len(given) \in Nat
      BY <1>1, <2>2
    <3>. QED BY <2>1, <2>2, <3>1, RepeatFacts
  <2>3. CASE ~(n > Len(given))
    <3>1. n - Len(given) \in Int /\ n - Len(given) <= 0
      BY <1>1, <2>3
    <3>. QED BY <2>1, <2>3, <3>1, RepeatNothing
  <2>. QED BY <2>2, <2>3
<1>. HIDE DEF rest
<1>3. /\ ucr_data \in Seq(Int) /\ Len(ucr_data) = Len(given) + Len(rest)
      /\ \A i \in 1..Len(given) : ucr_data[i] = given[i]
  BY <1>2, ConcatFacts
<1>. HIDE DEF ucr_data
<1>4. /\ data \in Seq(Int) /\ Len(data) = n
      /\ \A i \in 1..n : data[i] = ucr_data[i]
  <2>1. /\ data \in Seq(Int) /\ Len(data) = IF n < Len(ucr_data) THEN n ELSE Len(ucr_data)
        /\ \A i \in 1..Len(data) : data[i] = ucr_data[i]
    BY <1>1, <1>3, UptoFacts
  <2>2. Len(data) = n
    BY <1>1, <1>2, <1>3, <2>1
  <2>. QED BY <2>1, <2>2
<1>. HIDE DEF data
<1>5. Len(data) >= Len(Upto(given, n))
  <2>1. Len(Upto(given, n)) = IF n < Len(given) THEN n ELSE Len(given)
    BY <1>1, UptoFacts
  <2>. QED BY <1>1, <1>4, <2>1
<1>6. IsCopy(Upto(data, Len(given)), given)
  <2>. DEFINE part == Upto(data, Len(given))
  <2>1. /\ part \in Seq(Int) /\ Len(part) = IF Len(given) < Len(data) THEN Len(given) ELSE Len(data)
        /\ \A i \in 1..Len(part) : part[i] = data[i]
    BY <1>1, <1>4, UptoFacts
  <2>. HIDE DEF part
  <2>2. DOMAIN part = 1..Len(part) /\ DOMAIN given = 1..Len(given)
    BY <2>1
  <2>3. ASSUME NEW i \in 1..Len(part) PROVE i \in 1..Len(given) /\ part[i] = given[i]
    <3>1. i \in 1..Len(given) /\ i \in 1..n
      BY <1>1, <1>4, <2>1
    <3>. QED BY <1>3, <1>4, <2>1, <3>1
  <2>4. IsCopy(part, given)
    BY <2>2, <2>3 DEF IsCopy
  <2>. QED BY <2>4 DEF part
<1>7. data \in Seq(Int) /\ Fits(data, given, n)
  BY <1>4, <1>5, <1>6 DEF Fits, Completed
<1>. QED BY <1>7 DEF data, ucr_data, rest, n

LEMMA TransferHolds ==
    ASSUME TypeOK, DeviceHoldsWhatWasSent, NEW call \in SendCalls, NEW asked, NEW bytes, NEW res,
           NEW dropped, Transfer(call, asked, bytes, res, dropped), Buffer(asked), asked # <<>>,
           asked[1] \in DOMAIN size =>
             Received(bytes) \in Seq(Int) /\ Fits(Received(bytes), Tail(asked), size[asked[1]])
    PROVE  ReportsOK' /\ DeviceHoldsWhatWasSent' /\ UNCHANGED openVars
<1>. DEFINE t == TypeOf(call)
            r == asked[1]
            given == Tail(asked)
            data == Received(bytes)
<1>1. t \in Types /\ given \in Seq(Int)
  BY TailFacts DEF TypeOf, Types, SendCalls, Buffer
<1>2. UNCHANGED openVars
  BY AnswerFacts DEF Transfer, Succeeds, Refuses
<1>3. CASE Arrives(t, r, given, data) \/ FailsToArrive(t, r, given, data)
  BY <1>1, <1>2, <1>3, SetReport
<1>4. CASE UNCHANGED deviceVars
  <2>1. size' = size /\ backend' = backend /\ reports' = reports /\ sent' = sent
    BY <1>2, <1>4 DEF openVars, deviceVars
  <2>. QED BY <1>2, <2>1 DEF TypeOK, ReportsOK, DeviceHoldsWhatWasSent, Completed
<1>. QED BY <1>2, <1>3, <1>4 DEF Transfer, Ignored

LEMMA SendHolds ==
    ASSUME TypeOK, DeviceHoldsWhatWasSent, NEW call \in SendCalls, NEW asked, Buffer(asked),
           Send(call, asked)
    PROVE  ReportsOK' /\ DeviceHoldsWhatWasSent' /\ UNCHANGED openVars
<1>. DEFINE Goal == ReportsOK' /\ DeviceHoldsWhatWasSent' /\ UNCHANGED openVars
<1>0. SizeOK
  BY DEF TypeOK
<1>1. ASSUME UNCHANGED <<reports, sent, openVars>> PROVE Goal
  <2>1. size' = size /\ backend' = backend /\ reports' = reports /\ sent' = sent
    BY <1>1 DEF openVars
  <2>. QED BY <1>1, <2>1 DEF TypeOK, ReportsOK, DeviceHoldsWhatWasSent, Completed
<1>2. ASSUME NEW c, Refuses(c, asked), UNCHANGED deviceVars PROVE Goal
  BY <1>1, <1>2, AnswerFacts DEF Refuses, deviceVars
<1>3. ASSUME NEW c, ZeroBuffer(c, asked) PROVE Goal
  BY <1>2, <1>3 DEF ZeroBuffer
<1>4. ASSUME NEW c \in SendCalls, asked # <<>>, NEW res, NEW dropped,
             Transfer(c, asked, WithoutZero(asked), res, dropped)
      PROVE  Goal
  BY <1>0, <1>4, DirectFits, TransferHolds
<1>5. ASSUME NEW c \in SendCalls, libusb_send(c, asked) PROVE Goal
  BY <1>3, <1>4, <1>5 DEF libusb_send, Sends
<1>6. "hid_send_output_report" \in SendCalls
  BY DEF SendCalls
<1>7. CASE libusb_write(asked) \/ libusb_send(call, asked)
  BY <1>5, <1>6, <1>7 DEF libusb_write, SendCalls
<1>8. CASE linux_write(asked) \/ linux_send(call, asked) \/ mac_set_report(call, asked)
  <2>1. "hid_write" \in SendCalls
    BY DEF SendCalls
  <2>. QED BY <1>2, <1>3, <1>4, <1>8, <2>1 DEF linux_write, linux_send, mac_set_report, Sends
<1>9. CASE backend = "netbsd" /\ netbsd_set_report(call, asked)
  <2>. DEFINE t == TypeOf(call)
              r == asked[1]
              given == Tail(asked)
              data == Upto(given \o Repeat(Garbage, size[r] - Len(given)), size[r])
  <2>1. CASE Refuses(call, asked) /\ UNCHANGED deviceVars
    BY <1>2, <2>1
  <2>2. CASE asked # <<>> /\ (Arrives(t, r, given, data) \/ FailsToArrive(t, r, given, data))
             /\ UNCHANGED openVars
    <3>1. t \in Types /\ given \in Seq(Int)
      BY <2>2, TailFacts DEF TypeOf, Types, SendCalls, Buffer
    <3>2. r \in DOMAIN size => data \in Seq(Int) /\ Fits(data, given, size[r])
      BY <1>0, <1>9, <3>1, NetbsdFits
    <3>. HIDE DEF t, r, given, data
    <3>. QED BY <2>2, <3>1, <3>2, SetReport
  <2>. QED BY <1>9, <2>1, <2>2, AnswerFacts DEF netbsd_set_report, Refuses
<1>10. ASSUME NEW cached, NEW res, windows_send(call, asked, cached, res) PROVE Goal
  <2>. DEFINE buf == IF Short(asked) THEN Padded(asked, cached) ELSE asked
  <2>1. CASE ZeroBuffer(call, asked)
    BY <1>3, <2>1
  <2>2. CASE asked # <<>> /\ Transfer(call, asked, WithoutZero(ByDriver(buf)), res, FALSE)
    <3>1. asked[1] \in DOMAIN size =>
            /\ Received(WithoutZero(ByDriver(buf))) \in Seq(Int)
            /\ Fits(Received(WithoutZero(ByDriver(buf))), Tail(asked), size[asked[1]])
      BY <1>0, <2>2, WindowsFits
    <3>. HIDE DEF buf
    <3>. QED BY <2>2, <3>1, TransferHolds
  <2>. QED BY <1>10, <2>1, <2>2 DEF windows_send
<1>11. CASE windows_write(asked) /\ call = "hid_write"
  BY <1>10, <1>11 DEF windows_write
<1>12. CASE windows_send_feature_report(asked) /\ call = "hid_send_feature_report"
  BY <1>10, <1>12 DEF windows_send_feature_report
<1>13. CASE windows_send_output_report(asked) /\ call = "hid_send_output_report"
  BY <1>10, <1>13 DEF windows_send_output_report
<1>. QED BY <1>7, <1>8, <1>9, <1>11, <1>12, <1>13 DEF Send

LEMMA OpenKept ==
    ASSUME [Next]_vars
    PROVE  UNCHANGED openVars
<1>1. CASE Unplug \/ hid_device_removal_callback \/ UNCHANGED vars
  BY <1>1 DEF Unplug, hid_device_removal_callback, vars
<1>2. ASSUME NEW call, NEW asked, Refuses(call, asked) \/ Gives(call, asked) PROVE UNCHANGED openVars
  BY <1>2, AnswerFacts DEF Refuses, Gives
<1>3. ASSUME NEW call, NEW asked, NEW res, NEW data, Succeeds(call, asked, res, data)
      PROVE  UNCHANGED openVars
  BY <1>3, AnswerFacts DEF Succeeds
<1>4. ASSUME NEW call, NEW asked, Send(call, asked) PROVE UNCHANGED openVars
  BY <1>2, <1>3, <1>4, AnswerFacts DEF Send, libusb_write, libusb_send, linux_write, linux_send,
    mac_set_report, netbsd_set_report, windows_write, windows_send_feature_report,
    windows_send_output_report, windows_send, Sends, Transfer, ZeroBuffer
<1>5. ASSUME NEW call, NEW asked, Get(call, asked) PROVE UNCHANGED openVars
  BY <1>2, <1>3, <1>5, AnswerFacts DEF Get, libusb_get, linux_get, mac_get_report,
    netbsd_get_report, windows_get_report, Fetch, ZeroBuffer
<1>6. ASSUME NEW call, hid_get_device_info(call) PROVE UNCHANGED openVars
  BY <1>2, <1>6, AnswerFacts DEF hid_get_device_info, libusb_get_device_info, mac_get_device_info,
    linux_get_device_info, netbsd_get_device_info, windows_get_device_info, Info, NoInfo
<1>7. ASSUME NEW call, NEW asked, GetString(call, asked) PROVE UNCHANGED openVars
  BY <1>2, <1>7 DEF GetString, ZeroBuffer, libusb_get_string, linux_get_string,
    mac_get_string, windows_get_string, netbsd_get_string, info_get_string, NoInfo
<1>8. ASSUME NEW call, NEW asked, hid_get_indexed_string(call, asked) PROVE UNCHANGED openVars
  BY <1>2, <1>8 DEF hid_get_indexed_string, ZeroBuffer, libusb_get_indexed_string,
    libusb_get_string, netbsd_get_indexed_string, windows_get_indexed_string
<1>9. ASSUME NEW call, NEW asked, hid_get_report_descriptor(call, asked) PROVE UNCHANGED openVars
  BY <1>2, <1>9, AnswerFacts DEF hid_get_report_descriptor, libusb_get_report_descriptor,
    linux_get_report_descriptor, mac_get_report_descriptor, netbsd_get_report_descriptor,
    windows_get_report_descriptor, FetchesDescriptor, GivesDescriptor, ZeroBuffer
<1>10. ASSUME NEW call, NEW asked,
              hid_winapi_get_container_id(call, asked) \/ hid_darwin_get_location_id(call, asked)
       PROVE  UNCHANGED openVars
  BY <1>2, <1>3, <1>10 DEF hid_winapi_get_container_id, hid_darwin_get_location_id
<1>. QED BY <1>1, <1>4, <1>5, <1>6, <1>7, <1>8, <1>9, <1>10 DEF Next, Call

LEMMA HoldsStep == TypeOK /\ DeviceHoldsWhatWasSent /\ [Next]_vars => TypeOK' /\ DeviceHoldsWhatWasSent'
<1>. SUFFICES ASSUME TypeOK, DeviceHoldsWhatWasSent, [Next]_vars
              PROVE  TypeOK' /\ DeviceHoldsWhatWasSent'
  OBVIOUS
<1>1. size' = size /\ backend' = backend
  BY OpenKept DEF openVars
<1>2. backend' \in Systems /\ SizeOK'
  BY <1>1 DEF TypeOK, SizeOK
<1>3. CASE UNCHANGED <<reports, sent>>
  <2>1. ReportsOK'
    BY <1>1, <1>3 DEF TypeOK, ReportsOK
  <2>2. DeviceHoldsWhatWasSent'
    BY <1>1, <1>3 DEF DeviceHoldsWhatWasSent, Completed
  <2>. QED BY <1>2, <2>1, <2>2 DEF TypeOK
<1>4. ASSUME NEW call \in SendCalls, NEW asked \in Buffers, Send(call, asked)
      PROVE  ReportsOK' /\ DeviceHoldsWhatWasSent'
  BY <1>4, SendHolds, BufferFacts DEF TypeOK
<1>5. CASE \E call \in GetCalls, asked \in Buffers : Get(call, asked)
  BY <1>3, <1>5 DEF Get, deviceVars
<1>6. CASE Unplug \/ hid_device_removal_callback \/ UNCHANGED vars
  BY <1>3, <1>6 DEF Unplug, hid_device_removal_callback, vars, deviceVars
<1>. QED BY <1>2, <1>3, <1>4, <1>5, <1>6, CallOutcome DEF Next, TypeOK

(***************************************************************************)
(* The theorems.                                                           *)
(***************************************************************************)
LEMMA InitInvariant == Init => IInv
<1>. SUFFICES ASSUME Init PROVE IInv
  OBVIOUS
<1>1. backend \in Systems
  BY DevicesAssumption DEF Init, Systems
<1>2. SizeOK
  <2>1. PICK d \in Devices : size = d.size
    BY DEF Init
  <2>. QED BY <2>1, DevicesAssumption DEF SizeOK
<1>3. ASSUME NEW r \in DOMAIN size
      PROVE  Repeat(2, size[r]) \in Seq(Int) /\ Len(Repeat(2, size[r])) = size[r] /\ size[r] \in Nat
  <2>1. size[r] \in Nat
    BY <1>2, MaxReportFacts DEF SizeOK
  <2>. QED BY <2>1, RepeatFacts
<1>4. /\ reports = [t \in Types |-> [r \in DOMAIN size |-> Repeat(2, size[r])]]
      /\ sent = [t \in Types |-> [r \in DOMAIN size |-> {reports[t][r]}]]
  BY DEF Init
<1>5. reports \in [Types -> [DOMAIN size -> Seq(Int)]]
  BY <1>3, <1>4
<1>6. sent \in [Types -> [DOMAIN size -> SUBSET Seq(Int)]]
  BY <1>4, <1>5
<1>7. DeviceHoldsWhatWasSent
  <2>1. ASSUME NEW t \in Types, NEW r \in DOMAIN size
        PROVE  \E given \in sent[t][r] : Fits(reports[t][r], given, size[r])
    <3>1. reports[t][r] \in sent[t][r] /\ reports[t][r] \in Seq(Int)
      BY <1>4, <1>5
    <3>2. Len(reports[t][r]) >= Len(Upto(reports[t][r], size[r]))
      <4>1. ASSUME NEW n \in Nat, NEW q \in Seq(Int) PROVE Len(q) >= Len(Upto(q, n))
        BY UptoFacts
      <4>. QED BY <1>3, <3>1, <4>1
    <3>3. IsCopy(reports[t][r], reports[t][r])
      BY DEF IsCopy
    <3>. QED BY <3>1, <3>2, <3>3 DEF Fits
  <2>. QED BY <2>1, HoldsFits
<1>8. ErrorTellsOfLastCall /\ FetchedIsTheReport
  BY DEF Init, ErrorTellsOfLastCall, hid_error, FetchedIsTheReport, GetSucceeded, GetCalls
<1>. QED BY <1>1, <1>2, <1>5, <1>6, <1>7, <1>8 DEF IInv, TypeOK, ReportsOK

(* Whatever calls an application makes on an open device, with whatever    *)
(* buffers, and whenever the device goes.                                  *)
THEOREM Invariance == Spec => []IInv
<1>1. Init => IInv
  BY InitInvariant
<1>2. IInv /\ [Next]_vars => IInv'
  BY ErrorStep, FetchedStep, HoldsStep, Zenon DEF IInv
<1>. QED BY <1>1, <1>2, PTL DEF Spec

(* Every failing call leaves its error, every other clears the last one,   *)
(* but for the forgetful ones.                                             *)
THEOREM ErrorTells == Spec => []ErrorTellsOfLastCall
<1>1. IInv => ErrorTellsOfLastCall
  BY Zenon DEF IInv
<1>. QED BY <1>1, Invariance, PTL

(* hid_get_feature_report and hid_get_input_report give the report of the  *)
(* device, in its place in the buffer, and its length.                     *)
THEOREM FetchesTheReport == Spec => []FetchedIsTheReport
<1>1. IInv => FetchedIsTheReport
  BY Zenon DEF IInv
<1>. QED BY <1>1, Invariance, PTL

(* hid_write, hid_send_output_report and hid_send_feature_report put into  *)
(* a report of the device what was given for it, completed at most.        *)
THEOREM HoldsWhatWasSent == Spec => []DeviceHoldsWhatWasSent
<1>1. IInv => DeviceHoldsWhatWasSent
  BY Zenon DEF IInv
<1>. QED BY <1>1, Invariance, PTL
=============================================================================
